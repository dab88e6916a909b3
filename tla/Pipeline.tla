------------------------------ MODULE Pipeline ------------------------------
(***************************************************************************)
(* pipeline/pipeline.cpp and pipeline/worker.cpp: three worker threads and *)
(* three queues in a row.                                                  *)
(*                                                                         *)
(*   submit -> raw -> pre -> tensor -> inf -> result -> post -> callback   *)
(*                                                                         *)
(* A queue is a Channel: BlockingQueue implements one (BlockingQueue.tla,  *)
(* BlockingQueueProofs.tla), so a push or a pop is one step here, taken    *)
(* when its wait predicate holds.  Samples are numbered in the order they  *)
(* are submitted and a window carries the samples it was cut from.         *)
(*                                                                         *)
(* One thread owns the pipeline and calls start, stop and the destructor,  *)
(* one thread submits samples, and the three workers run between the two.  *)
(***************************************************************************)
EXTENDS Channel, SequencesExt

CONSTANTS
    QueueCapacity,  \* queue_capacity, of all three queues
    WindowLength,   \* kTargetLength
    MaxSamples      \* bound: samples submitted in a behaviour

ASSUME QueueCapacityAssumption == QueueCapacity \in Nat \ {0}
ASSUME WindowLengthAssumption == WindowLength \in Nat \ {0}
ASSUME MaxSamplesAssumption == MaxSamples \in Nat

Queues == {"raw", "tensor", "result"}
Stages == {"pre", "inf", "post"}

\* The queue a worker pops, and the one it pushes.
Input  == [pre |-> "raw", inf |-> "tensor", post |-> "result"]
Output == [pre |-> "tensor", inf |-> "result"]

VARIABLES
    chan,           \* raw_queue_, tensor_queue_, result_queue_
    window,         \* window_buffer_
    windowId,       \* window_id_
    engineReady,    \* engine_.ready()
    running,        \* running_ of each worker
    place,          \* where the thread of each worker stands
    hand,           \* the item a worker has in hand, if any
    todo,           \* what the owner has left to do of the call it is in
    feeder,         \* the sample the feeder is submitting, if any
    submitted,      \* history: calls of submit so far
    accepted,       \* history: samples for which submit returned true
    reported        \* history: results passed to the callback

workerVars == <<window, windowId, place, hand, reported>>
feederVars == <<feeder, submitted, accepted>>
vars == <<chan, engineReady, running, todo, workerVars, feederVars>>

(***************************************************************************)
(* place[s]:                                                               *)
(*   none   thread_ is not joinable: never started, or joined              *)
(*   check  at the test of running_ in the thread's while loop             *)
(*   pop    in the stage's loop, at the pop of its input queue             *)
(*   push   at the push of its output queue, the item in hand              *)
(*   call   (post) about to classify the result in hand and call back      *)
(*   done   the thread function has returned, thread_ is joinable          *)
(***************************************************************************)
Places == {"none", "check", "pop", "push", "call", "done"}

Move(s, from, to) == place[s] = from /\ place' = [place EXCEPT ![s] = to]

\* Nothing is in flight when the pipeline is built; nothing loads engine_.
Init ==
    /\ chan = [q \in Queues |-> NewChannel]
    /\ window = <<>>
    /\ windowId = 0
    /\ engineReady = FALSE
    /\ running = [s \in Stages |-> FALSE]
    /\ place = [s \in Stages |-> "none"]
    /\ hand = [s \in Stages |-> <<>>]
    /\ todo = <<>>
    /\ feeder = <<>>
    /\ submitted = 0
    /\ accepted = 0
    /\ reported = <<>>
-----------------------------------------------------------------------------
(* The worker threads.                                                      *)

WorkerFrame == UNCHANGED <<engineReady, running, todo, feederVars>>

\* Mutant: running_ is set after the thread has started, which may miss it.
TestRunningMutant(s) ==
    /\ \E seen \in {running[s], FALSE} :
          Move(s, "check", IF seen THEN "pop" ELSE "done")
    /\ UNCHANGED <<chan, window, windowId, hand, reported>>
    /\ WorkerFrame

\* while (running_) loop();
TestRunning(s) ==
    /\ Move(s, "check", IF running[s] THEN "pop" ELSE "done")
    /\ UNCHANGED <<chan, window, windowId, hand, reported>>
    /\ WorkerFrame

\* pop returned nullopt: the stage's loop is left, the thread's loop is not.
LeaveLoop(s) ==
    /\ Ended(chan[Input[s]])
    /\ Move(s, "pop", "check")
    /\ UNCHANGED <<chan, window, windowId, hand, reported>>
    /\ WorkerFrame

Pop(s) ==
    /\ chan[Input[s]].buf # <<>>
    /\ chan' = [chan EXCEPT ![Input[s]] = Take(@)]

Popped(s) == Head(chan[Input[s]].buf)

\* Preprocessor::run refuses an empty window and no other.
Preprocessed(w) == w # <<>>

\* Mutant: the window is cut one sample too late.
CollectSampleMutant ==
    LET w == Append(window, Popped("pre"))
        full == Len(w) > WindowLength
        cut == full /\ Preprocessed(w)
    IN
    /\ Pop("pre")
    /\ Move("pre", "pop", IF cut THEN "push" ELSE "pop")
    /\ window' = IF full THEN <<>> ELSE w
    /\ hand' = IF cut THEN [hand EXCEPT !["pre"] = <<w>>] ELSE hand
    /\ UNCHANGED <<windowId, reported>>
    /\ WorkerFrame

\* preprocess_loop: a sample joins the window; a full window is cut off, and
\* goes on if it can be preprocessed.
CollectSample ==
    LET w == Append(window, Popped("pre"))
        full == Len(w) >= WindowLength
        cut == full /\ Preprocessed(w)
    IN
    /\ Pop("pre")
    /\ Move("pre", "pop", IF cut THEN "push" ELSE "pop")
    /\ window' = IF full THEN <<>> ELSE w
    /\ hand' = IF cut THEN [hand EXCEPT !["pre"] = <<w>>] ELSE hand
    /\ UNCHANGED <<windowId, reported>>
    /\ WorkerFrame

\* Mutant: window_id_++ instead of ++window_id_.
InferMutant ==
    /\ Pop("inf")
    /\ Move("inf", "pop", "push")
    /\ windowId' = windowId + 1
    /\ hand' = [hand EXCEPT !["inf"] =
                    <<[id |-> windowId, samples |-> Popped("inf"),
                       inferred |-> engineReady]>>]
    /\ UNCHANGED <<window, reported>>
    /\ WorkerFrame

\* inference_loop: the window gets its number; without an engine the logits
\* of the result stay zero.
Infer ==
    /\ Pop("inf")
    /\ Move("inf", "pop", "push")
    /\ windowId' = windowId + 1
    /\ hand' = [hand EXCEPT !["inf"] =
                    <<[id |-> windowId', samples |-> Popped("inf"),
                       inferred |-> engineReady]>>]
    /\ UNCHANGED <<window, reported>>
    /\ WorkerFrame

\* Mutant: a full output queue drops the item instead of blocking.
HandOnMutant(s) ==
    LET out == Output[s] IN
    /\ Move(s, "push", "pop")
    /\ chan' = IF PushReady(chan[out], QueueCapacity)
               THEN [chan EXCEPT ![out] = Put(@, hand[s][1])] ELSE chan
    /\ hand' = [hand EXCEPT ![s] = <<>>]
    /\ UNCHANGED <<window, windowId, reported>>
    /\ WorkerFrame

\* Mutant: the pushed item stays in hand for a second push.
HandOnTwiceMutant(s) ==
    LET out == Output[s] IN
    /\ Move(s, "push", IF Len(hand[s]) = 1 THEN "push" ELSE "pop")
    /\ PushReady(chan[out], QueueCapacity)
    /\ chan' = [chan EXCEPT ![out] = Put(@, hand[s][1])]
    /\ hand' = [hand EXCEPT ![s] =
                    IF Len(@) = 1 THEN @ \o @ ELSE <<>>]
    /\ UNCHANGED <<window, windowId, reported>>
    /\ WorkerFrame

\* The push at the end of preprocess_loop and inference_loop.  Its result is
\* not looked at: an item refused by a closed queue is gone.
HandOn(s) ==
    LET out == Output[s] IN
    /\ Move(s, "push", "pop")
    /\ PushReady(chan[out], QueueCapacity)
    /\ chan' = [chan EXCEPT ![out] = Put(@, hand[s][1])]
    /\ hand' = [hand EXCEPT ![s] = <<>>]
    /\ UNCHANGED <<window, windowId, reported>>
    /\ WorkerFrame

TakeResult ==
    /\ Pop("post")
    /\ Move("post", "pop", "call")
    /\ hand' = [hand EXCEPT !["post"] = <<Popped("post")>>]
    /\ UNCHANGED <<window, windowId, reported>>
    /\ WorkerFrame

\* Mutant: post_loop returns after the first result.
ReportMutant ==
    /\ Move("post", "call", "done")
    /\ reported' = reported \o hand["post"]
    /\ hand' = [hand EXCEPT !["post"] = <<>>]
    /\ UNCHANGED <<chan, window, windowId>>
    /\ WorkerFrame

\* post_loop: the callback runs on the post thread.
Report ==
    /\ Move("post", "call", "pop")
    /\ reported' = reported \o hand["post"]
    /\ hand' = [hand EXCEPT !["post"] = <<>>]
    /\ UNCHANGED <<chan, window, windowId>>
    /\ WorkerFrame

PreStep  == TestRunning("pre") \/ LeaveLoop("pre") \/ CollectSample
                \/ HandOn("pre")
InfStep  == TestRunning("inf") \/ LeaveLoop("inf") \/ Infer \/ HandOn("inf")
PostStep == TestRunning("post") \/ LeaveLoop("post") \/ TakeResult \/ Report
-----------------------------------------------------------------------------
(* The owner: start, stop, destructor.  A call is the list of its steps.    *)

StartCalls ==
    << <<"start", "pre">>, <<"start", "inf">>, <<"start", "post">> >>

\* Mutant: stop forgets the last queue.
StopCallsMutant ==
    << <<"close", "raw">>, <<"close", "tensor">>,
       <<"stop", "pre">>, <<"stop", "inf">>, <<"stop", "post">> >>

StopCalls ==
    << <<"close", "raw">>, <<"close", "tensor">>, <<"close", "result">>,
       <<"stop", "pre">>, <<"stop", "inf">>, <<"stop", "post">> >>

\* ~Pipeline stops; the workers' own destructors then find nothing to stop.
Gone == << <<"destroyed", "all">> >>

Doing(call) == todo # <<>> /\ Head(todo) = call
OwnerFrame == UNCHANGED <<engineReady, window, windowId, hand, reported,
                          feederVars>>

OwnerCall(calls) ==
    /\ todo = <<>>
    /\ todo' = calls
    /\ UNCHANGED <<chan, running, place>> /\ OwnerFrame

Start   == OwnerCall(StartCalls)
Stop    == OwnerCall(StopCalls)

\* Who destroys the pipeline sees to it that nobody is inside submit.
Destroy == feeder = <<>> /\ OwnerCall(StopCalls \o Gone)
Leaving == todo # <<>> /\ Last(todo) = Gone[1]

CloseQueue(q) ==
    /\ Doing(<<"close", q>>)
    /\ chan' = [chan EXCEPT ![q] = Shut(@)]
    /\ todo' = Tail(todo)
    /\ UNCHANGED <<running, place>> /\ OwnerFrame

\* Worker::start does nothing for a worker that runs, and otherwise assigns a
\* new thread to thread_.
StartWorker(s) ==
    /\ Doing(<<"start", s>>)
    /\ running' = [running EXCEPT ![s] = TRUE]
    /\ place' = IF running[s] THEN place ELSE [place EXCEPT ![s] = "check"]
    /\ todo' = Tail(todo)
    /\ UNCHANGED chan /\ OwnerFrame

\* Mutant: Worker::stop does not join.
StopWorkerMutant(s) ==
    /\ Doing(<<"stop", s>>)
    /\ running' = [running EXCEPT ![s] = FALSE]
    /\ todo' = Tail(todo)
    /\ UNCHANGED <<chan, place>> /\ OwnerFrame

\* Worker::stop clears running_ and, if it was set, goes on to join.
StopWorker(s) ==
    /\ Doing(<<"stop", s>>)
    /\ running' = [running EXCEPT ![s] = FALSE]
    /\ todo' = (IF running[s] THEN << <<"join", s>> >> ELSE <<>>) \o Tail(todo)
    /\ UNCHANGED <<chan, place>> /\ OwnerFrame

JoinWorker(s) ==
    /\ Doing(<<"join", s>>)
    /\ Move(s, "done", "none")
    /\ todo' = Tail(todo)
    /\ UNCHANGED <<chan, running>> /\ OwnerFrame

OwnerStep ==
    \/ \E q \in Queues : CloseQueue(q)
    \/ \E s \in Stages : StartWorker(s) \/ StopWorker(s) \/ JoinWorker(s)
-----------------------------------------------------------------------------
(* The feeder: submit, one sample after the other.                          *)

Submit ==
    /\ feeder = <<>> /\ ~Leaving
    /\ submitted < MaxSamples
    /\ submitted' = submitted + 1
    /\ feeder' = <<submitted'>>
    /\ UNCHANGED <<chan, engineReady, running, todo, workerVars, accepted>>

\* raw_queue_.push, and submit returns.
SubmitReturn ==
    /\ feeder # <<>>
    /\ PushReady(chan["raw"], QueueCapacity)
    /\ chan' = [chan EXCEPT !["raw"] = Put(@, feeder[1])]
    /\ accepted' = IF chan["raw"].shut THEN accepted ELSE accepted + 1
    /\ feeder' = <<>>
    /\ UNCHANGED <<engineReady, running, todo, workerVars, submitted>>
-----------------------------------------------------------------------------
\* The pipeline is destroyed and nobody uses it.
Finished == todo = Gone /\ UNCHANGED vars

Next ==
    \/ PreStep
    \/ InfStep
    \/ PostStep
    \/ Start
    \/ Stop
    \/ Destroy
    \/ OwnerStep
    \/ Submit
    \/ SubmitReturn
    \/ Finished

Spec == Init /\ [][Next]_vars

(***************************************************************************)
(* Every thread that can run does.  Whether start, stop or submit are ever *)
(* called is up to the client.                                             *)
(***************************************************************************)
Fairness ==
    /\ WF_vars(PreStep) /\ WF_vars(InfStep) /\ WF_vars(PostStep)
    /\ WF_vars(OwnerStep)
    /\ WF_vars(SubmitReturn)

FairSpec == Spec /\ Fairness
-----------------------------------------------------------------------------
Samples == 1..MaxSamples
Windows == [1..WindowLength -> Samples]
Results == [id : Nat, samples : Windows, inferred : BOOLEAN]
AtMostOne(h, S) == h \in Seq(S) /\ Len(h) <= 1

(* Type invariant, with the bounds the code relies on: no queue above its   *)
(* capacity, the window buffer cut when it is full (line 47), at most one *)
(* item in a worker's hands.                                                *)
TypeOK ==
    /\ DOMAIN chan = Queues
    /\ chan["raw"] \in ChannelOf(Samples)
    /\ chan["tensor"] \in ChannelOf(Windows)
    /\ chan["result"] \in ChannelOf(Results)
    /\ \A q \in Queues : Len(chan[q].buf) <= QueueCapacity
    /\ window \in Seq(Samples) /\ Len(window) < WindowLength
    /\ windowId \in Nat
    /\ engineReady \in BOOLEAN
    /\ running \in [Stages -> BOOLEAN]
    /\ place \in [Stages -> Places]
    /\ DOMAIN hand = Stages
    /\ AtMostOne(hand["pre"], Windows)
    /\ AtMostOne(hand["inf"], Results)
    /\ AtMostOne(hand["post"], Results)
    /\ AtMostOne(feeder, Samples)
    /\ submitted \in 0..MaxSamples /\ accepted \in 0..submitted
    /\ reported \in Seq(Results)

\* The samples of a sequence of windows, one window after the other.
Joined(ws) ==
    [i \in 1..(Len(ws) * WindowLength) |->
        ws[((i - 1) \div WindowLength) + 1][((i - 1) % WindowLength) + 1]]

\* Every sample the pipeline holds, the oldest first.
Ordinals == [i \in Samples |-> i]
SamplesOf(results) == Joined([i \in DOMAIN results |-> results[i].samples])
Stream ==
    SamplesOf(reported \o hand["post"] \o chan["result"].buf)
        \o SamplesOf(hand["inf"])
        \o Joined(chan["tensor"].buf) \o Joined(hand["pre"])
        \o window \o chan["raw"].buf

(* Nothing is lost on the way: until stop closes the tensor queue, each     *)
(* sample submit accepted is in exactly one place, in order, however full   *)
(* the queues get and whichever worker is ahead.                            *)
NothingLost == ~chan["tensor"].shut => Stream = SubSeq(Ordinals, 1, accepted)

(* Stop drops windows, but never repeats or reorders what it lets through,  *)
(* and a restart does not either.                                           *)
NothingReordered ==
    \A i, j \in DOMAIN Stream : i < j => Stream[i] < Stream[j]

(* What the callback sees is a prefix of the windows, without a gap, even   *)
(* when stop closes the queues one after the other while the workers drain  *)
(* them: the k-th result is the k-th window and carries the number k.       *)
ReportedInOrder ==
    \A k \in DOMAIN reported :
        /\ reported[k].id = k
        /\ reported[k].samples =
                SubSeq(Ordinals, (k - 1) * WindowLength + 1, k * WindowLength)

(* A thread exists only while its worker is marked running or stop is       *)
(* joining it.  Worker::start would otherwise assign over a joinable thread *)
(* (std::terminate), and a callback could run on a destroyed pipeline.      *)
NoOrphanThread ==
    \A s \in Stages :
        place[s] # "none" => running[s] \/ Doing(<<"join", s>>)

(* The callback runs only between start and the return of stop; while stop  *)
(* is under way it may still run (lines 74-81 against 26-33).               *)
CallbackBeforeStopReturns ==
    [][reported' # reported =>
            running["post"] \/ Doing(<<"join", "post">>)]_vars

(* start, stop and the destructor return, from any state of the workers:    *)
(* each worker is in a pop or a push that close ends, or drains its queue.  *)
OwnerReturns == todo # <<>> ~> todo \in {<<>>, Gone}

\* The workers are up and nobody has called stop.
Serving == (\A s \in Stages : running[s]) /\ ~chan["raw"].shut

(* Backpressure does not lock up: submit returns while the workers run.     *)
SubmitUnblocks == (feeder # <<>> /\ Serving) ~> feeder = <<>>

(* Each full window of accepted samples reaches the callback, unless stop   *)
(* is called first.                                                         *)
WindowsReported ==
    \A k \in 1..(MaxSamples \div WindowLength) :
        (accepted >= k * WindowLength /\ Serving)
            ~> (Len(reported) >= k \/ chan["raw"].shut)
=============================================================================
