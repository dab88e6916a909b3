--------------------------- MODULE PipelineProofs ---------------------------
(***************************************************************************)
(* The pipeline, for every capacity, window length and number of samples,  *)
(* and every order of start, stop, restart and submit: no thread is ever   *)
(* left without an owner, the k-th result reported is the k-th window, no  *)
(* sample is lost before stop closes the tensor queue, and none is ever    *)
(* repeated or overtaken, whatever stop drops.                             *)
(***************************************************************************)
EXTENDS Pipeline, TLAPS

USE QueueCapacityAssumption, WindowLengthAssumption, MaxSamplesAssumption
-----------------------------------------------------------------------------
(* Threads.                                                                 *)

Calls == ({"close"} \X Queues) \cup ({"start", "stop", "join"} \X Stages)
            \cup {Gone[1]}

ThreadInv ==
    /\ todo \in Seq(Calls)
    /\ running \in [Stages -> BOOLEAN]
    /\ place \in [Stages -> Places]
    /\ NoOrphanThread

LEMMA ListsOfCalls ==
    /\ StartCalls \in Seq(Calls)
    /\ StopCalls \in Seq(Calls)
    /\ StopCalls \o Gone \in Seq(Calls)
BY DEF StartCalls, StopCalls, Gone, Calls, Queues, Stages

LEMMA InitThreads == Init => ThreadInv
BY DEF Init, ThreadInv, NoOrphanThread, Calls, Places, Stages

\* A worker's step moves a thread that exists, and leaves the rest alone.
Moves(s) ==
    /\ place[s] # "none"
    /\ \E to \in Places \ {"none"} : place' = [place EXCEPT ![s] = to]
    /\ UNCHANGED <<running, todo>>

LEMMA WorkerMoves ==
    /\ PreStep => Moves("pre")
    /\ InfStep => Moves("inf")
    /\ PostStep => Moves("post")
<1> USE DEF Moves, Move, WorkerFrame, Places
<1>1. ASSUME NEW s \in Stages, TestRunning(s) \/ LeaveLoop(s) PROVE Moves(s)
  BY <1>1 DEF TestRunning, LeaveLoop
<1>2. ASSUME NEW s \in Stages, HandOn(s) PROVE Moves(s)
  BY <1>2 DEF HandOn
<1>3. CollectSample => Moves("pre")
  BY DEF CollectSample
<1>4. Infer => Moves("inf")
  BY DEF Infer
<1>5. TakeResult \/ Report => Moves("post")
  BY DEF TakeResult, Report
<1> QED
  BY <1>1, <1>2, <1>3, <1>4, <1>5 DEF PreStep, InfStep, PostStep, Stages

LEMMA MovesThreads ==
    ASSUME ThreadInv, NEW s \in Stages, Moves(s)
    PROVE  ThreadInv'
BY DEF ThreadInv, Moves, NoOrphanThread, Doing

LEMMA OwnerCallThreads ==
    ASSUME ThreadInv, Start \/ Stop \/ Destroy
    PROVE  ThreadInv'
BY ListsOfCalls DEF ThreadInv, Start, Stop, Destroy, OwnerCall, NoOrphanThread, Doing

\* Whatever the owner is doing other than joining, all threads are running.
LEMMA OwnerStepThreads ==
    ASSUME ThreadInv, OwnerStep
    PROVE  ThreadInv'
<1> USE DEF ThreadInv, NoOrphanThread, Doing
<1>1. ASSUME NEW q \in Queues, CloseQueue(q) PROVE ThreadInv'
  BY <1>1 DEF CloseQueue
<1>2. ASSUME NEW s \in Stages, StartWorker(s) PROVE ThreadInv'
  BY <1>2 DEF StartWorker, Places
<1>3. ASSUME NEW s \in Stages, StopWorker(s) PROVE ThreadInv'
  <2>1. <<"join", s>> \in Calls
    BY DEF Calls
  <2>2. /\ todo # <<>> /\ Head(todo) = <<"stop", s>>
        /\ Tail(todo) \in Seq(Calls)
    BY <1>3 DEF StopWorker
  <2>3. CASE running[s]
    <3>1. todo' = << <<"join", s>> >> \o Tail(todo)
      BY <1>3, <2>3 DEF StopWorker
    <3>2. todo' \in Seq(Calls) /\ todo' # <<>> /\ Head(todo') = <<"join", s>>
      BY <2>1, <2>2, <3>1
    <3> QED
      BY <1>3, <2>2, <3>2 DEF StopWorker
  <2>4. CASE ~running[s]
    <3>1. todo' = Tail(todo)
      BY <1>3, <2>2, <2>4 DEF StopWorker
    <3> QED
      BY <1>3, <2>2, <2>4, <3>1 DEF StopWorker
  <2> QED
    BY <2>3, <2>4
<1>4. ASSUME NEW s \in Stages, JoinWorker(s) PROVE ThreadInv'
  BY <1>4 DEF JoinWorker, Move, Places
<1> QED
  BY <1>1, <1>2, <1>3, <1>4 DEF OwnerStep

LEMMA NextThreads ==
    ASSUME ThreadInv, [Next]_vars
    PROVE  ThreadInv'
<1>1. CASE PreStep \/ InfStep \/ PostStep
  BY <1>1, WorkerMoves, MovesThreads DEF Stages
<1>2. CASE Start \/ Stop \/ Destroy
  BY <1>2, OwnerCallThreads
<1>3. CASE OwnerStep
  BY <1>3, OwnerStepThreads
<1>4. CASE Submit \/ SubmitReturn \/ Finished \/ UNCHANGED vars
  <2>1. UNCHANGED <<todo, running, place>>
    BY <1>4 DEF Submit, SubmitReturn, Finished, vars, workerVars
  <2> QED
    BY <2>1 DEF ThreadInv, NoOrphanThread, Doing
<1> QED
  BY <1>1, <1>2, <1>3, <1>4 DEF Next

LEMMA ThreadsAlways == Spec => []ThreadInv
<1> QED
  BY InitThreads, NextThreads, PTL DEF Spec

(* Worker::start never assigns over a joinable thread, and whoever has seen *)
(* stop return knows that no thread is left (worker.cpp:9, :19).            *)
THEOREM ThreadsOwned == Spec => []NoOrphanThread
<1>1. ThreadInv => NoOrphanThread
  BY DEF ThreadInv
<1> QED
  BY <1>1, ThreadsAlways, PTL

\* Only Report lengthens reported.
LEMMA OnlyReport ==
    ASSUME [Next]_vars, reported' # reported
    PROVE  Report
<1>1. CASE PreStep
  BY <1>1 DEF PreStep, TestRunning, LeaveLoop, CollectSample, HandOn
<1>2. CASE InfStep
  BY <1>2 DEF InfStep, TestRunning, LeaveLoop, Infer, HandOn
<1>3. CASE PostStep
  BY <1>3 DEF PostStep, TestRunning, LeaveLoop, TakeResult
<1>4. CASE Start \/ Stop \/ Destroy
  BY <1>4 DEF Start, Stop, Destroy, OwnerCall, OwnerFrame
<1>5. CASE OwnerStep
  BY <1>5 DEF OwnerStep, CloseQueue, StartWorker, StopWorker, JoinWorker,
              OwnerFrame
<1>6. CASE Submit \/ SubmitReturn \/ Finished \/ UNCHANGED vars
  BY <1>6 DEF Submit, SubmitReturn, Finished, vars, workerVars
<1> QED
  BY <1>1, <1>2, <1>3, <1>4, <1>5, <1>6 DEF Next

(* The callback runs only while the post worker is marked running or stop   *)
(* is waiting for it (pipeline.cpp:79).                                     *)
THEOREM CallbacksInTime == Spec => CallbackBeforeStopReturns
<1>1. ASSUME ThreadInv, [Next]_vars, reported' # reported
      PROVE  running["post"] \/ Doing(<<"join", "post">>)
  BY <1>1, OnlyReport DEF ThreadInv, NoOrphanThread, Report, Move, Stages
<1> QED
  BY <1>1, ThreadsAlways, PTL DEF Spec, CallbackBeforeStopReturns
-----------------------------------------------------------------------------
(* Types.  A worker has an item in hand exactly at its push or its call.    *)

Holding(s) == place[s] \in {"push", "call"}

HandsOK ==
    /\ \A s \in Stages : Len(hand[s]) = IF Holding(s) THEN 1 ELSE 0
    /\ place["post"] # "push" /\ place["pre"] # "call" /\ place["inf"] # "call"
    /\ \A i \in 1..Len(feeder) : feeder[i] = submitted
    /\ accepted + Len(feeder) <= submitted

TypeInv == TypeOK /\ HandsOK /\ ThreadInv

LEMMA InitTypes == Init => TypeOK /\ HandsOK
<1> SUFFICES ASSUME Init PROVE TypeOK /\ HandsOK
  OBVIOUS
<1>1. \A q \in Queues : chan[q].buf = <<>> /\ chan[q].shut = FALSE
  BY DEF Init, NewChannel
<1>4. /\ DOMAIN chan = Queues
      /\ chan["raw"] \in ChannelOf(Samples)
      /\ chan["tensor"] \in ChannelOf(Windows)
      /\ chan["result"] \in ChannelOf(Results)
  BY DEF Init, NewChannel, ChannelOf, Queues
<1>2. HandsOK
  BY DEF Init, HandsOK, Holding, Stages
<1>3. /\ running \in [Stages -> BOOLEAN] /\ place \in [Stages -> Places]
      /\ DOMAIN hand = Stages
      /\ \A s \in Stages : \A S : AtMostOne(hand[s], S)
  BY DEF Init, Places, AtMostOne
<1>5. /\ window \in Seq(Samples) /\ Len(window) < WindowLength
      /\ AtMostOne(feeder, Samples) /\ reported \in Seq(Results)
  BY DEF Init, AtMostOne
<1>6. /\ windowId \in Nat
      /\ submitted \in 0..MaxSamples /\ accepted \in 0..submitted
  BY DEF Init
<1>8. engineReady \in BOOLEAN
  BY Zenon DEF Init
<1>7. \A q \in Queues : Len(chan[q].buf) <= QueueCapacity
  BY <1>1
<1> QED
  BY <1>2, <1>3, <1>4, <1>5, <1>6, <1>7, <1>8 DEF TypeOK, Stages

\* What a pop takes and leaves.
LEMMA TakeTyped ==
    ASSUME NEW Items, NEW c \in ChannelOf(Items), c.buf # <<>>
    PROVE  /\ Take(c) \in ChannelOf(Items)
           /\ Head(c.buf) \in Items
           /\ Len(Take(c).buf) = Len(c.buf) - 1
           /\ \A k \in 1..Len(Take(c).buf) : Take(c).buf[k] = c.buf[k + 1]
           /\ Head(c.buf) = c.buf[1] /\ Len(c.buf) \in Nat /\ Len(c.buf) > 0
           /\ Take(c).shut = c.shut
BY DEF ChannelOf, Take

\* What a push adds, unless the channel is closed.
LEMMA PutTyped ==
    ASSUME NEW Items, NEW c \in ChannelOf(Items), NEW v \in Items,
           PushReady(c, QueueCapacity), Len(c.buf) <= QueueCapacity
    PROVE  /\ Put(c, v) \in ChannelOf(Items)
           /\ Len(Put(c, v).buf) <= QueueCapacity
           /\ Put(c, v).shut = c.shut
           /\ c.shut => Put(c, v) = c
           /\ ~c.shut => /\ Len(Put(c, v).buf) = Len(c.buf) + 1
                         /\ Put(c, v).buf[Len(c.buf) + 1] = v
                         /\ \A k \in 1..Len(c.buf) : Put(c, v).buf[k] = c.buf[k]
<1>1. c.buf \in Seq(Items) /\ c.shut \in BOOLEAN
  BY DEF ChannelOf
<1>2. CASE c.shut
  BY <1>2 DEF Put
<1>3. CASE ~c.shut
  <2>1. Put(c, v) = [buf |-> Append(c.buf, v), shut |-> FALSE]
    BY <1>3 DEF Put
  <2>2. /\ Append(c.buf, v) \in Seq(Items)
        /\ Len(Append(c.buf, v)) = Len(c.buf) + 1
        /\ Append(c.buf, v)[Len(c.buf) + 1] = v
        /\ \A k \in 1..Len(c.buf) : Append(c.buf, v)[k] = c.buf[k]
    BY <1>1
  <2>3. Len(c.buf) < QueueCapacity
    BY <1>3 DEF PushReady
  <2>4. Put(c, v).buf = Append(c.buf, v) /\ ~Put(c, v).shut
    BY <2>1
  <2>5. Put(c, v) \in ChannelOf(Items)
    BY <2>1, <2>2 DEF ChannelOf
  <2>6. Len(Put(c, v).buf) <= QueueCapacity
    BY <1>1, <2>2, <2>3, <2>4
  <2>7. Put(c, v).shut = FALSE /\ c.shut = FALSE
    BY <1>1, <1>3, <2>1
  <2> QED
    BY <1>3, <2>2, <2>4, <2>5, <2>6, <2>7
<1> QED
  BY <1>1, <1>2, <1>3

LEMMA ShutTyped ==
    ASSUME NEW Items, NEW c \in ChannelOf(Items)
    PROVE  /\ Shut(c) \in ChannelOf(Items)
           /\ Shut(c).buf = c.buf /\ Shut(c).shut
BY DEF ChannelOf, Shut


LEMMA SequenceIsFunction ==
    ASSUME NEW Items, NEW sq \in Seq(Items)
    PROVE  sq \in [1..Len(sq) -> Items]
OBVIOUS

LEMMA FirstItem ==
    ASSUME NEW Items, NEW sq, AtMostOne(sq, Items), sq # <<>>
    PROVE  Len(sq) = 1 /\ sq[1] \in Items
BY DEF AtMostOne

LEMMA AtMostOneItem ==
    ASSUME NEW Items, NEW sq, AtMostOne(sq, Items)
    PROVE  Len(sq) \in Nat /\ Len(sq) <= 1
BY DEF AtMostOne

\* A thread that moves without touching an item.
LEMMA IdleTypes ==
    ASSUME TypeInv, ThreadInv', NEW s \in Stages, TestRunning(s) \/ LeaveLoop(s)
    PROVE  TypeInv'
<1>1. /\ UNCHANGED <<chan, window, windowId, engineReady, hand, feeder,
                     submitted, accepted, reported>>
      /\ place[s] \in {"check", "pop"}
      /\ \E to \in {"check", "pop", "done"} : place' = [place EXCEPT ![s] = to]
  BY DEF TestRunning, LeaveLoop, WorkerFrame, feederVars, Move
<1>2. TypeOK'
  BY <1>1 DEF TypeInv, ThreadInv, TypeOK
<1>3. \A t \in Stages : Holding(t)' = Holding(t)
  BY <1>1 DEF TypeInv, ThreadInv, Holding
<1>4. place'["post"] # "push" /\ place'["pre"] # "call" /\ place'["inf"] # "call"
  BY <1>1 DEF TypeInv, ThreadInv, HandsOK, Stages
<1>5. HandsOK'
  BY <1>1, <1>3, <1>4 DEF TypeInv, HandsOK
<1> QED
  BY <1>2, <1>5 DEF TypeInv

LEMMA CollectEffect ==
    ASSUME TypeInv, CollectSample
    PROVE  /\ place["pre"] = "pop" /\ hand["pre"] = <<>>
           /\ chan["raw"].buf # <<>> /\ chan' = [chan EXCEPT !["raw"] = Take(@)]
           /\ UNCHANGED <<windowId, engineReady, feeder, submitted, accepted, reported>>
BY DEF CollectSample, Move, Pop, Input, WorkerFrame, feederVars, TypeInv,
   TypeOK, HandsOK, Holding, AtMostOne, Stages

\* A full window is never empty, so it can always be preprocessed.
LEMMA CollectCases ==
    ASSUME TypeInv, CollectSample
    PROVE  LET w == Append(window, Head(chan["raw"].buf)) IN
           /\ Len(w) >= WindowLength =>
                 /\ place' = [place EXCEPT !["pre"] = "push"]
                 /\ hand' = [hand EXCEPT !["pre"] = <<w>>] /\ window' = <<>>
           /\ ~(Len(w) >= WindowLength) =>
                 /\ place' = [place EXCEPT !["pre"] = "pop"]
                 /\ hand' = hand /\ window' = w
<1> DEFINE w == Append(window, Head(chan["raw"].buf))
<1>1. w = Append(window, Popped("pre"))
  BY DEF Popped, Input
<1>2. w # <<>>
  <2>1. window \in Seq(Samples)
    BY DEF TypeInv, TypeOK
  <2>2. chan["raw"].buf # <<>> /\ chan["raw"] \in ChannelOf(Samples)
    BY CollectEffect DEF TypeInv, TypeOK
  <2>3. Head(chan["raw"].buf) \in Samples
    BY <2>2, TakeTyped
  <2>4. Len(w) = Len(window) + 1 /\ Len(window) \in Nat
    BY <2>1, <2>3
  <2> HIDE DEF w
  <2>5. Len(w) # 0
    BY <2>4
  <2> QED
    BY <2>5
<1> HIDE DEF w
<1>3. Preprocessed(w)
  BY <1>2 DEF Preprocessed
<1>4. /\ Len(w) >= WindowLength =>
            /\ place' = [place EXCEPT !["pre"] = "push"]
            /\ hand' = [hand EXCEPT !["pre"] = <<w>>] /\ window' = <<>>
      /\ ~(Len(w) >= WindowLength) =>
            /\ place' = [place EXCEPT !["pre"] = "pop"]
            /\ hand' = hand /\ window' = w
  BY <1>1, <1>3 DEF CollectSample, Move
<1> QED
  BY <1>4 DEF w

LEMMA CollectTypes ==
    ASSUME TypeInv, ThreadInv', CollectSample
    PROVE  TypeInv'
<1> DEFINE w == Append(window, Head(chan["raw"].buf))
<1>1. /\ place["pre"] = "pop" /\ hand["pre"] = <<>>
      /\ chan["raw"].buf # <<>> /\ chan' = [chan EXCEPT !["raw"] = Take(@)]
      /\ UNCHANGED <<windowId, engineReady, feeder, submitted, accepted, reported>>
  BY CollectEffect
<1>2. /\ chan'["raw"] \in ChannelOf(Samples) /\ Head(chan["raw"].buf) \in Samples
      /\ Len(chan'["raw"].buf) <= QueueCapacity
  <2>1. /\ chan["raw"] \in ChannelOf(Samples) /\ chan'["raw"] = Take(chan["raw"])
        /\ Len(chan["raw"].buf) <= QueueCapacity
    BY <1>1 DEF TypeInv, TypeOK, Queues
  <2> QED
    BY <1>1, <2>1, TakeTyped
<1>3. DOMAIN chan' = Queues /\ \A q \in Queues \ {"raw"} : chan'[q] = chan[q]
  BY <1>1 DEF TypeInv, TypeOK
<1>4. w \in Seq(Samples) /\ Len(w) = Len(window) + 1
  BY <1>2 DEF TypeInv, TypeOK
<1>5. CASE Len(w) >= WindowLength
  <2>1. /\ place' = [place EXCEPT !["pre"] = "push"]
        /\ hand' = [hand EXCEPT !["pre"] = <<w>>] /\ window' = <<>>
    BY <1>5, CollectCases
  <2>2. w \in Windows
    <3>1. Len(w) = WindowLength
      BY <1>4, <1>5 DEF TypeInv, TypeOK
    <3> QED
      BY <1>4, <3>1, SequenceIsFunction DEF Windows
  <2>3. TypeOK'
    BY <1>1, <1>2, <1>3, <2>1, <2>2
       DEF TypeInv, ThreadInv, TypeOK, AtMostOne, Queues, Stages
  <2>4. HandsOK'
    BY <1>1, <2>1 DEF TypeInv, ThreadInv, TypeOK, HandsOK, Holding, Stages
  <2> QED
    BY <2>3, <2>4 DEF TypeInv
<1>6. CASE ~(Len(w) >= WindowLength)
  <2>1. /\ place' = [place EXCEPT !["pre"] = "pop"]
        /\ hand' = hand /\ window' = w
    BY <1>6, CollectCases
  <2>2. place' = place
    BY <1>1, <2>1 DEF TypeInv, TypeOK
  <2>3. TypeOK'
    BY <1>1, <1>2, <1>3, <1>4, <1>6, <2>1, <2>2
       DEF TypeInv, ThreadInv, TypeOK, Queues
  <2>4. HandsOK'
    BY <1>1, <2>1, <2>2 DEF TypeInv, HandsOK, Holding
  <2> QED
    BY <2>3, <2>4 DEF TypeInv
<1> QED
  BY <1>5, <1>6

LEMMA InferEffect ==
    ASSUME TypeInv, Infer
    PROVE  /\ place["inf"] = "pop" /\ hand["inf"] = <<>>
           /\ chan["tensor"].buf # <<>>
           /\ chan' = [chan EXCEPT !["tensor"] = Take(@)]
           /\ place' = [place EXCEPT !["inf"] = "push"]
           /\ windowId' = windowId + 1
           /\ hand' = [hand EXCEPT !["inf"] = <<[id |-> windowId + 1,
                            samples |-> Head(chan["tensor"].buf),
                            inferred |-> engineReady]>>]
           /\ UNCHANGED <<window, engineReady, feeder, submitted, accepted, reported>>
BY DEF Infer, Move, Pop, Popped, Input, WorkerFrame, feederVars, TypeInv,
   TypeOK, HandsOK, Holding, AtMostOne, Stages

LEMMA InferTypes ==
    ASSUME TypeInv, ThreadInv', Infer
    PROVE  TypeInv'
<1> DEFINE r == [id |-> windowId + 1, samples |-> Head(chan["tensor"].buf),
                 inferred |-> engineReady]
<1>1. /\ place["inf"] = "pop" /\ hand["inf"] = <<>>
      /\ chan["tensor"].buf # <<>>
      /\ chan' = [chan EXCEPT !["tensor"] = Take(@)]
      /\ place' = [place EXCEPT !["inf"] = "push"]
      /\ windowId' = windowId + 1
      /\ hand' = [hand EXCEPT !["inf"] = <<r>>]
      /\ UNCHANGED <<window, engineReady, feeder, submitted, accepted, reported>>
  BY InferEffect
<1>2. /\ chan'["tensor"] \in ChannelOf(Windows) /\ Head(chan["tensor"].buf) \in Windows
      /\ Len(chan'["tensor"].buf) <= QueueCapacity
  <2>1. /\ chan["tensor"] \in ChannelOf(Windows) /\ chan'["tensor"] = Take(chan["tensor"])
        /\ Len(chan["tensor"].buf) <= QueueCapacity
    BY <1>1 DEF TypeInv, TypeOK, Queues
  <2> QED
    BY <1>1, <2>1, TakeTyped
<1>3. DOMAIN chan' = Queues /\ \A q \in Queues \ {"tensor"} : chan'[q] = chan[q]
  BY <1>1 DEF TypeInv, TypeOK
<1>4. r \in Results
  BY <1>2 DEF TypeInv, TypeOK, Results
<1>5. TypeOK'
  BY <1>1, <1>2, <1>3, <1>4
     DEF TypeInv, ThreadInv, TypeOK, AtMostOne, Queues, Stages
<1>6. HandsOK'
  BY <1>1 DEF TypeInv, ThreadInv, TypeOK, HandsOK, Holding, Stages
<1> QED
  BY <1>5, <1>6 DEF TypeInv

LEMMA TakeResultEffect ==
    ASSUME TypeInv, TakeResult
    PROVE  /\ place["post"] = "pop" /\ hand["post"] = <<>>
           /\ chan["result"].buf # <<>>
           /\ chan' = [chan EXCEPT !["result"] = Take(@)]
           /\ place' = [place EXCEPT !["post"] = "call"]
           /\ hand' = [hand EXCEPT !["post"] = <<Head(chan["result"].buf)>>]
           /\ UNCHANGED <<window, windowId, engineReady, feeder, submitted, accepted, reported>>
BY DEF TakeResult, Move, Pop, Popped, Input, WorkerFrame, feederVars, TypeInv,
   TypeOK, HandsOK, Holding, AtMostOne, Stages

LEMMA TakeResultTypes ==
    ASSUME TypeInv, ThreadInv', TakeResult
    PROVE  TypeInv'
<1> DEFINE r == Head(chan["result"].buf)
<1>1. /\ place["post"] = "pop" /\ hand["post"] = <<>>
      /\ chan["result"].buf # <<>>
      /\ chan' = [chan EXCEPT !["result"] = Take(@)]
      /\ place' = [place EXCEPT !["post"] = "call"]
      /\ hand' = [hand EXCEPT !["post"] = <<r>>]
      /\ UNCHANGED <<window, windowId, engineReady, feeder, submitted, accepted, reported>>
  BY TakeResultEffect
<1>2. chan'["result"] \in ChannelOf(Results) /\ r \in Results
      /\ Len(chan'["result"].buf) <= QueueCapacity
  <2>1. /\ chan["result"] \in ChannelOf(Results) /\ chan'["result"] = Take(chan["result"])
        /\ Len(chan["result"].buf) <= QueueCapacity
    BY <1>1 DEF TypeInv, TypeOK, Queues
  <2> QED
    BY <1>1, <2>1, TakeTyped
<1>3. DOMAIN chan' = Queues /\ \A q \in Queues \ {"result"} : chan'[q] = chan[q]
  BY <1>1 DEF TypeInv, TypeOK
<1>4. TypeOK'
  BY <1>1, <1>2, <1>3
     DEF TypeInv, ThreadInv, TypeOK, AtMostOne, Queues, Stages
<1>5. HandsOK'
  BY <1>1 DEF TypeInv, ThreadInv, TypeOK, HandsOK, Holding, Stages
<1> QED
  BY <1>4, <1>5 DEF TypeInv

LEMMA ReportTypes ==
    ASSUME TypeInv, ThreadInv', Report
    PROVE  TypeInv'
<1>1. /\ place["post"] = "call"
      /\ place' = [place EXCEPT !["post"] = "pop"]
      /\ hand' = [hand EXCEPT !["post"] = <<>>]
      /\ reported' = reported \o hand["post"]
      /\ UNCHANGED <<chan, window, windowId, engineReady, feeder, submitted, accepted>>
  BY DEF Report, Move, WorkerFrame, feederVars
<1>2. reported' \in Seq(Results)
  BY <1>1 DEF TypeInv, TypeOK, AtMostOne
<1>3. TypeOK'
  BY <1>1, <1>2 DEF TypeInv, ThreadInv, TypeOK, AtMostOne, Queues, Stages
<1>4. HandsOK'
  BY <1>1 DEF TypeInv, ThreadInv, TypeOK, HandsOK, Holding, Stages
<1> QED
  BY <1>3, <1>4 DEF TypeInv

LEMMA HandOnTypes ==
    ASSUME TypeInv, ThreadInv', HandOn("pre") \/ HandOn("inf")
    PROVE  TypeInv'
<1>1. ASSUME NEW s \in {"pre", "inf"}, NEW Items,
             HandOn(s), hand[s] \in Seq(Items), chan[Output[s]] \in ChannelOf(Items)
      PROVE  /\ chan'[Output[s]] \in ChannelOf(Items)
             /\ Len(chan'[Output[s]].buf) <= QueueCapacity
             /\ DOMAIN chan' = Queues
             /\ \A q \in Queues \ {Output[s]} : chan'[q] = chan[q]
  <2>1. /\ Output[s] \in Queues /\ place[s] = "push" /\ s \in Stages
        /\ chan' = [chan EXCEPT ![Output[s]] = Put(@, hand[s][1])]
        /\ PushReady(chan[Output[s]], QueueCapacity)
    BY <1>1 DEF HandOn, Move, Output, Queues, Stages
  <2>2. hand[s][1] \in Items
    BY <1>1, <2>1 DEF TypeInv, HandsOK, Holding
  <2>3. DOMAIN chan = Queues /\ Len(chan[Output[s]].buf) <= QueueCapacity
    BY <2>1 DEF TypeInv, TypeOK
  <2> QED
    BY <1>1, <2>1, <2>2, <2>3, PutTyped
<1>2. ASSUME NEW s \in {"pre", "inf"}, HandOn(s)
      PROVE  /\ s \in Stages /\ place[s] = "push"
             /\ place' = [place EXCEPT ![s] = "pop"]
             /\ hand' = [hand EXCEPT ![s] = <<>>]
             /\ UNCHANGED <<window, windowId, engineReady, feeder, submitted,
                            accepted, reported>>
  BY <1>2 DEF HandOn, Move, WorkerFrame, feederVars, Stages
<1>3. ASSUME NEW s \in {"pre", "inf"}, HandOn(s) PROVE HandsOK'
  <2>1. /\ place' = [place EXCEPT ![s] = "pop"] /\ hand' = [hand EXCEPT ![s] = <<>>]
        /\ UNCHANGED <<feeder, submitted, accepted>> /\ s \in Stages
    BY <1>2, <1>3
  <2>2. /\ place'[s] = "pop" /\ hand'[s] = <<>>
        /\ \A t \in Stages \ {s} : place'[t] = place[t] /\ hand'[t] = hand[t]
    BY <2>1 DEF TypeInv, ThreadInv, TypeOK
  <2> QED
    BY <2>1, <2>2 DEF TypeInv, HandsOK, Holding, Stages
<1>4. CASE HandOn("pre")
  <2>1. /\ chan'["tensor"] \in ChannelOf(Windows)
        /\ Len(chan'["tensor"].buf) <= QueueCapacity
        /\ DOMAIN chan' = Queues
        /\ \A q \in Queues \ {"tensor"} : chan'[q] = chan[q]
    BY <1>1, <1>4 DEF TypeInv, TypeOK, AtMostOne, Output
  <2>2. /\ hand' = [hand EXCEPT !["pre"] = <<>>]
        /\ UNCHANGED <<window, windowId, engineReady, feeder, submitted,
                       accepted, reported>>
    BY <1>2, <1>4
  <2>3. TypeOK'
    BY <2>1, <2>2 DEF TypeInv, ThreadInv, TypeOK, AtMostOne, Queues, Stages
  <2> QED
    BY <1>3, <1>4, <2>3 DEF TypeInv
<1>5. CASE HandOn("inf")
  <2>1. /\ chan'["result"] \in ChannelOf(Results)
        /\ Len(chan'["result"].buf) <= QueueCapacity
        /\ DOMAIN chan' = Queues
        /\ \A q \in Queues \ {"result"} : chan'[q] = chan[q]
    BY <1>1, <1>5 DEF TypeInv, TypeOK, AtMostOne, Output
  <2>2. /\ hand' = [hand EXCEPT !["inf"] = <<>>]
        /\ UNCHANGED <<window, windowId, engineReady, feeder, submitted,
                       accepted, reported>>
    BY <1>2, <1>5
  <2>3. TypeOK'
    BY <2>1, <2>2 DEF TypeInv, ThreadInv, TypeOK, AtMostOne, Queues, Stages
  <2> QED
    BY <1>3, <1>5, <2>3 DEF TypeInv
<1> QED
  BY <1>4, <1>5

LEMMA OwnerTypes ==
    ASSUME TypeInv, ThreadInv', Start \/ Stop \/ Destroy \/ OwnerStep
    PROVE  TypeInv'
<1>1. UNCHANGED <<window, windowId, engineReady, hand, feeder, submitted,
                  accepted, reported>>
  BY DEF Start, Stop, Destroy, OwnerCall, OwnerStep, CloseQueue, StartWorker,
         StopWorker, JoinWorker, OwnerFrame, feederVars
<1>2. ASSUME NEW q \in Queues, CloseQueue(q)
      PROVE  TypeInv'
  <2>1. /\ chan' = [chan EXCEPT ![q] = Shut(@)] /\ UNCHANGED place
    BY <1>2 DEF CloseQueue
  <2>2. /\ chan'["raw"] \in ChannelOf(Samples)
        /\ chan'["tensor"] \in ChannelOf(Windows)
        /\ chan'["result"] \in ChannelOf(Results)
    BY <2>1, ShutTyped DEF TypeInv, TypeOK, Queues
  <2>3. /\ DOMAIN chan' = Queues
        /\ \A p \in Queues : chan'[p].buf = chan[p].buf
    BY <2>1, ShutTyped DEF TypeInv, TypeOK, Queues
  <2>4. TypeOK'
    BY <1>1, <2>2, <2>3 DEF TypeInv, ThreadInv, TypeOK
  <2>5. HandsOK'
    BY <1>1, <2>1 DEF TypeInv, HandsOK, Holding
  <2> QED
    BY <2>4, <2>5 DEF TypeInv
<1>3. ASSUME UNCHANGED chan, \A s \in Stages : Holding(s)' = Holding(s),
             place'["post"] # "push", place'["pre"] # "call",
             place'["inf"] # "call"
      PROVE  TypeInv'
  <2>1. TypeOK'
    BY <1>1, <1>3 DEF TypeInv, ThreadInv, TypeOK
  <2>2. HandsOK'
    BY <1>1, <1>3 DEF TypeInv, HandsOK
  <2> QED
    BY <2>1, <2>2 DEF TypeInv
<1>4. ASSUME UNCHANGED <<chan, place>> PROVE TypeInv'
  BY <1>3, <1>4 DEF TypeInv, HandsOK, Holding
<1>5. ASSUME Start \/ Stop \/ Destroy PROVE TypeInv'
  BY <1>4, <1>5 DEF Start, Stop, Destroy, OwnerCall
<1>6. ASSUME NEW s \in Stages, StartWorker(s) PROVE TypeInv'
  <2>1. CASE running[s]
    BY <1>4, <1>6, <2>1 DEF StartWorker
  <2>2. CASE ~running[s]
    <3>1. place[s] = "none" /\ UNCHANGED chan
          /\ place' = [place EXCEPT ![s] = "check"]
      BY <1>6, <2>2 DEF StartWorker, TypeInv, ThreadInv, NoOrphanThread, Doing
    <3> QED
      BY <1>3, <3>1 DEF TypeInv, ThreadInv, HandsOK, Holding, Stages
  <2> QED
    BY <2>1, <2>2
<1>7. ASSUME NEW s \in Stages, StopWorker(s) PROVE TypeInv'
  BY <1>4, <1>7 DEF StopWorker
<1>8. ASSUME NEW s \in Stages, JoinWorker(s) PROVE TypeInv'
  BY <1>3, <1>8 DEF JoinWorker, Move, TypeInv, ThreadInv, HandsOK, Holding, Stages
<1> QED
  BY <1>2, <1>5, <1>6, <1>7, <1>8 DEF OwnerStep

LEMMA SubmitTypes ==
    ASSUME TypeInv, ThreadInv', Submit
    PROVE  TypeInv'
<1>1. /\ feeder = <<>> /\ submitted < MaxSamples
      /\ submitted' = submitted + 1 /\ feeder' = <<submitted + 1>>
      /\ UNCHANGED <<chan, engineReady, running, todo, window, windowId, place,
                     hand, reported, accepted>>
  BY DEF Submit, workerVars
<1>2. TypeOK'
  BY <1>1 DEF TypeInv, ThreadInv, TypeOK, AtMostOne, Samples
<1>3. HandsOK'
  BY <1>1 DEF TypeInv, TypeOK, HandsOK, Holding
<1> QED
  BY <1>2, <1>3 DEF TypeInv

LEMMA SubmitReturnTypes ==
    ASSUME TypeInv, ThreadInv', SubmitReturn
    PROVE  TypeInv'
<1>1. /\ feeder # <<>> /\ PushReady(chan["raw"], QueueCapacity)
      /\ chan' = [chan EXCEPT !["raw"] = Put(@, feeder[1])]
      /\ accepted' \in {accepted, accepted + 1}
      /\ feeder' = <<>>
      /\ UNCHANGED <<engineReady, running, todo, window, windowId, place, hand,
                     reported, submitted>>
  BY DEF SubmitReturn, workerVars
<1>2. Len(feeder) = 1 /\ feeder[1] \in Samples
  <2>1. AtMostOne(feeder, Samples)
    BY DEF TypeInv, TypeOK
  <2> QED
    BY <1>1, <2>1, FirstItem
<1>3. /\ chan'["raw"] \in ChannelOf(Samples)
      /\ Len(chan'["raw"].buf) <= QueueCapacity
  <2>1. /\ chan["raw"] \in ChannelOf(Samples) /\ Len(chan["raw"].buf) <= QueueCapacity
        /\ chan'["raw"] = Put(chan["raw"], feeder[1])
    BY <1>1 DEF TypeInv, TypeOK, Queues
  <2> QED
    BY <1>1, <1>2, <2>1, PutTyped
<1>4. DOMAIN chan' = Queues /\ \A q \in Queues \ {"raw"} : chan'[q] = chan[q]
  BY <1>1 DEF TypeInv, TypeOK
<1>5. accepted' \in 0..submitted'
  BY <1>1, <1>2 DEF TypeInv, TypeOK, HandsOK
<1>6. TypeOK'
  BY <1>1, <1>3, <1>4, <1>5 DEF TypeInv, ThreadInv, TypeOK, AtMostOne, Queues
<1>7. HandsOK'
  BY <1>1, <1>2, <1>5 DEF TypeInv, TypeOK, HandsOK, Holding
<1> QED
  BY <1>6, <1>7 DEF TypeInv

LEMMA NextTypes ==
    ASSUME TypeInv, [Next]_vars
    PROVE  TypeInv'
<1>1. ThreadInv'
  BY NextThreads DEF TypeInv
<1>2. CASE PreStep \/ InfStep \/ PostStep
  BY <1>1, <1>2, IdleTypes, CollectTypes, InferTypes, TakeResultTypes, ReportTypes,
     HandOnTypes DEF PreStep, InfStep, PostStep, Stages
<1>3. CASE Start \/ Stop \/ Destroy \/ OwnerStep
  BY <1>1, <1>3, OwnerTypes
<1>4. CASE Submit \/ SubmitReturn
  BY <1>1, <1>4, SubmitTypes, SubmitReturnTypes
<1>5. CASE Finished \/ UNCHANGED vars
  BY <1>1, <1>5 DEF Finished, vars, workerVars, feederVars, TypeInv, TypeOK,
                    HandsOK, Holding
<1> QED
  BY <1>2, <1>3, <1>4, <1>5 DEF Next

LEMMA TypesAlways == Spec => []TypeInv
<1>1. Init => TypeInv
  BY InitTypes, InitThreads DEF TypeInv
<1> QED
  BY <1>1, NextTypes, PTL DEF Spec

(* No queue is ever above its capacity, the window buffer never holds a     *)
(* full window, and no worker has two items in hand (pipeline.cpp:47).      *)
THEOREM PipelineTypeCorrect == Spec => []TypeOK
<1>1. TypeInv => TypeOK
  BY DEF TypeInv
<1> QED
  BY <1>1, TypesAlways, PTL
-----------------------------------------------------------------------------
(* Order.  Each place of the pipeline holds a piece of one of three streams,*)
(* and windowId says which: the windows in front of the inference worker    *)
(* are the next ones, the results behind it the last ones.  Closing a queue *)
(* breaks the stream at that place: what is behind it stays there, and what *)
(* is ahead of it is not touched.                                           *)

\* How many samples are in the windows before the k-th.
Before(k) == (k - 1) * WindowLength

\* The three streams: samples, windows and results, by number.
SampleNo == [k \in Nat |-> k]
WindowNo == [k \in Nat |-> [i \in 1..WindowLength |-> Before(k) + i]]
ResultNo == [k \in Nat |->
                [id |-> k, samples |-> WindowNo[k], inferred |-> FALSE]]

\* sq is the piece of a stream that comes after its first b elements.
Follows(sq, stream, b) == \A k \in 1..Len(sq) : sq[k] = stream[b + k]

LEMMA FollowsTail ==
    ASSUME NEW Items, NEW sq \in Seq(Items), sq # <<>>, NEW stream, NEW b \in Nat,
           Follows(sq, stream, b)
    PROVE  /\ Head(sq) = stream[b + 1]
           /\ Follows(Tail(sq), stream, b + 1)
           /\ Len(Tail(sq)) \in Nat /\ Len(Tail(sq)) + 1 = Len(sq)
<1>1. Head(sq) = sq[1] /\ 1 \in 1..Len(sq)
  OBVIOUS
<1>2. Len(Tail(sq)) = Len(sq) - 1 /\ Len(sq) \in Nat
  OBVIOUS
<1>3. ASSUME NEW k \in 1..Len(Tail(sq)) PROVE Tail(sq)[k] = stream[(b + 1) + k]
  <2>1. k + 1 \in 1..Len(sq) /\ Tail(sq)[k] = sq[k + 1] /\ b + (k + 1) = (b + 1) + k
    BY <1>2
  <2> QED
    BY <2>1 DEF Follows
<1>4. Len(Tail(sq)) \in Nat /\ Len(Tail(sq)) + 1 = Len(sq)
  BY <1>2
<1> QED
  BY <1>1, <1>3, <1>4 DEF Follows

LEMMA FollowsAppend ==
    ASSUME NEW Items, NEW sq \in Seq(Items), NEW stream, NEW b \in Nat,
           Follows(sq, stream, b), NEW v, v = stream[b + (Len(sq) + 1)]
    PROVE  /\ Follows(Append(sq, v), stream, b)
           /\ Len(Append(sq, v)) = Len(sq) + 1
<1>1. Len(Append(sq, v)) = Len(sq) + 1 /\ Len(sq) \in Nat
  OBVIOUS
<1>2. ASSUME NEW k \in 1..Len(Append(sq, v)) PROVE Append(sq, v)[k] = stream[b + k]
  <2>1. CASE k = Len(sq) + 1
    BY <2>1
  <2>2. CASE k \in 1..Len(sq)
    BY <2>2 DEF Follows
  <2> QED
    BY <1>1, <2>1, <2>2
<1> QED
  BY <1>1, <1>2 DEF Follows

LEMMA FollowsOne ==
    ASSUME NEW stream, NEW b \in Nat, NEW v, v = stream[b + 1]
    PROVE  Follows(<<v>>, stream, b) /\ Len(<<v>>) = 1
<1>1. ASSUME NEW k \in 1..Len(<<v>>) PROVE <<v>>[k] = stream[b + k]
  <2>1. k = 1
    OBVIOUS
  <2> QED
    BY <2>1
<1> QED
  BY <1>1 DEF Follows

LEMMA FollowsNone ==
    ASSUME NEW stream, NEW b
    PROVE  Follows(<<>>, stream, b) /\ Len(<<>>) = 0
BY DEF Follows

LEMMA FollowsConcat ==
    ASSUME NEW Items, NEW sq \in Seq(Items), NEW tq \in Seq(Items), NEW stream,
           NEW b \in Nat,
           Follows(sq, stream, b), Follows(tq, stream, b + Len(sq))
    PROVE  Follows(sq \o tq, stream, b) /\ Len(sq \o tq) = Len(sq) + Len(tq)
<1>1. Len(sq \o tq) = Len(sq) + Len(tq) /\ Len(sq) \in Nat /\ Len(tq) \in Nat
  OBVIOUS
<1>2. ASSUME NEW k \in 1..Len(sq \o tq) PROVE (sq \o tq)[k] = stream[b + k]
  <2>1. CASE k \in 1..Len(sq)
    BY <2>1 DEF Follows
  <2>2. CASE k > Len(sq)
    <3>1. (sq \o tq)[k] = tq[k - Len(sq)] /\ k - Len(sq) \in 1..Len(tq)
      BY <1>1, <2>2
    <3>2. (b + Len(sq)) + (k - Len(sq)) = b + k
      BY <1>1
    <3> QED
      BY <3>1, <3>2 DEF Follows
  <2> QED
    BY <1>1, <2>1, <2>2
<1> QED
  BY <1>1, <1>2 DEF Follows

\* What a pop gives, and what is left.
LEMMA FollowsTake ==
    ASSUME NEW Items, NEW c \in ChannelOf(Items), c.buf # <<>>, NEW stream,
           NEW b \in Nat, Follows(c.buf, stream, b)
    PROVE  /\ Head(c.buf) = stream[b + 1]
           /\ Follows(Take(c).buf, stream, b + 1)
           /\ Len(Take(c).buf) \in Nat /\ Len(Take(c).buf) + 1 = Len(c.buf)
           /\ Take(c).shut = c.shut
<1>1. c.buf \in Seq(Items) /\ Take(c).buf = Tail(c.buf) /\ Take(c).shut = c.shut
  BY DEF ChannelOf, Take
<1> QED
  BY <1>1, FollowsTail

\* A push: either the channel is closed and keeps what it has, or the item is
\* the next one of the stream.
LEMMA FollowsPut ==
    ASSUME NEW Items, NEW c \in ChannelOf(Items), NEW stream, NEW b \in Nat,
           Follows(c.buf, stream, b),
           NEW v, ~c.shut => v = stream[b + (Len(c.buf) + 1)]
    PROVE  /\ Follows(Put(c, v).buf, stream, b)
           /\ ~c.shut => Len(Put(c, v).buf) = Len(c.buf) + 1
           /\ Put(c, v).shut <=> c.shut
<1>1. c.buf \in Seq(Items)
  BY DEF ChannelOf
<1>2. CASE c.shut
  BY <1>2 DEF Put
<1>3. CASE ~c.shut
  <2>1. Put(c, v).buf = Append(c.buf, v) /\ ~Put(c, v).shut
    BY <1>3 DEF Put
  <2> QED
    BY <1>1, <1>3, <2>1, FollowsAppend
<1> QED
  BY <1>2, <1>3

LEMMA OneMoreWindow ==
    ASSUME NEW k \in Nat, k > 0
    PROVE  Before(k) \in Nat /\ Before(k + 1) = Before(k) + WindowLength
<1>1. (k + 1) - 1 = (k - 1) + 1 /\ k - 1 \in Nat
  OBVIOUS
<1>2. ((k - 1) + 1) * WindowLength = (k - 1) * WindowLength + WindowLength
  BY <1>1
<1> QED
  BY <1>1, <1>2 DEF Before

\* A full piece of the samples is a window.
LEMMA PieceIsWindow ==
    ASSUME NEW w \in Windows, Len(w) = WindowLength, NEW k \in Nat, k > 0,
           Follows(w, SampleNo, Before(k))
    PROVE  w = WindowNo[k]
<1>1. Before(k) \in Nat
  BY OneMoreWindow
<1>2. ASSUME NEW i \in 1..WindowLength PROVE w[i] = Before(k) + i
  <2>1. w[i] = SampleNo[Before(k) + i]
    BY DEF Follows
  <2>2. Before(k) + i \in Nat
    BY <1>1
  <2> QED
    BY <2>1, <2>2 DEF SampleNo
<1> QED
  BY <1>2 DEF Windows, WindowNo
-----------------------------------------------------------------------------
ResultsInv ==
    /\ engineReady = FALSE
    /\ Follows(reported, ResultNo, 0)
    /\ Follows(hand["post"], ResultNo, Len(reported))
    /\ Follows(chan["result"].buf, ResultNo, Len(reported) + Len(hand["post"]))
    /\ Len(hand["inf"]) > 0 => hand["inf"] = <<ResultNo[windowId]>>
    /\ ~chan["result"].shut =>
          Len(reported) + Len(hand["post"]) + Len(chan["result"].buf)
            + Len(hand["inf"]) = windowId

WindowsInv == Follows(chan["tensor"].buf, WindowNo, windowId)

\* The number of the window that is being collected.
Cut == windowId + Len(chan["tensor"].buf) + Len(hand["pre"]) + 1

SamplesInv ==
    ~chan["tensor"].shut =>
        /\ Follows(hand["pre"], WindowNo, windowId + Len(chan["tensor"].buf))
        /\ Follows(window, SampleNo, Before(Cut))
        /\ Follows(chan["raw"].buf, SampleNo, Before(Cut) + Len(window))
        /\ ~chan["raw"].shut =>
              Before(Cut) + Len(window) + Len(chan["raw"].buf) + Len(feeder)
                = submitted

OrderInv == ResultsInv /\ WindowsInv /\ SamplesInv

\* The lengths the numbers are made of.
LEMMA Lengths ==
    ASSUME TypeInv
    PROVE  /\ Len(chan["raw"].buf) \in Nat /\ Len(chan["tensor"].buf) \in Nat
           /\ Len(chan["result"].buf) \in Nat
           /\ Len(hand["pre"]) \in Nat /\ Len(hand["inf"]) \in Nat
           /\ Len(hand["post"]) \in Nat
           /\ Len(window) \in Nat /\ Len(reported) \in Nat /\ windowId \in Nat
           /\ Len(feeder) \in Nat /\ submitted \in Nat
<1>1. /\ Len(chan["raw"].buf) \in Nat /\ Len(chan["tensor"].buf) \in Nat
      /\ Len(chan["result"].buf) \in Nat
  BY DEF TypeInv, TypeOK, ChannelOf
<1>2. Len(window) \in Nat /\ Len(reported) \in Nat /\ windowId \in Nat /\ submitted \in Nat
  BY DEF TypeInv, TypeOK
<1>3. /\ Len(hand["pre"]) \in Nat /\ Len(hand["inf"]) \in Nat
      /\ Len(hand["post"]) \in Nat /\ Len(feeder) \in Nat
  BY DEF TypeInv, TypeOK, AtMostOne
<1> QED
  BY <1>1, <1>2, <1>3

LEMMA InitOrder == Init => OrderInv
<1> SUFFICES ASSUME Init PROVE OrderInv
  OBVIOUS
<1>1. /\ Len(chan["raw"].buf) = 0 /\ Len(chan["tensor"].buf) = 0
      /\ Len(chan["result"].buf) = 0
  BY DEF Init, NewChannel, Queues
<1>2. /\ Len(hand["pre"]) = 0 /\ Len(hand["inf"]) = 0 /\ Len(hand["post"]) = 0
      /\ Len(reported) = 0 /\ Len(window) = 0 /\ Len(feeder) = 0
      /\ windowId = 0 /\ submitted = 0
  BY DEF Init, Stages
<1>3. Before(1) = 0
  BY DEF Before
<1>4. engineReady = FALSE
  BY DEF Init
<1>5. ResultsInv
  BY <1>1, <1>2, <1>4 DEF ResultsInv, Follows
<1>6. WindowsInv
  BY <1>1 DEF WindowsInv, Follows
<1>7. SamplesInv
  BY <1>1, <1>2, <1>3 DEF SamplesInv, Cut, Follows
<1> QED
  BY <1>5, <1>6, <1>7 DEF OrderInv

\* What each part of the invariant does not depend on.
LEMMA ResultsKept ==
    ASSUME ResultsInv, UNCHANGED <<reported, windowId, engineReady>>,
           hand'["post"] = hand["post"], hand'["inf"] = hand["inf"],
           chan'["result"] = chan["result"]
    PROVE  ResultsInv'
BY DEF ResultsInv

LEMMA WindowsKept ==
    ASSUME WindowsInv, UNCHANGED windowId, chan'["tensor"] = chan["tensor"]
    PROVE  WindowsInv'
BY DEF WindowsInv

LEMMA SamplesKept ==
    ASSUME SamplesInv, UNCHANGED <<windowId, window, feeder, submitted>>,
           hand'["pre"] = hand["pre"], chan'["raw"] = chan["raw"],
           chan'["tensor"] = chan["tensor"]
    PROVE  SamplesInv'
BY DEF SamplesInv, Cut


LEMMA ThreeNats == \A k, m, n \in Nat : k + m + n \in Nat
OBVIOUS

\* Numbers of windows and samples are natural numbers.
LEMMA CutIsNat ==
    ASSUME TypeInv
    PROVE  /\ Cut \in Nat /\ Cut > 0 /\ Before(Cut) \in Nat
           /\ Before(Cut) + Len(window) \in Nat
           /\ windowId + Len(chan["tensor"].buf) \in Nat
           /\ Before(Cut + 1) = Before(Cut) + WindowLength
<1> DEFINE t == Len(chan["tensor"].buf)
           h == Len(hand["pre"])
           n == Len(window)
<1>1. t \in Nat /\ h \in Nat /\ n \in Nat /\ windowId \in Nat
  BY Lengths
<1>2. Cut = windowId + t + h + 1
  BY DEF Cut
<1> HIDE DEF t, h, n
<1>3. Cut \in Nat /\ Cut > 0
  BY <1>1, <1>2
<1>4. Before(Cut) \in Nat /\ Before(Cut + 1) = Before(Cut) + WindowLength
  BY <1>3, OneMoreWindow
<1>5. Before(Cut) + n \in Nat /\ windowId + t \in Nat
  BY <1>1, <1>4
<1> QED
  BY <1>3, <1>4, <1>5 DEF n, t

\* The samples before a window is cut: one of them moves from the raw queue to
\* the window buffer.
LEMMA CollectPiece ==
    ASSUME TypeInv, OrderInv, CollectSample, ~chan["tensor"].shut
    PROVE  LET w == Append(window, Head(chan["raw"].buf)) IN
           /\ Follows(w, SampleNo, Before(Cut))
           /\ Len(w) = Len(window) + 1
           /\ Follows(Take(chan["raw"]).buf, SampleNo, Before(Cut) + Len(w))
           /\ Len(Take(chan["raw"]).buf) \in Nat
           /\ Len(Take(chan["raw"]).buf) + 1 = Len(chan["raw"].buf)
<1> DEFINE b == Before(Cut)
           n == Len(window)
           x == Head(chan["raw"].buf)
<1>1. /\ chan["raw"] \in ChannelOf(Samples) /\ chan["raw"].buf # <<>>
      /\ window \in Seq(Samples)
  BY CollectEffect DEF TypeInv, TypeOK
<1>2. b \in Nat /\ n \in Nat /\ b + n \in Nat
  BY CutIsNat, Lengths
<1>3. Follows(window, SampleNo, b) /\ Follows(chan["raw"].buf, SampleNo, b + n)
  BY DEF OrderInv, SamplesInv
<1>4. /\ x = SampleNo[(b + n) + 1]
      /\ Follows(Take(chan["raw"]).buf, SampleNo, (b + n) + 1)
      /\ Len(Take(chan["raw"]).buf) \in Nat
      /\ Len(Take(chan["raw"]).buf) + 1 = Len(chan["raw"].buf)
  BY <1>1, <1>2, <1>3, FollowsTake
<1> HIDE DEF b, n, x
<1>5. (b + n) + 1 = b + (n + 1)
  BY <1>2
<1>6. /\ Follows(Append(window, x), SampleNo, b)
      /\ Len(Append(window, x)) = n + 1
  BY <1>1, <1>2, <1>3, <1>4, <1>5, FollowsAppend DEF n
<1> QED
  BY <1>4, <1>5, <1>6 DEF b, n, x

LEMMA CollectOrder ==
    ASSUME TypeInv, TypeInv', OrderInv, CollectSample
    PROVE  OrderInv'
<1> DEFINE w == Append(window, Head(chan["raw"].buf))
           b == Before(Cut)
           m == Len(chan["raw"].buf)
           m2 == Len(Take(chan["raw"]).buf)
           f == Len(feeder)
           n == Len(window)
           t == Len(chan["tensor"].buf)
<1>1. /\ hand["pre"] = <<>>
      /\ chan' = [chan EXCEPT !["raw"] = Take(@)]
      /\ UNCHANGED <<windowId, feeder, submitted, reported, engineReady>>
  BY CollectEffect
<1>2. chan'["tensor"] = chan["tensor"] /\ chan'["result"] = chan["result"]
      /\ chan'["raw"] = Take(chan["raw"])
  BY <1>1 DEF TypeInv, TypeOK, Queues
<1>3. hand'["post"] = hand["post"] /\ hand'["inf"] = hand["inf"]
  BY DEF CollectSample, TypeInv, TypeOK, Stages
<1>4. ResultsInv' /\ WindowsInv'
  BY <1>1, <1>2, <1>3, ResultsKept, WindowsKept DEF OrderInv
<1>5. ASSUME ~chan["tensor"].shut PROVE SamplesInv'
  <2>1. /\ Follows(w, SampleNo, b)
        /\ Follows(chan'["raw"].buf, SampleNo, b + Len(w))
        /\ Len(w) = n + 1 /\ m2 \in Nat /\ m2 + 1 = m
    BY <1>2, <1>5, CollectPiece
  <2>2. chan'["raw"].shut = chan["raw"].shut
    BY <1>2 DEF Take
  <2>3. /\ b \in Nat /\ m \in Nat /\ f \in Nat /\ n \in Nat /\ t \in Nat
        /\ windowId \in Nat /\ submitted \in Nat
    BY CutIsNat, Lengths
  <2>4. ~chan["raw"].shut => b + n + m + f = submitted
    BY <1>5 DEF OrderInv, SamplesInv
  <2>5. CASE Len(w) >= WindowLength
    <3>1. hand' = [hand EXCEPT !["pre"] = <<w>>] /\ window' = <<>>
      BY <2>5, CollectCases
    <3>2. hand'["pre"] = <<w>>
      BY <3>1 DEF TypeInv, TypeOK, Stages
    <3>3. Len(w) = WindowLength /\ w \in Windows
      <4>1. Len(w) = WindowLength
        BY <2>1, <2>5 DEF TypeInv, TypeOK
      <4>2. hand'["pre"] \in Seq(Windows)
        BY DEF TypeInv, TypeOK, AtMostOne
      <4> QED
        BY <3>2, <4>1, <4>2
    <3>4. w = WindowNo[Cut]
      BY <2>1, <3>3, CutIsNat, PieceIsWindow
    <3>5. Len(hand["pre"]) = 0 /\ Len(hand'["pre"]) = 1
      BY <1>1, <3>2
    <3>6. Cut = windowId + t + 1 /\ Cut' = windowId + t + 2
      BY <1>1, <1>2, <2>3, <3>5 DEF Cut
    <3>7. Cut' = Cut + 1
      BY <2>3, <3>6
    <3>8. Before(Cut)' = b + WindowLength
      BY <3>7, CutIsNat
    <3>9. Follows(hand'["pre"], WindowNo, windowId' + Len(chan'["tensor"].buf))
      <4>1. windowId + t \in Nat /\ w = WindowNo[(windowId + t) + 1]
        BY <2>3, <3>4, <3>6
      <4>2. Follows(<<w>>, WindowNo, windowId + t)
        BY <4>1, FollowsOne
      <4> QED
        BY <1>1, <1>2, <3>2, <4>2
    <3>10. Len(window') = 0 /\ Follows(window', SampleNo, Before(Cut)')
      BY <3>1 DEF Follows
    <3>11. Before(Cut)' + Len(window') = b + Len(w)
      BY <2>3, <3>3, <3>8, <3>10
    <3>12. ~chan'["raw"].shut =>
              Before(Cut)' + Len(window') + Len(chan'["raw"].buf) + Len(feeder')
                = submitted'
      BY <1>1, <1>2, <2>1, <2>2, <2>3, <2>4, <3>11
    <3> QED
      BY <2>1, <3>9, <3>10, <3>11, <3>12 DEF SamplesInv
  <2>6. CASE ~(Len(w) >= WindowLength)
    <3>1. hand' = hand /\ window' = w
      BY <2>6, CollectCases
    <3>2. Cut' = Cut
      BY <1>1, <1>2, <3>1 DEF Cut
    <3>3. ~chan'["raw"].shut =>
              Before(Cut)' + Len(window') + Len(chan'["raw"].buf) + Len(feeder')
                = submitted'
      <4>1. /\ Before(Cut)' = b /\ Len(window') = n + 1
            /\ Len(chan'["raw"].buf) = m2 /\ Len(feeder') = f
            /\ submitted' = submitted
        BY <1>1, <1>2, <2>1, <3>1, <3>2
      <4>2. m2 + 1 = m /\ m2 \in Nat
        BY <2>1
      <4> HIDE DEF b, n, m, m2, f
      <4> QED
        BY <2>2, <2>3, <2>4, <4>1, <4>2
    <3> QED
      BY <1>1, <1>2, <1>5, <2>1, <3>1, <3>2, <3>3 DEF SamplesInv, OrderInv
  <2> QED
    BY <2>5, <2>6
<1>6. SamplesInv'
  BY <1>2, <1>5 DEF SamplesInv
<1> QED
  BY <1>4, <1>6 DEF OrderInv

LEMMA InferOrder ==
    ASSUME TypeInv, TypeInv', OrderInv, Infer
    PROVE  OrderInv'
<1> DEFINE t == Len(chan["tensor"].buf)
           t2 == Len(Take(chan["tensor"]).buf)
           h == Len(hand["pre"])
           r == [id |-> windowId + 1, samples |-> Head(chan["tensor"].buf),
                 inferred |-> engineReady]
<1>1. /\ hand["inf"] = <<>> /\ chan["tensor"].buf # <<>>
      /\ chan' = [chan EXCEPT !["tensor"] = Take(@)]
      /\ windowId' = windowId + 1
      /\ hand' = [hand EXCEPT !["inf"] = <<r>>]
      /\ UNCHANGED <<window, feeder, submitted, reported, engineReady>>
  BY InferEffect
<1>2. /\ chan'["raw"] = chan["raw"] /\ chan'["result"] = chan["result"]
      /\ chan'["tensor"] = Take(chan["tensor"])
      /\ hand'["pre"] = hand["pre"] /\ hand'["post"] = hand["post"]
      /\ hand'["inf"] = <<r>>
  BY <1>1 DEF TypeInv, TypeOK, Queues, Stages
<1>3. /\ Head(chan["tensor"].buf) = WindowNo[windowId + 1]
      /\ Follows(Take(chan["tensor"]).buf, WindowNo, windowId + 1)
      /\ t2 \in Nat /\ t2 + 1 = t
      /\ Take(chan["tensor"]).shut = chan["tensor"].shut
  <2>1. chan["tensor"] \in ChannelOf(Windows) /\ windowId \in Nat
    BY DEF TypeInv, TypeOK
  <2>2. Follows(chan["tensor"].buf, WindowNo, windowId)
    BY DEF OrderInv, WindowsInv
  <2> QED
    BY <1>1, <2>1, <2>2, FollowsTake
<1>4. WindowsInv'
  BY <1>1, <1>2, <1>3 DEF WindowsInv
<1>5. r = ResultNo[windowId']
  <2>1. windowId + 1 \in Nat /\ engineReady = FALSE
    BY Lengths DEF OrderInv, ResultsInv
  <2> QED
    BY <1>1, <1>3, <2>1 DEF ResultNo
<1>6. ResultsInv'
  <2> DEFINE a == Len(reported) + Len(hand["post"]) + Len(chan["result"].buf)
             i == Len(hand["inf"])
  <2>1. i = 0 /\ Len(hand'["inf"]) = 1
    BY <1>1, <1>2
  <2>2. a \in Nat /\ windowId \in Nat
    BY Lengths, ThreeNats
  <2>3. ~chan["result"].shut => a + i = windowId
    BY DEF OrderInv, ResultsInv
  <2> HIDE DEF a, i
  <2>4. ~chan["result"].shut => a + 1 = windowId + 1
    BY <2>1, <2>2, <2>3
  <2>5. ~chan'["result"].shut =>
            Len(reported') + Len(hand'["post"]) + Len(chan'["result"].buf)
              + Len(hand'["inf"]) = windowId'
    BY <1>1, <1>2, <2>1, <2>4 DEF a
  <2> QED
    BY <1>1, <1>2, <1>5, <2>5 DEF OrderInv, ResultsInv
<1>7. SamplesInv'
  <2>1. t \in Nat /\ h \in Nat /\ windowId \in Nat
    BY Lengths
  <2>2. Cut = windowId + t + h + 1 /\ Cut' = windowId' + t2 + h + 1
    BY <1>2 DEF Cut
  <2> HIDE DEF t, t2, h
  <2>3. windowId' + t2 = windowId + t /\ Cut' = Cut
    BY <1>1, <1>3, <2>1, <2>2
  <2> QED
    BY <1>1, <1>2, <1>3, <2>3 DEF OrderInv, SamplesInv, t, t2
<1> QED
  BY <1>4, <1>6, <1>7 DEF OrderInv

\* What preprocess_loop pushes is the next window, or is refused.
LEMMA HandOnWindowOrder ==
    ASSUME TypeInv, TypeInv', OrderInv, HandOn("pre")
    PROVE  OrderInv'
<1> DEFINE c == chan["tensor"]
           v == hand["pre"][1]
           t == Len(c.buf)
<1>1. /\ place["pre"] = "push"
      /\ chan' = [chan EXCEPT !["tensor"] = Put(@, v)]
      /\ hand' = [hand EXCEPT !["pre"] = <<>>]
      /\ UNCHANGED <<window, windowId, feeder, submitted, reported, engineReady>>
  BY DEF HandOn, Move, Output, WorkerFrame, feederVars
<1>2. /\ chan'["raw"] = chan["raw"] /\ chan'["result"] = chan["result"]
      /\ chan'["tensor"] = Put(c, v)
      /\ hand'["inf"] = hand["inf"] /\ hand'["post"] = hand["post"]
      /\ hand'["pre"] = <<>>
  BY <1>1 DEF TypeInv, TypeOK, Queues, Stages
<1>3. ResultsInv'
  BY <1>1, <1>2, ResultsKept DEF OrderInv
<1>4. c \in ChannelOf(Windows) /\ t \in Nat /\ windowId \in Nat /\ Len(hand["pre"]) = 1
  BY <1>1, Lengths DEF TypeInv, TypeOK, HandsOK, Holding, Stages
<1>5. ~c.shut => v = WindowNo[windowId + (t + 1)]
  <2>1. ~c.shut => Follows(hand["pre"], WindowNo, windowId + t)
    BY DEF OrderInv, SamplesInv
  <2>2. ~c.shut => v = WindowNo[(windowId + t) + 1]
    BY <1>4, <2>1 DEF Follows
  <2>3. (windowId + t) + 1 = windowId + (t + 1)
    BY <1>4
  <2> QED
    BY <2>2, <2>3
<1>6. /\ Follows(Put(c, v).buf, WindowNo, windowId)
      /\ ~c.shut => Len(Put(c, v).buf) = t + 1
      /\ Put(c, v).shut <=> c.shut
  <2>1. Follows(c.buf, WindowNo, windowId)
    BY DEF OrderInv, WindowsInv
  <2> QED
    BY <1>4, <1>5, <2>1, FollowsPut
<1>7. WindowsInv'
  BY <1>1, <1>2, <1>6 DEF WindowsInv
<1>8. ASSUME ~c.shut PROVE SamplesInv'
  <2>1. Len(hand'["pre"]) = 0 /\ Len(chan'["tensor"].buf) = t + 1
    BY <1>2, <1>6, <1>8
  <2>2. Cut = windowId + t + 1 + 1 /\ Cut' = windowId + (t + 1) + 0 + 1
    BY <1>1, <1>4, <2>1 DEF Cut
  <2>3. Cut' = Cut
    BY <1>4, <2>2
  <2> QED
    BY <1>1, <1>2, <1>8, <2>3, FollowsNone DEF OrderInv, SamplesInv
<1>9. SamplesInv'
  BY <1>2, <1>6, <1>8 DEF SamplesInv
<1> QED
  BY <1>3, <1>7, <1>9 DEF OrderInv

\* What inference_loop pushes is the result of the last window it has numbered.
LEMMA HandOnResultOrder ==
    ASSUME TypeInv, TypeInv', OrderInv, HandOn("inf")
    PROVE  OrderInv'
<1> DEFINE c == chan["result"]
           v == hand["inf"][1]
           a == Len(reported) + Len(hand["post"])
           n == Len(c.buf)
           n2 == Len(Put(c, v).buf)
           i == Len(hand["inf"])
<1>1. /\ place["inf"] = "push"
      /\ chan' = [chan EXCEPT !["result"] = Put(@, v)]
      /\ hand' = [hand EXCEPT !["inf"] = <<>>]
      /\ UNCHANGED <<window, windowId, feeder, submitted, reported, engineReady>>
  BY DEF HandOn, Move, Output, WorkerFrame, feederVars
<1>2. /\ chan'["raw"] = chan["raw"] /\ chan'["tensor"] = chan["tensor"]
      /\ chan'["result"] = Put(c, v)
      /\ hand'["pre"] = hand["pre"] /\ hand'["post"] = hand["post"]
      /\ hand'["inf"] = <<>>
  BY <1>1 DEF TypeInv, TypeOK, Queues, Stages
<1>3. WindowsInv' /\ SamplesInv'
  BY <1>1, <1>2, WindowsKept, SamplesKept DEF OrderInv
<1>4. c \in ChannelOf(Results) /\ i = 1
  BY <1>1 DEF TypeInv, TypeOK, HandsOK, Holding, Stages
<1>5. n \in Nat /\ windowId \in Nat /\ a \in Nat
  BY Lengths
<1>6. /\ Follows(c.buf, ResultNo, a)
      /\ v = ResultNo[windowId]
      /\ ~c.shut => a + n + i = windowId
  <2>1. hand["inf"] = <<ResultNo[windowId]>>
    BY <1>4 DEF OrderInv, ResultsInv
  <2>2. Follows(c.buf, ResultNo, a) /\ (~c.shut => a + n + i = windowId)
    BY DEF OrderInv, ResultsInv
  <2>3. v = ResultNo[windowId]
    BY <2>1
  <2> HIDE DEF a, n, i, c, v
  <2> QED
    BY <2>2, <2>3
<1>7. ~c.shut => a + (n + 1) = windowId
  <2> HIDE DEF a, n, i, c
  <2> QED
    BY <1>4, <1>5, <1>6
<1>8. /\ Follows(Put(c, v).buf, ResultNo, a)
      /\ ~c.shut => n2 = n + 1
      /\ Put(c, v).shut <=> c.shut
  <2>1. ~c.shut => v = ResultNo[a + (n + 1)]
    BY <1>6, <1>7
  <2> HIDE DEF a, v
  <2> QED
    BY <1>4, <1>5, <1>6, <2>1, FollowsPut
<1>9. ResultsInv'
  <2>1. Len(hand'["inf"]) = 0
    BY <1>2
  <2>2. ~Put(c, v).shut => a + n2 + 0 = windowId
    <3> HIDE DEF a, n, n2
    <3> QED
      BY <1>5, <1>7, <1>8
  <2>3. ~chan'["result"].shut =>
            Len(reported') + Len(hand'["post"]) + Len(chan'["result"].buf)
              + Len(hand'["inf"]) = windowId'
    BY <1>1, <1>2, <2>1, <2>2
  <2>4. ~(Len(hand'["inf"]) > 0)
    BY <2>1
  <2>5. Follows(chan'["result"].buf, ResultNo, Len(reported') + Len(hand'["post"]))
    BY <1>1, <1>2, <1>8
  <2>6. /\ engineReady' = FALSE /\ Follows(reported', ResultNo, 0)
        /\ Follows(hand'["post"], ResultNo, Len(reported'))
    BY <1>1, <1>2 DEF OrderInv, ResultsInv
  <2> QED
    BY <2>3, <2>4, <2>5, <2>6 DEF ResultsInv
<1> QED
  BY <1>3, <1>9 DEF OrderInv

LEMMA TakeResultOrder ==
    ASSUME TypeInv, TypeInv', OrderInv, TakeResult
    PROVE  OrderInv'
<1> DEFINE c == chan["result"]
           v == Head(c.buf)
           a == Len(reported)
           p == Len(hand["post"])
           n == Len(c.buf)
           n2 == Len(Take(c).buf)
           i == Len(hand["inf"])
<1>1. /\ hand["post"] = <<>> /\ c.buf # <<>>
      /\ chan' = [chan EXCEPT !["result"] = Take(@)]
      /\ hand' = [hand EXCEPT !["post"] = <<v>>]
      /\ UNCHANGED <<window, windowId, feeder, submitted, reported, engineReady>>
  BY TakeResultEffect
<1>2. /\ chan'["raw"] = chan["raw"] /\ chan'["tensor"] = chan["tensor"]
      /\ chan'["result"] = Take(c)
      /\ hand'["pre"] = hand["pre"] /\ hand'["inf"] = hand["inf"]
      /\ hand'["post"] = <<v>>
  BY <1>1 DEF TypeInv, TypeOK, Queues, Stages
<1>3. WindowsInv' /\ SamplesInv'
  BY <1>1, <1>2, WindowsKept, SamplesKept DEF OrderInv
<1>4. c \in ChannelOf(Results) /\ p = 0
  BY <1>1 DEF TypeInv, TypeOK
<1>5. n \in Nat /\ windowId \in Nat /\ a \in Nat /\ i \in Nat
  BY Lengths
<1>6. Follows(c.buf, ResultNo, a) /\ (~c.shut => a + p + n + i = windowId)
  <2>1. a + p = a
    <3> HIDE DEF a, p
    <3> QED
      BY <1>4, <1>5
  <2> QED
    BY <2>1 DEF OrderInv, ResultsInv
<1>7. /\ v = ResultNo[a + 1]
      /\ Follows(Take(c).buf, ResultNo, a + 1)
      /\ n2 \in Nat /\ n2 + 1 = n
      /\ Take(c).shut = c.shut
  <2> HIDE DEF a
  <2> QED
    BY <1>1, <1>4, <1>5, <1>6, FollowsTake
<1>8. Follows(<<v>>, ResultNo, a) /\ Len(<<v>>) = 1
  <2> HIDE DEF a, v
  <2> QED
    BY <1>5, <1>7, FollowsOne
<1>9. ~c.shut => a + 1 + n2 + i = windowId
  <2> HIDE DEF a, p, n, n2, i, c
  <2> QED
    BY <1>4, <1>5, <1>6, <1>7
<1>10. ResultsInv'
  BY <1>1, <1>2, <1>7, <1>8, <1>9 DEF OrderInv, ResultsInv
<1> QED
  BY <1>3, <1>10 DEF OrderInv

LEMMA ReportOrder ==
    ASSUME TypeInv, TypeInv', OrderInv, Report
    PROVE  OrderInv'
<1> DEFINE a == Len(reported)
           p == Len(hand["post"])
           n == Len(chan["result"].buf)
           i == Len(hand["inf"])
           a2 == Len(reported \o hand["post"])
<1>1. /\ hand' = [hand EXCEPT !["post"] = <<>>]
      /\ reported' = reported \o hand["post"]
      /\ UNCHANGED <<chan, window, windowId, feeder, submitted, engineReady>>
  BY DEF Report, WorkerFrame, feederVars
<1>2. /\ hand'["pre"] = hand["pre"] /\ hand'["inf"] = hand["inf"]
      /\ hand'["post"] = <<>>
  BY <1>1 DEF TypeInv, TypeOK, Stages
<1>3. WindowsInv' /\ SamplesInv'
  BY <1>1, <1>2, WindowsKept, SamplesKept DEF OrderInv
<1>4. reported \in Seq(Results) /\ hand["post"] \in Seq(Results)
  BY DEF TypeInv, TypeOK, AtMostOne
<1>5. a \in Nat /\ p \in Nat /\ n \in Nat /\ i \in Nat
  BY Lengths
<1>6. Follows(reported, ResultNo, 0) /\ Follows(hand["post"], ResultNo, 0 + a)
  <2>1. 0 + a = a
    <3> HIDE DEF a
    <3> QED
      BY <1>5
  <2> QED
    BY <2>1 DEF OrderInv, ResultsInv
<1>7. Follows(reported \o hand["post"], ResultNo, 0) /\ a2 = a + p
  BY <1>4, <1>6, FollowsConcat
<1>8. Len(hand'["post"]) = 0 /\ Follows(hand'["post"], ResultNo, Len(reported'))
  BY <1>2, FollowsNone
<1>9. a + p + 0 = a + p
  <2> HIDE DEF a, p
  <2> QED
    BY <1>5
<1>10. ResultsInv'
  BY <1>1, <1>2, <1>7, <1>8, <1>9 DEF OrderInv, ResultsInv
<1> QED
  BY <1>3, <1>10 DEF OrderInv

\* Closing a queue only weakens what is claimed of it.
LEMMA OwnerOrder ==
    ASSUME TypeInv, TypeInv', OrderInv, Start \/ Stop \/ Destroy \/ OwnerStep
    PROVE  OrderInv'
<1>1. UNCHANGED <<window, windowId, engineReady, hand, feeder, submitted, reported>>
  BY DEF Start, Stop, Destroy, OwnerCall, OwnerStep, CloseQueue, StartWorker,
         StopWorker, JoinWorker, OwnerFrame, feederVars
<1>2. \A q \in Queues : /\ chan'[q].buf = chan[q].buf
                        /\ ~chan'[q].shut => ~chan[q].shut
  <2>1. ASSUME NEW p \in Queues, CloseQueue(p), NEW q \in Queues
        PROVE  chan'[q].buf = chan[q].buf /\ (~chan'[q].shut => ~chan[q].shut)
    BY <2>1 DEF CloseQueue, Shut, TypeInv, TypeOK
  <2>2. CASE UNCHANGED chan
    BY <2>2
  <2> QED
    BY <2>1, <2>2 DEF Start, Stop, Destroy, OwnerCall, OwnerStep, StartWorker,
                      StopWorker, JoinWorker
<1>3. /\ chan'["raw"].buf = chan["raw"].buf
      /\ ~chan'["raw"].shut => ~chan["raw"].shut
      /\ chan'["tensor"].buf = chan["tensor"].buf
      /\ ~chan'["tensor"].shut => ~chan["tensor"].shut
      /\ chan'["result"].buf = chan["result"].buf
      /\ ~chan'["result"].shut => ~chan["result"].shut
  BY <1>2 DEF Queues
<1>4. ResultsInv'
  BY <1>1, <1>3 DEF OrderInv, ResultsInv
<1>5. WindowsInv'
  BY <1>1, <1>3 DEF OrderInv, WindowsInv
<1>6. Cut' = Cut
  BY <1>1, <1>3 DEF Cut
<1>7. SamplesInv'
  BY <1>1, <1>3, <1>6 DEF OrderInv, SamplesInv
<1> QED
  BY <1>4, <1>5, <1>7 DEF OrderInv

LEMMA SubmitOrder ==
    ASSUME TypeInv, TypeInv', OrderInv, Submit
    PROVE  OrderInv'
<1> DEFINE a == Before(Cut) + Len(window)
           m == Len(chan["raw"].buf)
           f == Len(feeder)
<1>1. /\ feeder = <<>> /\ submitted' = submitted + 1
      /\ feeder' = <<submitted + 1>>
      /\ UNCHANGED <<chan, engineReady, window, windowId, hand, reported>>
  BY DEF Submit, workerVars
<1>2. ResultsInv' /\ WindowsInv'
  BY <1>1, ResultsKept, WindowsKept DEF OrderInv
<1>3. f = 0 /\ Len(feeder') = 1 /\ Cut' = Cut
  BY <1>1 DEF Cut
<1>4. a \in Nat /\ m \in Nat /\ submitted \in Nat
  BY CutIsNat, Lengths
<1>5. ASSUME ~chan["tensor"].shut, ~chan["raw"].shut
      PROVE  a + m + 1 = submitted + 1
  <2>1. a + m + f = submitted
    BY <1>5 DEF OrderInv, SamplesInv
  <2> HIDE DEF a, m, f
  <2> QED
    BY <1>3, <1>4, <2>1
<1>6. SamplesInv'
  BY <1>1, <1>3, <1>5 DEF OrderInv, SamplesInv
<1> QED
  BY <1>2, <1>6 DEF OrderInv

LEMMA SubmitReturnOrder ==
    ASSUME TypeInv, TypeInv', OrderInv, SubmitReturn
    PROVE  OrderInv'
<1> DEFINE c == chan["raw"]
           v == feeder[1]
           a == Before(Cut) + Len(window)
           m == Len(c.buf)
           m2 == Len(Put(c, v).buf)
           f == Len(feeder)
<1>1. /\ feeder # <<>> /\ feeder' = <<>>
      /\ chan' = [chan EXCEPT !["raw"] = Put(@, v)]
      /\ UNCHANGED <<engineReady, window, windowId, hand, reported, submitted>>
  BY DEF SubmitReturn, workerVars
<1>2. /\ chan'["tensor"] = chan["tensor"] /\ chan'["result"] = chan["result"]
      /\ chan'["raw"] = Put(c, v)
  BY <1>1 DEF TypeInv, TypeOK, Queues
<1>3. ResultsInv' /\ WindowsInv' /\ Cut' = Cut
  BY <1>1, <1>2, ResultsKept, WindowsKept DEF OrderInv, Cut
<1>4. f = 1 /\ c \in ChannelOf(Samples) /\ v = submitted
  <2>1. AtMostOne(feeder, Samples) /\ c \in ChannelOf(Samples)
    BY DEF TypeInv, TypeOK
  <2>2. f = 1
    BY <1>1, <2>1, FirstItem
  <2> QED
    BY <2>1, <2>2 DEF TypeInv, HandsOK
<1>5. a \in Nat /\ m \in Nat /\ submitted \in Nat
  BY CutIsNat, Lengths
<1>6. ASSUME ~chan["tensor"].shut PROVE SamplesInv'
  <2>0. Follows(c.buf, SampleNo, a)
    BY <1>6 DEF OrderInv, SamplesInv
  <2>1. ~c.shut => a + m + f = submitted
    BY <1>6 DEF OrderInv, SamplesInv
  <2>2. ~c.shut => a + (m + 1) = submitted
    <3> HIDE DEF a, m, f, c
    <3> QED
      BY <1>4, <1>5, <2>1
  <2>3. ~c.shut => v = SampleNo[a + (m + 1)]
    BY <1>4, <1>5, <2>2 DEF SampleNo
  <2>4. /\ Follows(Put(c, v).buf, SampleNo, a)
        /\ ~c.shut => m2 = m + 1
        /\ Put(c, v).shut <=> c.shut
    <3>1. c \in ChannelOf(Samples) /\ a \in Nat
      BY <1>4, <1>5
    <3> HIDE DEF a, v
    <3> QED
      BY <3>1, <2>0, <2>3, FollowsPut
  <2>5. Len(feeder') = 0
    BY <1>1
  <2>6. ~Put(c, v).shut => a + m2 + 0 = submitted
    <3> HIDE DEF a, m, m2, c, v
    <3> QED
      BY <1>5, <2>2, <2>4
  <2>7. ~chan'["raw"].shut =>
            Before(Cut)' + Len(window') + Len(chan'["raw"].buf) + Len(feeder')
              = submitted'
    BY <1>1, <1>2, <1>3, <2>5, <2>6
  <2>8. Follows(chan'["raw"].buf, SampleNo, Before(Cut)' + Len(window'))
    BY <1>1, <1>2, <1>3, <2>4
  <2> QED
    BY <1>1, <1>2, <1>3, <1>6, <2>7, <2>8 DEF OrderInv, SamplesInv
<1>7. SamplesInv'
  BY <1>2, <1>6 DEF SamplesInv
<1> QED
  BY <1>3, <1>7 DEF OrderInv

LEMMA IdleOrder ==
    ASSUME OrderInv,
           (\E s \in Stages : TestRunning(s) \/ LeaveLoop(s)) \/ Finished
                \/ UNCHANGED vars
    PROVE  OrderInv'
<1>1. UNCHANGED <<chan, window, windowId, engineReady, hand, feeder, submitted,
                  reported>>
  BY DEF TestRunning, LeaveLoop, WorkerFrame, feederVars, Finished, vars, workerVars
<1> QED
  BY <1>1, ResultsKept, WindowsKept, SamplesKept DEF OrderInv

LEMMA NextOrder ==
    ASSUME TypeInv, TypeInv', OrderInv, [Next]_vars
    PROVE  OrderInv'
<1>1. CASE PreStep
  BY <1>1, IdleOrder, CollectOrder, HandOnWindowOrder DEF PreStep, Stages
<1>2. CASE InfStep
  BY <1>2, IdleOrder, InferOrder, HandOnResultOrder DEF InfStep, Stages
<1>3. CASE PostStep
  BY <1>3, IdleOrder, TakeResultOrder, ReportOrder DEF PostStep, Stages
<1>4. CASE Start \/ Stop \/ Destroy \/ OwnerStep
  BY <1>4, OwnerOrder
<1>5. CASE Submit \/ SubmitReturn
  BY <1>5, SubmitOrder, SubmitReturnOrder
<1>6. CASE Finished \/ UNCHANGED vars
  BY <1>6, IdleOrder
<1> QED
  BY <1>1, <1>2, <1>3, <1>4, <1>5, <1>6 DEF Next

LEMMA OrderAlways == Spec => []OrderInv
<1>1. Init => OrderInv
  BY InitOrder
<1>2. TypeInv /\ TypeInv' /\ OrderInv /\ [Next]_vars => OrderInv'
  BY NextOrder
<1> QED
  BY <1>1, <1>2, TypesAlways, PTL DEF Spec

\* The k-th result of the stream carries the samples of the k-th window.
LEMMA ResultIsWindow ==
    ASSUME NEW k \in Nat, k > 0, ResultNo[k] \in Results
    PROVE  /\ ResultNo[k].id = k
           /\ ResultNo[k].samples =
                  SubSeq(Ordinals, (k - 1) * WindowLength + 1, k * WindowLength)
<1> DEFINE b == (k - 1) * WindowLength
           w == SubSeq(Ordinals, b + 1, k * WindowLength)
<1>1. ResultNo[k].id = k /\ ResultNo[k].samples = WindowNo[k]
  BY DEF ResultNo
<1>2. b \in Nat /\ k * WindowLength = b + WindowLength /\ WindowLength \in Nat
  <2>1. Before(k) \in Nat /\ Before(k + 1) = Before(k) + WindowLength
    BY OneMoreWindow
  <2> QED
    BY <2>1 DEF Before
<1>3. WindowNo[k] = [i \in 1..WindowLength |-> b + i]
  BY DEF WindowNo, Before
<1>4. WindowNo[k] \in [1..WindowLength -> 1..MaxSamples]
  BY <1>1 DEF Results, Windows, Samples
<1> HIDE DEF b
<1>5. ASSUME NEW i \in 1..WindowLength PROVE b + i \in 1..MaxSamples
  BY <1>3, <1>4
<1>6. w = [i \in 1..WindowLength |-> Ordinals[(b + 1) + i - 1]]
  BY <1>2 DEF Ordinals, Samples
<1>7. ASSUME NEW i \in 1..WindowLength PROVE Ordinals[(b + 1) + i - 1] = b + i
  BY <1>2, <1>5 DEF Ordinals, Samples
<1>8. w = WindowNo[k]
  BY <1>3, <1>6, <1>7
<1> QED
  BY <1>1, <1>8 DEF b

(* The k-th result passed to the callback is the k-th window, and has the   *)
(* number k, for every capacity and window length, whatever stop drops on   *)
(* the way and however often the pipeline is started again                  *)
(* (pipeline.cpp:54, :70).                                                  *)
THEOREM ResultsInOrder == Spec => []ReportedInOrder
<1>1. ASSUME TypeInv, OrderInv, NEW k \in DOMAIN reported
      PROVE  /\ reported[k].id = k
             /\ reported[k].samples =
                    SubSeq(Ordinals, (k - 1) * WindowLength + 1, k * WindowLength)
  <2>1. k \in 1..Len(reported) /\ k \in Nat /\ k > 0 /\ reported[k] \in Results
    BY <1>1 DEF TypeInv, TypeOK
  <2>2. reported[k] = ResultNo[0 + k] /\ 0 + k = k
    BY <1>1, <2>1 DEF OrderInv, ResultsInv, Follows
  <2> QED
    BY <2>1, <2>2, ResultIsWindow
<1>2. TypeInv /\ OrderInv => ReportedInOrder
  BY <1>1 DEF ReportedInOrder
<1> QED
  BY <1>2, TypesAlways, OrderAlways, PTL
-----------------------------------------------------------------------------
(* Windows put end to end.                                                  *)

\* The quotient and the remainder of a position.
LEMMA Division ==
    ASSUME NEW n \in Nat, NEW k \in Nat \ {0}
    PROVE  /\ n \div k \in Nat /\ n % k \in 0..(k - 1)
           /\ n = (n \div k) * k + (n % k)
OBVIOUS

LEMMA QuotientBelow ==
    ASSUME NEW q \in Nat, NEW r \in Nat, NEW m \in Nat, NEW k \in Nat \ {0},
           q * k + r < m * k
    PROVE  q < m
<1> SUFFICES ASSUME m <= q PROVE FALSE
  OBVIOUS
<1>1. PICK d \in Nat : q = m + d
  <2>1. q - m \in Nat /\ q = m + (q - m)
    OBVIOUS
  <2> QED
    BY <2>1
<1>2. d * k \in Nat /\ m * k \in Nat
  OBVIOUS
<1>3. q * k = m * k + d * k
  BY <1>1
<1>4. q * k >= m * k
  BY <1>2, <1>3
<1> QED
  BY <1>2, <1>3, <1>4

\* Consecutive windows put end to end are consecutive samples.
LEMMA JoinedFollows ==
    ASSUME NEW ws, Len(ws) \in Nat, NEW b \in Nat, Follows(ws, WindowNo, b)
    PROVE  /\ Joined(ws) \in Seq(Nat)
           /\ Len(Joined(ws)) = Len(ws) * WindowLength
           /\ Follows(Joined(ws), SampleNo, b * WindowLength)
<1> DEFINE m == Len(ws)
           n == m * WindowLength
           q(i) == (i - 1) \div WindowLength
           r(i) == (i - 1) % WindowLength
<1>1. n \in Nat /\ b * WindowLength \in Nat
  OBVIOUS
<1>2. ASSUME NEW i \in 1..n
      PROVE  ws[q(i) + 1][r(i) + 1] = b * WindowLength + i
  <2>1. i - 1 \in Nat /\ i - 1 < n
    BY <1>1
  <2>2. /\ q(i) \in Nat /\ r(i) \in 0..(WindowLength - 1)
        /\ i - 1 = q(i) * WindowLength + r(i)
    BY <2>1, Division
  <2>3. q(i) < m
    <3> HIDE DEF q, r, n
    <3>1. q(i) * WindowLength + r(i) < m * WindowLength
      BY <2>1, <2>2 DEF n
    <3> HIDE DEF m
    <3> QED
      BY <2>2, <3>1, QuotientBelow DEF m
  <2> HIDE DEF q, r
  <2>4. q(i) + 1 \in 1..m /\ b + (q(i) + 1) \in Nat /\ r(i) + 1 \in 1..WindowLength
    BY <2>2, <2>3
  <2>5. ws[q(i) + 1] = WindowNo[b + (q(i) + 1)]
    BY <2>4 DEF Follows
  <2>6. ws[q(i) + 1][r(i) + 1] = Before(b + (q(i) + 1)) + (r(i) + 1)
    BY <2>4, <2>5 DEF WindowNo
  <2>7. Before(b + (q(i) + 1)) = b * WindowLength + q(i) * WindowLength
    <3>1. (b + (q(i) + 1)) - 1 = b + q(i)
      BY <2>2
    <3>2. (b + q(i)) * WindowLength = b * WindowLength + q(i) * WindowLength
      BY <2>2
    <3> QED
      BY <3>1, <3>2 DEF Before
  <2>8. q(i) * WindowLength \in Nat
    BY <2>2
  <2>9. (b * WindowLength + q(i) * WindowLength) + (r(i) + 1) = b * WindowLength + i
    <3> DEFINE x == b * WindowLength
               y == q(i) * WindowLength
    <3>1. x \in Nat /\ y \in Nat /\ r(i) \in Nat /\ i - 1 = y + r(i)
      BY <1>1, <2>2, <2>8
    <3> HIDE DEF x, y
    <3>2. (x + y) + (r(i) + 1) = x + i
      BY <3>1
    <3> QED
      BY <3>2 DEF x, y
  <2> QED
    BY <2>6, <2>7, <2>9
<1>3. Joined(ws) = [i \in 1..n |-> ws[q(i) + 1][r(i) + 1]]
  BY DEF Joined
<1> HIDE DEF n, q, r
<1>4. Joined(ws) = [i \in 1..n |-> b * WindowLength + i]
  BY <1>2, <1>3
<1>5. Joined(ws) \in Seq(Nat) /\ Len(Joined(ws)) = n
  BY <1>1, <1>4
<1>6. \A i \in 1..n : Joined(ws)[i] = SampleNo[b * WindowLength + i]
  BY <1>1, <1>4 DEF SampleNo
<1> QED
  BY <1>5, <1>6 DEF Follows, n

\* The samples of consecutive results.
LEMMA SamplesFollow ==
    ASSUME NEW rs \in Seq(Results), NEW b \in Nat, Follows(rs, ResultNo, b)
    PROVE  /\ SamplesOf(rs) \in Seq(Nat)
           /\ Len(SamplesOf(rs)) = Len(rs) * WindowLength
           /\ Follows(SamplesOf(rs), SampleNo, b * WindowLength)
<1> DEFINE ws == [i \in DOMAIN rs |-> rs[i].samples]
<1>1. DOMAIN rs = 1..Len(rs) /\ Len(rs) \in Nat
  OBVIOUS
<1>2. ws = [i \in 1..Len(rs) |-> rs[i].samples]
  BY <1>1
<1>3. Len(ws) = Len(rs)
  BY <1>1, <1>2
<1>4. ASSUME NEW i \in 1..Len(rs) PROVE ws[i] = WindowNo[b + i]
  <2>1. rs[i] = ResultNo[b + i] /\ b + i \in Nat
    BY <1>1 DEF Follows
  <2> QED
    BY <1>2, <2>1 DEF ResultNo
<1> HIDE DEF ws
<1>5. Follows(ws, WindowNo, b)
  BY <1>3, <1>4 DEF Follows
<1> QED
  BY <1>1, <1>3, <1>5, JoinedFollows DEF SamplesOf, ws
-----------------------------------------------------------------------------
(* Closing.  stop closes the queues from the front to the back.             *)

CloseOrder ==
    /\ chan["result"].shut => chan["tensor"].shut
    /\ \A k \in 1..Len(todo) :
          todo[k] = <<"close", "result">> =>
              chan["tensor"].shut
                \/ (k > 1 /\ todo[k - 1] = <<"close", "tensor">>)

\* While the raw queue is open, each sample submitted is accepted or with the
\* feeder.
AcceptInv == ~chan["raw"].shut => accepted + Len(feeder) = submitted

\* Windows reach the results one by one.
DoneInv ==
    Len(reported) + Len(hand["post"]) + Len(chan["result"].buf)
        + Len(hand["inf"]) <= windowId

CloseInv == CloseOrder /\ AcceptInv /\ DoneInv

LEMMA InitClose == Init => CloseInv
<1> SUFFICES ASSUME Init PROVE CloseInv
  OBVIOUS
<1>1. \A q \in Queues : chan[q].buf = <<>> /\ chan[q].shut = FALSE
  BY DEF Init, NewChannel
<1>2. todo = <<>> /\ Len(todo) = 0
  BY DEF Init
<1>3. CloseOrder
  BY <1>1, <1>2 DEF CloseOrder, Queues
<1>4. AcceptInv
  BY DEF Init, AcceptInv
<1>5. DoneInv
  BY <1>1 DEF Init, DoneInv, Queues, Stages
<1> QED
  BY <1>3, <1>4, <1>5 DEF CloseInv

\* What the close order does not depend on.
LEMMA CloseOrderKept ==
    ASSUME CloseOrder, UNCHANGED todo,
           chan'["tensor"].shut = chan["tensor"].shut,
           chan'["result"].shut = chan["result"].shut
    PROVE  CloseOrder'
BY DEF CloseOrder

\* The head of the list is done; what is left was there before.
LEMMA CloseOrderTail ==
    ASSUME ThreadInv, CloseOrder, todo # <<>>, todo' = Tail(todo),
           chan["tensor"].shut => chan'["tensor"].shut,
           Head(todo) = <<"close", "tensor">> => chan'["tensor"].shut,
           chan'["result"].shut =>
                chan["result"].shut \/ Head(todo) = <<"close", "result">>
    PROVE  CloseOrder'
<1>1. todo \in Seq(Calls) /\ Len(todo) \in Nat
  BY DEF ThreadInv
<1>2. Len(todo') = Len(todo) - 1 /\ Head(todo) = todo[1] /\ 1 \in 1..Len(todo)
  BY <1>1
<1>3. \A k \in 1..Len(todo') : todo'[k] = todo[k + 1] /\ k + 1 \in 1..Len(todo)
  BY <1>1, <1>2
<1>4. chan'["result"].shut => chan'["tensor"].shut
  BY <1>2 DEF CloseOrder
<1>5. ASSUME NEW k \in 1..Len(todo'), todo'[k] = <<"close", "result">>
      PROVE  chan'["tensor"].shut
                \/ (k > 1 /\ todo'[k - 1] = <<"close", "tensor">>)
  <2>1. chan["tensor"].shut \/ todo[(k + 1) - 1] = <<"close", "tensor">>
    BY <1>3, <1>5 DEF CloseOrder
  <2>2. (k + 1) - 1 = k
    BY <1>1, <1>2
  <2>3. CASE k = 1
    BY <1>2, <2>1, <2>2, <2>3
  <2>4. CASE k > 1
    <3>1. k - 1 \in 1..Len(todo') /\ (k - 1) + 1 = k
      BY <1>1, <1>2, <2>4
    <3>2. todo'[k - 1] = todo[k]
      BY <1>3, <3>1
    <3> QED
      BY <2>1, <2>2, <2>4, <3>2
  <2> QED
    BY <2>3, <2>4
<1> QED
  BY <1>4, <1>5 DEF CloseOrder

LEMMA OwnerCloseOrder ==
    ASSUME TypeInv, CloseOrder, Start \/ Stop \/ Destroy \/ OwnerStep
    PROVE  CloseOrder'
<1>1. DOMAIN chan = Queues /\ ThreadInv
  BY DEF TypeInv, TypeOK
<1>2. CASE Start
  BY <1>2 DEF Start, OwnerCall, StartCalls, CloseOrder
<1>3. CASE Stop
  BY <1>3 DEF Stop, OwnerCall, StopCalls, CloseOrder
<1>4. CASE Destroy
  BY <1>4 DEF Destroy, OwnerCall, StopCalls, Gone, CloseOrder
<1>5. ASSUME NEW q \in Queues, CloseQueue(q) PROVE CloseOrder'
  <2>1. /\ todo # <<>> /\ Head(todo) = <<"close", q>> /\ todo' = Tail(todo)
        /\ chan' = [chan EXCEPT ![q] = Shut(@)]
    BY <1>5 DEF CloseQueue, Doing
  <2>2. chan'[q].shut /\ \A p \in Queues \ {q} : chan'[p] = chan[p]
    BY <1>1, <2>1 DEF Shut
  <2>3. /\ chan["tensor"].shut => chan'["tensor"].shut
        /\ Head(todo) = <<"close", "tensor">> => chan'["tensor"].shut
        /\ chan'["result"].shut =>
                chan["result"].shut \/ Head(todo) = <<"close", "result">>
    BY <2>1, <2>2 DEF Queues
  <2> QED
    BY <1>1, <2>1, <2>3, CloseOrderTail
<1>6. ASSUME NEW s \in Stages, StartWorker(s) \/ JoinWorker(s) PROVE CloseOrder'
  <2>1. /\ todo # <<>> /\ Head(todo)[1] \in {"start", "join"}
        /\ todo' = Tail(todo) /\ UNCHANGED chan
    BY <1>6 DEF StartWorker, JoinWorker, Doing
  <2> QED
    BY <1>1, <2>1, CloseOrderTail
<1>7. ASSUME NEW s \in Stages, StopWorker(s) PROVE CloseOrder'
  <2>1. /\ todo # <<>> /\ Head(todo) = <<"stop", s>> /\ UNCHANGED chan
        /\ todo' = (IF running[s] THEN << <<"join", s>> >> ELSE <<>>) \o Tail(todo)
    BY <1>7 DEF StopWorker, Doing
  <2>2. todo \in Seq(Calls) /\ Len(todo) \in Nat /\ Tail(todo) \in Seq(Calls)
    BY <1>1, <2>1 DEF ThreadInv
  <2>3. CASE ~running[s]
    <3>1. todo' = Tail(todo)
      BY <2>1, <2>2, <2>3
    <3> QED
      BY <1>1, <2>1, <3>1, CloseOrderTail
  <2>4. CASE running[s]
    <3>1. todo' = << <<"join", s>> >> \o Tail(todo)
      BY <2>1, <2>4
    <3>2. /\ Len(todo') = Len(todo) /\ todo'[1] = <<"join", s>>
          /\ todo[1] = <<"stop", s>>
          /\ \A k \in 1..Len(todo) : k > 1 => todo'[k] = todo[k]
      BY <2>1, <2>2, <3>1
    <3>3. ASSUME NEW k \in 1..Len(todo'), todo'[k] = <<"close", "result">>
          PROVE  chan'["tensor"].shut
                    \/ (k > 1 /\ todo'[k - 1] = <<"close", "tensor">>)
      <4>1. k > 1 /\ k \in 1..Len(todo) /\ todo[k] = <<"close", "result">>
        BY <2>2, <3>2, <3>3
      <4>2. CASE k - 1 = 1
        BY <2>1, <3>2, <4>1, <4>2 DEF CloseOrder
      <4>3. CASE k - 1 > 1
        <5>1. k - 1 \in 1..Len(todo)
          BY <2>2, <4>1, <4>3
        <5> QED
          BY <2>1, <3>2, <4>1, <4>3, <5>1 DEF CloseOrder
      <4> QED
        BY <2>2, <4>1, <4>2, <4>3
    <3> QED
      BY <2>1, <3>3 DEF CloseOrder
  <2> QED
    BY <2>3, <2>4
<1> QED
  BY <1>2, <1>3, <1>4, <1>5, <1>6, <1>7 DEF OwnerStep

LEMMA PutShut ==
    ASSUME NEW Items, NEW c \in ChannelOf(Items), NEW v
    PROVE  Put(c, v).shut = c.shut
<1>1. c.shut \in BOOLEAN
  BY DEF ChannelOf
<1>2. CASE c.shut
  BY <1>2 DEF Put
<1>3. CASE ~c.shut
  <2>1. Put(c, v) = [buf |-> Append(c.buf, v), shut |-> FALSE]
    BY <1>3 DEF Put
  <2>2. Put(c, v).shut = FALSE /\ c.shut = FALSE
    BY <1>1, <1>3, <2>1
  <2> QED
    BY <2>2
<1> QED
  BY <1>2, <1>3

\* A worker moves items: it closes nothing and has no part in submitting.
LEMMA WorkerClose ==
    ASSUME TypeInv, CloseOrder, AcceptInv, PreStep \/ InfStep \/ PostStep
    PROVE  CloseOrder' /\ AcceptInv'
<1>1. UNCHANGED <<todo, feeder, submitted, accepted>>
  BY DEF PreStep, InfStep, PostStep, TestRunning, LeaveLoop, CollectSample,
         HandOn, Infer, TakeResult, Report, WorkerFrame, feederVars
<1>2. DOMAIN chan = Queues /\ \A q \in Queues : chan[q].shut \in BOOLEAN
  BY DEF TypeInv, TypeOK, ChannelOf, Queues
<1>3. ASSUME NEW s \in Stages, Pop(s) PROVE \A q \in Queues : chan'[q].shut = chan[q].shut
  BY <1>2, <1>3 DEF Pop, Take
<1>4. ASSUME NEW s \in Stages, HandOn(s) PROVE \A q \in Queues : chan'[q].shut = chan[q].shut
  <2>1. chan' = [chan EXCEPT ![Output[s]] = Put(@, hand[s][1])]
    BY <1>4 DEF HandOn
  <2>2. ASSUME NEW q \in Queues, NEW v PROVE Put(chan[q], v).shut = chan[q].shut
    BY <1>2 DEF Put
  <2> QED
    BY <1>2, <2>1, <2>2
<1>5. \A q \in Queues : chan'[q].shut = chan[q].shut
  BY <1>3, <1>4 DEF PreStep, InfStep, PostStep, TestRunning, LeaveLoop,
     CollectSample, Infer, TakeResult, Report, Stages
<1> QED
  BY <1>1, <1>5, CloseOrderKept DEF AcceptInv, Queues

LEMMA OwnerAccept ==
    ASSUME TypeInv, AcceptInv, Start \/ Stop \/ Destroy \/ OwnerStep
    PROVE  AcceptInv'
<1>1. UNCHANGED <<feeder, submitted, accepted>>
  BY DEF Start, Stop, Destroy, OwnerCall, OwnerStep, CloseQueue, StartWorker,
         StopWorker, JoinWorker, OwnerFrame, feederVars
<1>2. ~chan'["raw"].shut => ~chan["raw"].shut
  <2>1. ASSUME NEW p \in Queues, CloseQueue(p)
        PROVE  ~chan'["raw"].shut => ~chan["raw"].shut
    BY <2>1 DEF CloseQueue, Shut, TypeInv, TypeOK, Queues
  <2>2. CASE UNCHANGED chan
    BY <2>2
  <2> QED
    BY <2>1, <2>2 DEF Start, Stop, Destroy, OwnerCall, OwnerStep, StartWorker,
                      StopWorker, JoinWorker
<1> QED
  BY <1>1, <1>2 DEF AcceptInv

LEMMA FeederClose ==
    ASSUME TypeInv, CloseOrder, AcceptInv, Submit \/ SubmitReturn
    PROVE  CloseOrder' /\ AcceptInv'
<1>0. DOMAIN chan = Queues /\ Len(feeder) \in Nat /\ accepted \in Nat /\ submitted \in Nat
      /\ chan["raw"] \in ChannelOf(Samples)
  BY Lengths DEF TypeInv, TypeOK
<1>1. CASE Submit
  <2>1. /\ feeder = <<>> /\ submitted' = submitted + 1
        /\ feeder' = <<submitted + 1>> /\ UNCHANGED <<chan, todo, accepted>>
    BY <1>1 DEF Submit
  <2>2. AcceptInv'
    BY <1>0, <2>1 DEF AcceptInv
  <2> QED
    BY <2>1, <2>2, CloseOrderKept
<1>2. CASE SubmitReturn
  <2>1. /\ feeder # <<>> /\ feeder' = <<>>
        /\ chan' = [chan EXCEPT !["raw"] = Put(@, feeder[1])]
        /\ accepted' = IF chan["raw"].shut THEN accepted ELSE accepted + 1
        /\ UNCHANGED <<todo, submitted>>
    BY <1>2 DEF SubmitReturn
  <2>2. Len(feeder) = 1 /\ Len(feeder') = 0
    <3>1. AtMostOne(feeder, Samples)
      BY DEF TypeInv, TypeOK
    <3> QED
      BY <2>1, <3>1, FirstItem
  <2>3. chan'["raw"].shut = chan["raw"].shut
    <3>1. chan'["raw"] = Put(chan["raw"], feeder[1])
      BY <1>0, <2>1 DEF Queues
    <3> QED
      BY <1>0, <3>1, PutShut
  <2>4. chan'["tensor"] = chan["tensor"] /\ chan'["result"] = chan["result"]
    BY <1>0, <2>1 DEF Queues
  <2>5. AcceptInv'
    BY <1>0, <2>1, <2>2, <2>3 DEF AcceptInv
  <2> QED
    BY <2>1, <2>4, <2>5, CloseOrderKept
<1> QED
  BY <1>1, <1>2

LEMMA DoneKept ==
    ASSUME DoneInv, UNCHANGED <<reported, windowId>>,
           hand'["post"] = hand["post"], hand'["inf"] = hand["inf"],
           chan'["result"].buf = chan["result"].buf
    PROVE  DoneInv'
BY DEF DoneInv

LEMMA WorkerDone ==
    ASSUME TypeInv, TypeInv', DoneInv, PreStep \/ InfStep \/ PostStep
    PROVE  DoneInv'
<1> DEFINE a == Len(reported)
           p == Len(hand["post"])
           n == Len(chan["result"].buf)
           i == Len(hand["inf"])
           a2 == Len(reported')
           p2 == Len(hand'["post"])
           n2 == Len(chan'["result"].buf)
           i2 == Len(hand'["inf"])
<1>1. DOMAIN chan = Queues /\ DOMAIN hand = Stages
  BY DEF TypeInv, TypeOK
<1>2. /\ a \in Nat /\ p \in Nat /\ n \in Nat /\ i \in Nat /\ windowId \in Nat
      /\ a2 \in Nat /\ p2 \in Nat /\ n2 \in Nat /\ i2 \in Nat /\ windowId' \in Nat
  <2>1. /\ Len(reported) \in Nat /\ Len(hand["post"]) \in Nat
        /\ Len(chan["result"].buf) \in Nat /\ Len(hand["inf"]) \in Nat
        /\ windowId \in Nat
    BY Lengths
  <2>2. /\ Len(reported') \in Nat /\ Len(hand'["post"]) \in Nat
        /\ Len(chan'["result"].buf) \in Nat /\ Len(hand'["inf"]) \in Nat
        /\ windowId' \in Nat
    <3>1. /\ chan'["result"] \in ChannelOf(Results) /\ reported' \in Seq(Results)
          /\ AtMostOne(hand'["post"], Results) /\ AtMostOne(hand'["inf"], Results)
          /\ windowId' \in Nat
      BY DEF TypeInv, TypeOK
    <3>2. Len(chan'["result"].buf) \in Nat
      BY <3>1 DEF ChannelOf
    <3> QED
      BY <3>1, <3>2, AtMostOneItem
  <2> QED
    BY <2>1, <2>2
<1>3. a + p + n + i <= windowId
  BY DEF DoneInv
<1>4. CASE PreStep
  <2>1. UNCHANGED <<reported, windowId>>
    BY <1>4 DEF PreStep, TestRunning, LeaveLoop, CollectSample, HandOn
  <2>2. hand'["post"] = hand["post"] /\ hand'["inf"] = hand["inf"]
    BY <1>1, <1>4 DEF PreStep, TestRunning, LeaveLoop, CollectSample, HandOn, Stages
  <2>3. chan'["result"] = chan["result"]
    BY <1>1, <1>4 DEF PreStep, TestRunning, LeaveLoop, CollectSample, HandOn, Pop,
       Input, Output, Queues
  <2> QED
    BY <2>1, <2>2, <2>3, DoneKept
<1>5. ASSUME NEW s \in Stages, TestRunning(s) \/ LeaveLoop(s) PROVE DoneInv'
  <2>1. UNCHANGED <<chan, hand, reported, windowId>>
    BY <1>5 DEF TestRunning, LeaveLoop
  <2> QED
    BY <2>1, DoneKept
<1>6. CASE Infer
  <2>1. /\ reported' = reported /\ windowId' = windowId + 1
        /\ hand["inf"] = <<>> /\ chan' = [chan EXCEPT !["tensor"] = Take(@)]
        /\ hand'["post"] = hand["post"] /\ Len(hand'["inf"]) = 1
    BY <1>1, <1>6, InferEffect DEF Stages
  <2>2. a2 = a /\ p2 = p /\ n2 = n /\ i = 0 /\ i2 = 1
    BY <1>1, <2>1 DEF Queues
  <2> HIDE DEF a, p, n, i, a2, p2, n2, i2
  <2>3. a2 + p2 + n2 + i2 <= windowId'
    BY <1>2, <1>3, <2>1, <2>2
  <2> QED
    BY <2>3 DEF DoneInv, a2, p2, n2, i2
<1>7. CASE HandOn("inf")
  <2>1. /\ place["inf"] = "push" /\ PushReady(chan["result"], QueueCapacity)
        /\ chan' = [chan EXCEPT !["result"] = Put(@, hand["inf"][1])]
        /\ hand' = [hand EXCEPT !["inf"] = <<>>]
        /\ UNCHANGED <<windowId, reported>>
    BY <1>7 DEF HandOn, Move, Output
  <2>2. i = 1 /\ i2 = 0 /\ p2 = p /\ a2 = a
    BY <1>1, <2>1 DEF TypeInv, HandsOK, Holding, Stages
  <2>3. n2 = n \/ n2 = n + 1
    <3>1. chan["result"] \in ChannelOf(Results) /\ n <= QueueCapacity
      BY DEF TypeInv, TypeOK, Queues
    <3>2. hand["inf"][1] \in Results
      <4>1. AtMostOne(hand["inf"], Results)
        BY DEF TypeInv, TypeOK
      <4> QED
        BY <2>2, <4>1, FirstItem
    <3>3. chan'["result"] = Put(chan["result"], hand["inf"][1])
      BY <1>1, <2>1 DEF Queues
    <3> QED
      BY <2>1, <3>1, <3>2, <3>3, PutTyped
  <2> HIDE DEF a, p, n, i, a2, p2, n2, i2
  <2>4. a2 + p2 + n2 + i2 <= windowId'
    BY <1>2, <1>3, <2>1, <2>2, <2>3
  <2> QED
    BY <2>4 DEF DoneInv, a2, p2, n2, i2
<1>8. CASE TakeResult
  <2>1. /\ hand["post"] = <<>> /\ chan["result"].buf # <<>>
        /\ chan' = [chan EXCEPT !["result"] = Take(@)]
        /\ hand' = [hand EXCEPT !["post"] = <<Head(chan["result"].buf)>>]
        /\ UNCHANGED <<windowId, reported>>
    BY <1>8, TakeResultEffect
  <2>2. p = 0 /\ p2 = 1 /\ i2 = i /\ a2 = a
    BY <1>1, <2>1 DEF Stages
  <2>3. n2 + 1 = n
    <3>1. chan["result"] \in ChannelOf(Results) /\ chan'["result"] = Take(chan["result"])
      BY <1>1, <2>1 DEF TypeInv, TypeOK, Queues
    <3>2. Len(Take(chan["result"]).buf) = n - 1
      BY <2>1, <3>1, TakeTyped
    <3>3. n2 = n - 1
      BY <3>1, <3>2
    <3> HIDE DEF n, n2
    <3> QED
      BY <1>2, <3>3
  <2>0. windowId' = windowId
    BY <2>1
  <2> HIDE DEF a, p, n, i, a2, p2, n2, i2
  <2>4. a2 + p2 + n2 + i2 <= windowId'
    BY <1>2, <1>3, <2>0, <2>2, <2>3
  <2> QED
    BY <2>4 DEF DoneInv, a2, p2, n2, i2
<1>9. CASE Report
  <2>1. /\ hand' = [hand EXCEPT !["post"] = <<>>]
        /\ reported' = reported \o hand["post"] /\ UNCHANGED <<chan, windowId>>
    BY <1>9 DEF Report
  <2>2. reported \in Seq(Results) /\ hand["post"] \in Seq(Results)
    BY DEF TypeInv, TypeOK, AtMostOne
  <2>3. a2 = a + p /\ p2 = 0 /\ n2 = n /\ i2 = i
    BY <1>1, <2>1, <2>2 DEF Stages
  <2> HIDE DEF a, p, n, i, a2, p2, n2, i2
  <2>4. a2 + p2 + n2 + i2 <= windowId'
    BY <1>2, <1>3, <2>1, <2>3
  <2> QED
    BY <2>4 DEF DoneInv, a2, p2, n2, i2
<1> QED
  BY <1>4, <1>5, <1>6, <1>7, <1>8, <1>9 DEF InfStep, PostStep, Stages

LEMMA ClientDone ==
    ASSUME TypeInv, DoneInv,
           Start \/ Stop \/ Destroy \/ OwnerStep \/ Submit \/ SubmitReturn
    PROVE  DoneInv'
<1>1. UNCHANGED <<reported, windowId, hand>>
  BY DEF Start, Stop, Destroy, OwnerCall, OwnerStep, CloseQueue, StartWorker,
         StopWorker, JoinWorker, OwnerFrame, Submit, SubmitReturn, workerVars
<1>2. DOMAIN chan = Queues
  BY DEF TypeInv, TypeOK
<1>3. ASSUME NEW q \in Queues, CloseQueue(q) PROVE chan'["result"].buf = chan["result"].buf
  BY <1>2, <1>3 DEF CloseQueue, Shut, Queues
<1>4. CASE SubmitReturn
  BY <1>1, <1>2, <1>4, DoneKept DEF SubmitReturn, Queues
<1>5. CASE UNCHANGED chan
  BY <1>1, <1>5, DoneKept
<1> QED
  BY <1>1, <1>3, <1>4, <1>5, DoneKept DEF Start, Stop, Destroy, OwnerCall,
     OwnerStep, StartWorker, StopWorker, JoinWorker, Submit

LEMMA NextClose ==
    ASSUME TypeInv, TypeInv', CloseInv, [Next]_vars
    PROVE  CloseInv'
<1>1. CASE PreStep \/ InfStep \/ PostStep
  BY <1>1, WorkerClose, WorkerDone DEF CloseInv
<1>2. CASE Start \/ Stop \/ Destroy \/ OwnerStep
  BY <1>2, OwnerCloseOrder, OwnerAccept, ClientDone DEF CloseInv
<1>3. CASE Submit \/ SubmitReturn
  BY <1>3, FeederClose, ClientDone DEF CloseInv
<1>4. CASE Finished \/ UNCHANGED vars
  <2>1. UNCHANGED vars
    BY <1>4 DEF Finished
  <2> QED
    BY <2>1 DEF CloseInv, CloseOrder, AcceptInv, DoneInv, vars, workerVars, feederVars
<1> QED
  BY <1>1, <1>2, <1>3, <1>4 DEF Next
-----------------------------------------------------------------------------
(* What waits in front of the inference worker.  A push that a closed queue *)
(* refuses loses a window: d counts them, and the pieces behind the gap     *)
(* still follow each other up to the last sample accepted.                  *)

Held(d) ==
    /\ ~chan["tensor"].shut => d = 0
    /\ Follows(hand["pre"], WindowNo, windowId + Len(chan["tensor"].buf) + d)
    /\ Follows(window, SampleNo, Before(Cut + d))
    /\ Follows(chan["raw"].buf, SampleNo, Before(Cut + d) + Len(window))
    /\ Before(Cut + d) + Len(window) + Len(chan["raw"].buf) = accepted

HeldInv == \E d \in Nat : Held(d)

LEMMA HeldNumbers ==
    ASSUME TypeInv, NEW d \in Nat
    PROVE  /\ Cut + d \in Nat /\ Before(Cut + d) \in Nat
           /\ Before(Cut + d) + Len(window) \in Nat
           /\ Before((Cut + d) + 1) = Before(Cut + d) + WindowLength
           /\ windowId + Len(chan["tensor"].buf) + d \in Nat
           /\ Cut + d = (windowId + Len(chan["tensor"].buf) + d)
                            + (Len(hand["pre"]) + 1)
<1> DEFINE t == Len(chan["tensor"].buf)
           h == Len(hand["pre"])
           n == Len(window)
           c == Cut + d
<1>1. t \in Nat /\ h \in Nat /\ n \in Nat /\ windowId \in Nat
  BY Lengths
<1>2. Cut = windowId + t + h + 1
  BY DEF Cut
<1>3. Cut \in Nat /\ Cut > 0
  BY CutIsNat
<1> HIDE DEF t, h, n, c
<1>4. c \in Nat /\ c > 0 /\ c = (windowId + t + d) + (h + 1) /\ windowId + t + d \in Nat
  BY <1>1, <1>2, <1>3 DEF c
<1>5. Before(c) \in Nat /\ Before(c + 1) = Before(c) + WindowLength
  BY <1>4, OneMoreWindow
<1>6. Before(c) + n \in Nat
  BY <1>1, <1>5
<1> QED
  BY <1>4, <1>5, <1>6 DEF t, h, n, c

LEMMA InitHeld == Init => HeldInv
<1> SUFFICES ASSUME Init PROVE Held(0)
  BY DEF HeldInv
<1>1. /\ Len(chan["raw"].buf) = 0 /\ Len(chan["tensor"].buf) = 0
      /\ Len(hand["pre"]) = 0 /\ Len(window) = 0 /\ windowId = 0 /\ accepted = 0
  BY DEF Init, NewChannel, Queues, Stages
<1>2. Cut + 0 = 1 /\ Before(Cut + 0) = 0
  BY <1>1 DEF Cut, Before
<1> QED
  BY <1>1, <1>2 DEF Held, Follows

LEMMA HeldKept ==
    ASSUME HeldInv, UNCHANGED <<windowId, window, accepted>>,
           hand'["pre"] = hand["pre"], chan'["raw"].buf = chan["raw"].buf,
           chan'["tensor"].buf = chan["tensor"].buf,
           ~chan'["tensor"].shut => ~chan["tensor"].shut
    PROVE  HeldInv'
<1>1. Cut' = Cut
  BY DEF Cut
<1>2. ASSUME NEW d \in Nat, Held(d) PROVE Held(d)'
  BY <1>1, <1>2 DEF Held
<1> QED
  BY <1>2 DEF HeldInv

LEMMA CollectHeld ==
    ASSUME TypeInv, TypeInv', HeldInv, CollectSample
    PROVE  HeldInv'
<1> DEFINE x == Head(chan["raw"].buf)
           w == Append(window, x)
           t == Len(chan["tensor"].buf)
           n == Len(window)
           m == Len(chan["raw"].buf)
           m2 == Len(Take(chan["raw"]).buf)
<1>1. /\ hand["pre"] = <<>> /\ chan["raw"].buf # <<>>
      /\ chan' = [chan EXCEPT !["raw"] = Take(@)]
      /\ UNCHANGED <<windowId, accepted>>
  BY CollectEffect
<1>2. chan'["tensor"] = chan["tensor"] /\ chan'["raw"] = Take(chan["raw"])
  BY <1>1 DEF TypeInv, TypeOK, Queues
<1>3. /\ chan["raw"] \in ChannelOf(Samples) /\ window \in Seq(Samples)
      /\ n \in Nat /\ m \in Nat /\ t \in Nat /\ windowId \in Nat
      /\ accepted \in Nat
  BY Lengths DEF TypeInv, TypeOK
<1>4. PICK d \in Nat : Held(d)
  BY DEF HeldInv
<1> DEFINE b == Before(Cut + d)
<1>5. b \in Nat /\ b + n \in Nat
  BY HeldNumbers
<1>6. Follows(window, SampleNo, b) /\ Follows(chan["raw"].buf, SampleNo, b + n)
      /\ b + n + m = accepted
  BY <1>4 DEF Held
<1>7. /\ x = SampleNo[(b + n) + 1]
      /\ Follows(Take(chan["raw"]).buf, SampleNo, (b + n) + 1)
      /\ m2 \in Nat /\ m2 + 1 = m
  BY <1>1, <1>3, <1>5, <1>6, FollowsTake
<1>8. Follows(w, SampleNo, b) /\ Len(w) = n + 1
  <2>1. (b + n) + 1 = b + (n + 1)
    <3> HIDE DEF b, n
    <3> QED
      BY <1>3, <1>5
  <2> HIDE DEF x, b
  <2> QED
    BY <1>3, <1>5, <1>6, <1>7, <2>1, FollowsAppend
<1>9. (b + n) + 1 = b + Len(w) /\ b + Len(w) + m2 = accepted
  <2> HIDE DEF b, n, m, m2, w
  <2> QED
    BY <1>3, <1>5, <1>6, <1>7, <1>8
<1>10. CASE Len(w) >= WindowLength
  <2>1. hand' = [hand EXCEPT !["pre"] = <<w>>] /\ window' = <<>>
    BY <1>10, CollectCases
  <2>2. hand'["pre"] = <<w>>
    BY <2>1 DEF TypeInv, TypeOK, Stages
  <2>3. Len(w) = WindowLength /\ w \in Windows
    <3>1. Len(w) = WindowLength
      BY <1>3, <1>8, <1>10 DEF TypeInv, TypeOK
    <3>2. hand'["pre"] \in Seq(Windows)
      BY DEF TypeInv, TypeOK, AtMostOne
    <3> QED
      BY <2>2, <3>1, <3>2
  <2>4. Cut' = Cut + 1 /\ Cut \in Nat
    <3>1. Len(hand["pre"]) = 0 /\ Len(hand'["pre"]) = 1
      BY <1>1, <2>2
    <3>2. Cut = windowId + t + 0 + 1 /\ Cut' = windowId + t + 1 + 1
      BY <1>1, <1>2, <3>1 DEF Cut
    <3> HIDE DEF t
    <3> QED
      BY <1>3, <3>2
  <2>5. Cut' + d = (Cut + d) + 1 /\ Cut + d \in Nat /\ Cut + d > 0
    <3>1. Cut > 0
      BY CutIsNat
    <3> QED
      BY <2>4, <3>1
  <2>6. Before(Cut' + d) = b + WindowLength
    BY <2>5, HeldNumbers
  <2>7. Follows(hand'["pre"], WindowNo, windowId' + Len(chan'["tensor"].buf) + d)
    <3>1. Cut + d = (windowId + t + d) + 1 /\ windowId + t + d \in Nat
      <4>1. Cut + d = (windowId + t + d) + (Len(hand["pre"]) + 1)
            /\ windowId + t + d \in Nat
        BY HeldNumbers
      <4>2. Len(hand["pre"]) + 1 = 1
        BY <1>1
      <4> QED
        BY <4>1, <4>2
    <3>2. w = WindowNo[(windowId + t + d) + 1]
      <4>1. w = WindowNo[Cut + d]
        <5> HIDE DEF w
        <5> QED
          BY <1>8, <2>3, <2>5, PieceIsWindow
      <4> QED
        BY <3>1, <4>1
    <3>3. Follows(<<w>>, WindowNo, windowId + t + d)
      <4> HIDE DEF w, t
      <4> QED
        BY <3>1, <3>2, FollowsOne
    <3> QED
      BY <1>1, <1>2, <2>2, <3>3
  <2>8. Len(window') = 0 /\ Follows(window', SampleNo, Before(Cut' + d))
    BY <2>1, FollowsNone
  <2>9. Before(Cut' + d) + Len(window') = b + Len(w)
    <3> HIDE DEF b, w
    <3> QED
      BY <1>5, <2>3, <2>6, <2>8
  <2>10. Follows(chan'["raw"].buf, SampleNo, Before(Cut' + d) + Len(window'))
    BY <1>2, <1>7, <1>9, <2>9
  <2>11. Before(Cut' + d) + Len(window') + Len(chan'["raw"].buf) = accepted'
    BY <1>1, <1>2, <1>9, <2>9
  <2>12. ~chan'["tensor"].shut => d = 0
    BY <1>2, <1>4 DEF Held
  <2> QED
    BY <2>7, <2>8, <2>10, <2>11, <2>12 DEF Held, HeldInv
<1>11. CASE ~(Len(w) >= WindowLength)
  <2>1. hand' = hand /\ window' = w
    BY <1>11, CollectCases
  <2>2. Cut' = Cut
    BY <1>1, <1>2, <2>1 DEF Cut
  <2>3. Before(Cut' + d) = b
    BY <2>2
  <2>4. Held(d)'
    BY <1>1, <1>2, <1>4, <1>7, <1>8, <1>9, <2>1, <2>3 DEF Held
  <2> QED
    BY <2>4 DEF HeldInv
<1> QED
  BY <1>10, <1>11

\* The inference worker takes the oldest window and gives it its number.
LEMMA InferHeld ==
    ASSUME TypeInv, HeldInv, Infer
    PROVE  HeldInv'
<1> DEFINE t == Len(chan["tensor"].buf)
           t2 == Len(Take(chan["tensor"]).buf)
           h == Len(hand["pre"])
<1>1. /\ chan["tensor"].buf # <<>> /\ windowId' = windowId + 1
      /\ chan' = [chan EXCEPT !["tensor"] = Take(@)]
      /\ UNCHANGED <<window, accepted>>
  BY InferEffect
<1>2. /\ chan'["raw"] = chan["raw"] /\ chan'["tensor"] = Take(chan["tensor"])
      /\ hand'["pre"] = hand["pre"]
  BY <1>1, InferEffect DEF TypeInv, TypeOK, Queues, Stages
<1>3. PICK d \in Nat : Held(d)
  BY DEF HeldInv
<1>4. t2 = t - 1 /\ t \in Nat /\ h \in Nat /\ windowId \in Nat
      /\ Take(chan["tensor"]).shut = chan["tensor"].shut
  <2>1. chan["tensor"] \in ChannelOf(Windows)
    BY DEF TypeInv, TypeOK
  <2> QED
    BY <1>1, <2>1, TakeTyped, Lengths
<1>5. Cut = windowId + t + h + 1 /\ Cut' = windowId' + t2 + h + 1
  BY <1>2 DEF Cut
<1>6. windowId' + t2 = windowId + t /\ Cut' = Cut
  <2> HIDE DEF t, t2, h
  <2> QED
    BY <1>1, <1>4, <1>5
<1>7. Held(d)'
  BY <1>1, <1>2, <1>3, <1>4, <1>6 DEF Held
<1> QED
  BY <1>7 DEF HeldInv

\* A window that is pushed is behind the others; one that is refused is gone.
LEMMA HandOnWindowHeld ==
    ASSUME TypeInv, HeldInv, HandOn("pre")
    PROVE  HeldInv'
<1> DEFINE c == chan["tensor"]
           v == hand["pre"][1]
           t == Len(c.buf)
           t2 == Len(Put(c, v).buf)
<1>1. /\ place["pre"] = "push" /\ PushReady(c, QueueCapacity)
      /\ chan' = [chan EXCEPT !["tensor"] = Put(@, v)]
      /\ hand' = [hand EXCEPT !["pre"] = <<>>]
      /\ UNCHANGED <<window, windowId, accepted>>
  BY DEF HandOn, Move, Output, WorkerFrame, feederVars
<1>2. /\ chan'["raw"] = chan["raw"] /\ chan'["tensor"] = Put(c, v)
      /\ hand'["pre"] = <<>> /\ Len(hand["pre"]) = 1 /\ Len(hand'["pre"]) = 0
  BY <1>1 DEF TypeInv, TypeOK, HandsOK, Holding, Queues, Stages
<1>3. PICK d \in Nat : Held(d)
  BY DEF HeldInv
<1>4. /\ Put(c, v).shut = c.shut
      /\ c.shut => t2 = t
      /\ ~c.shut => t2 = t + 1
  <2>1. c \in ChannelOf(Windows) /\ t <= QueueCapacity /\ AtMostOne(hand["pre"], Windows)
    BY DEF TypeInv, TypeOK, Queues
  <2>2. v \in Windows
    BY <1>2, <2>1, FirstItem
  <2> HIDE DEF v
  <2> QED
    BY <1>1, <2>1, <2>2, PutTyped
<1>5. /\ Cut = windowId + t + 1 + 1 /\ Cut' = windowId + t2 + 0 + 1
      /\ t \in Nat /\ windowId \in Nat
  BY <1>1, <1>2, Lengths DEF Cut
<1>6. /\ Follows(window, SampleNo, Before(Cut + d))
      /\ Follows(chan["raw"].buf, SampleNo, Before(Cut + d) + Len(window))
      /\ Before(Cut + d) + Len(window) + Len(chan["raw"].buf) = accepted
      /\ ~c.shut => d = 0
  BY <1>3 DEF Held
<1>7. ASSUME NEW e \in Nat, Cut' + e = Cut + d, ~c.shut => e = 0 PROVE HeldInv'
  <2>1. Follows(hand'["pre"], WindowNo, windowId' + Len(chan'["tensor"].buf) + e)
    BY <1>2, FollowsNone
  <2>2. Held(e)'
    BY <1>1, <1>2, <1>4, <1>6, <1>7, <2>1 DEF Held
  <2> QED
    BY <2>2 DEF HeldInv
<1>8. CASE ~c.shut
  <2>1. Cut' + d = Cut + d
    <3> HIDE DEF t, t2, c
    <3> QED
      BY <1>4, <1>5, <1>8
  <2> QED
    BY <1>6, <1>7, <2>1
<1>9. CASE c.shut
  <2>1. Cut' + (d + 1) = Cut + d /\ d + 1 \in Nat
    <3> HIDE DEF t, t2, c
    <3> QED
      BY <1>4, <1>5, <1>9
  <2> HIDE DEF c
  <2> QED
    BY <1>7, <1>9, <2>1
<1> QED
  BY <1>8, <1>9

\* What submit pushes is the sample after the last one accepted.
LEMMA SubmitReturnHeld ==
    ASSUME TypeInv, AcceptInv, HeldInv, SubmitReturn
    PROVE  HeldInv'
<1> DEFINE c == chan["raw"]
           v == feeder[1]
           m == Len(c.buf)
           m2 == Len(Put(c, v).buf)
<1>1. /\ feeder # <<>> /\ PushReady(c, QueueCapacity)
      /\ chan' = [chan EXCEPT !["raw"] = Put(@, v)]
      /\ accepted' = IF c.shut THEN accepted ELSE accepted + 1
      /\ UNCHANGED <<window, windowId, hand>>
  BY DEF SubmitReturn, workerVars
<1>2. chan'["tensor"] = chan["tensor"] /\ chan'["raw"] = Put(c, v)
  BY <1>1 DEF TypeInv, TypeOK, Queues
<1>3. /\ Len(feeder) = 1 /\ v = submitted /\ v \in Samples
      /\ c \in ChannelOf(Samples) /\ m <= QueueCapacity
  <2>1. AtMostOne(feeder, Samples) /\ c \in ChannelOf(Samples) /\ m <= QueueCapacity
    BY DEF TypeInv, TypeOK, Queues
  <2>2. Len(feeder) = 1 /\ v \in Samples
    BY <1>1, <2>1, FirstItem
  <2> QED
    BY <2>1, <2>2 DEF TypeInv, HandsOK
<1>4. PICK d \in Nat : Held(d)
  BY DEF HeldInv
<1> DEFINE a == Before(Cut + d) + Len(window)
<1>5. a \in Nat /\ m \in Nat /\ accepted \in Nat /\ submitted \in Nat
  <2>1. a \in Nat /\ m \in Nat /\ submitted \in Nat
    BY HeldNumbers, Lengths
  <2>2. accepted \in Nat
    BY DEF TypeInv, TypeOK
  <2> QED
    BY <2>1, <2>2
<1>6. Follows(c.buf, SampleNo, a) /\ a + m = accepted
  BY <1>4 DEF Held
<1>7. ~c.shut => v = SampleNo[a + (m + 1)]
  <2>1. ~c.shut => accepted + 1 = submitted
    BY <1>3 DEF AcceptInv
  <2>2. a + (m + 1) = accepted + 1 /\ accepted + 1 \in Nat
    <3> HIDE DEF a, m
    <3> QED
      BY <1>5, <1>6
  <2> QED
    BY <1>3, <2>1, <2>2 DEF SampleNo
<1>8. /\ Follows(Put(c, v).buf, SampleNo, a)
      /\ c.shut => m2 = m
      /\ ~c.shut => m2 = m + 1
  <2>1. Follows(Put(c, v).buf, SampleNo, a)
    <3> HIDE DEF a, v
    <3> QED
      BY <1>3, <1>5, <1>6, <1>7, FollowsPut
  <2>2. (c.shut => m2 = m) /\ (~c.shut => m2 = m + 1)
    <3> HIDE DEF v
    <3> QED
      BY <1>1, <1>3, PutTyped
  <2> QED
    BY <2>1, <2>2
<1>9. a + m2 = accepted'
  <2> HIDE DEF a, m, m2, c
  <2> QED
    BY <1>1, <1>5, <1>6, <1>8
<1>10. Cut' = Cut /\ Before(Cut' + d) + Len(window') = a
  BY <1>1, <1>2 DEF Cut
<1>11. Held(d)'
  BY <1>1, <1>2, <1>4, <1>8, <1>9, <1>10 DEF Held
<1> QED
  BY <1>11 DEF HeldInv

LEMMA NextHeld ==
    ASSUME TypeInv, TypeInv', AcceptInv, HeldInv, [Next]_vars
    PROVE  HeldInv'
<1>0. DOMAIN chan = Queues /\ DOMAIN hand = Stages
  BY DEF TypeInv, TypeOK
<1>1. ASSUME NEW s \in Stages, TestRunning(s) \/ LeaveLoop(s) PROVE HeldInv'
  <2>1. UNCHANGED <<chan, hand, window, windowId, accepted>>
    BY <1>1 DEF TestRunning, LeaveLoop, WorkerFrame, feederVars
  <2> QED
    BY <2>1, HeldKept
<1>2. CASE HandOn("inf")
  <2>1. UNCHANGED <<window, windowId, accepted>>
    BY <1>2 DEF HandOn, WorkerFrame, feederVars
  <2>2. /\ hand'["pre"] = hand["pre"] /\ chan'["raw"] = chan["raw"]
        /\ chan'["tensor"] = chan["tensor"]
    BY <1>0, <1>2 DEF HandOn, Output, Queues, Stages
  <2> QED
    BY <2>1, <2>2, HeldKept
<1>3. CASE TakeResult \/ Report
  <2>1. UNCHANGED <<window, windowId, accepted>>
    BY <1>3 DEF TakeResult, Report, WorkerFrame, feederVars
  <2>2. /\ hand'["pre"] = hand["pre"] /\ chan'["raw"] = chan["raw"]
        /\ chan'["tensor"] = chan["tensor"]
    BY <1>0, <1>3 DEF TakeResult, Report, Pop, Input, Queues, Stages
  <2> QED
    BY <2>1, <2>2, HeldKept
<1>4. CASE PreStep
  BY <1>1, <1>4, CollectHeld, HandOnWindowHeld DEF PreStep, Stages
<1>5. CASE InfStep
  BY <1>1, <1>2, <1>5, InferHeld DEF InfStep, Stages
<1>6. CASE PostStep
  BY <1>1, <1>3, <1>6 DEF PostStep, Stages
<1>7. CASE Start \/ Stop \/ Destroy \/ OwnerStep
  <2>1. UNCHANGED <<window, windowId, hand, accepted>>
    BY <1>7 DEF Start, Stop, Destroy, OwnerCall, OwnerStep, CloseQueue, StartWorker,
           StopWorker, JoinWorker, OwnerFrame, feederVars
  <2>2. /\ chan'["raw"].buf = chan["raw"].buf /\ chan'["tensor"].buf = chan["tensor"].buf
        /\ ~chan'["tensor"].shut => ~chan["tensor"].shut
    <3>1. ASSUME NEW q \in Queues, CloseQueue(q), NEW r \in Queues
          PROVE  chan'[r].buf = chan[r].buf /\ (~chan'[r].shut => ~chan[r].shut)
      BY <1>0, <3>1 DEF CloseQueue, Shut
    <3>2. CASE UNCHANGED chan
      BY <3>2
    <3> QED
      BY <1>7, <3>1, <3>2 DEF Start, Stop, Destroy, OwnerCall, OwnerStep,
                              StartWorker, StopWorker, JoinWorker, Queues
  <2> QED
    BY <2>1, <2>2, HeldKept
<1>8. CASE Submit
  <2>1. UNCHANGED <<chan, hand, window, windowId, accepted>>
    BY <1>8 DEF Submit, workerVars
  <2> QED
    BY <2>1, HeldKept
<1>9. CASE SubmitReturn
  BY <1>9, SubmitReturnHeld
<1>10. CASE Finished \/ UNCHANGED vars
  <2>1. UNCHANGED <<chan, hand, window, windowId, accepted>>
    BY <1>10 DEF Finished, vars, workerVars, feederVars
  <2> QED
    BY <2>1, HeldKept
<1> QED
  BY <1>4, <1>5, <1>6, <1>7, <1>8, <1>9, <1>10 DEF Next

LEMMA StreamAlways == Spec => [](CloseInv /\ HeldInv)
<1>1. Init => CloseInv /\ HeldInv
  BY InitClose, InitHeld
<1>2. TypeInv /\ TypeInv' /\ (CloseInv /\ HeldInv) /\ [Next]_vars
          => (CloseInv /\ HeldInv)'
  BY NextClose, NextHeld DEF CloseInv
<1> QED
  BY <1>1, <1>2, TypesAlways, PTL DEF Spec
-----------------------------------------------------------------------------
(* The stream, piece by piece.                                              *)

\* sq holds the samples b + 1 to e, in order.
Piece(sq, b, e) ==
    /\ sq \in Seq(Nat) /\ b \in Nat /\ e \in Nat
    /\ Follows(sq, SampleNo, b)
    /\ b + Len(sq) = e

LEMMA PieceConcat ==
    ASSUME NEW sq, NEW tq, NEW b, NEW m, NEW e, Piece(sq, b, m), Piece(tq, m, e)
    PROVE  Piece(sq \o tq, b, e)
<1>1. /\ sq \in Seq(Nat) /\ tq \in Seq(Nat) /\ b \in Nat /\ m \in Nat /\ e \in Nat
      /\ b + Len(sq) = m /\ m + Len(tq) = e
      /\ Follows(sq, SampleNo, b) /\ Follows(tq, SampleNo, b + Len(sq))
  BY DEF Piece
<1>2. /\ Follows(sq \o tq, SampleNo, b)
      /\ Len(sq \o tq) = Len(sq) + Len(tq)
  BY <1>1, FollowsConcat
<1>3. Len(sq) \in Nat /\ Len(tq) \in Nat /\ sq \o tq \in Seq(Nat)
  BY <1>1
<1>4. b + Len(sq \o tq) = e
  BY <1>1, <1>2, <1>3
<1> QED
  BY <1>1, <1>2, <1>3, <1>4 DEF Piece

\* sq rises, from above b to e at most.
Rising(sq, b, e) ==
    /\ sq \in Seq(Nat) /\ b \in Nat /\ e \in Nat /\ b <= e
    /\ \A k \in 1..Len(sq) : b < sq[k] /\ sq[k] <= e
    /\ \A j, k \in 1..Len(sq) : j < k => sq[j] < sq[k]

LEMMA PieceRises ==
    ASSUME NEW sq, NEW b, NEW e, Piece(sq, b, e)
    PROVE  Rising(sq, b, e)
<1>1. /\ sq \in Seq(Nat) /\ b \in Nat /\ e \in Nat /\ Len(sq) \in Nat
      /\ b + Len(sq) = e
  BY DEF Piece
<1>2. ASSUME NEW k \in 1..Len(sq) PROVE sq[k] = b + k
  <2>1. sq[k] = SampleNo[b + k] /\ b + k \in Nat
    BY <1>1 DEF Piece, Follows
  <2> QED
    BY <2>1 DEF SampleNo
<1>3. \A k \in 1..Len(sq) : b < sq[k] /\ sq[k] <= e
  BY <1>1, <1>2
<1>4. \A j, k \in 1..Len(sq) : j < k => sq[j] < sq[k]
  BY <1>1, <1>2
<1> QED
  BY <1>1, <1>3, <1>4 DEF Rising

\* Between two rising pieces samples may be missing.
LEMMA RisingConcat ==
    ASSUME NEW sq, NEW tq, NEW b, NEW m, NEW n, NEW e,
           Rising(sq, b, m), Rising(tq, n, e), m <= n
    PROVE  Rising(sq \o tq, b, e)
<1> DEFINE u == sq \o tq
<1>1. /\ sq \in Seq(Nat) /\ tq \in Seq(Nat) /\ Len(sq) \in Nat /\ Len(tq) \in Nat
      /\ b \in Nat /\ m \in Nat /\ n \in Nat /\ e \in Nat
      /\ b <= m /\ n <= e
  BY DEF Rising
<1>2. u \in Seq(Nat) /\ Len(u) = Len(sq) + Len(tq)
  BY <1>1
<1>3. ASSUME NEW k \in 1..Len(u)
      PROVE  \/ k \in 1..Len(sq) /\ u[k] = sq[k]
             \/ k > Len(sq) /\ k - Len(sq) \in 1..Len(tq)
                  /\ u[k] = tq[k - Len(sq)]
  BY <1>1, <1>2
<1> HIDE DEF u
<1>4. \A k \in 1..Len(sq) : b < sq[k] /\ sq[k] <= m /\ sq[k] \in Nat
  BY <1>1 DEF Rising
<1>5. \A k \in 1..Len(tq) : n < tq[k] /\ tq[k] <= e /\ tq[k] \in Nat
  BY <1>1 DEF Rising
<1>6. ASSUME NEW k \in 1..Len(u) PROVE b < u[k] /\ u[k] <= e
  <2>1. CASE k \in 1..Len(sq) /\ u[k] = sq[k]
    BY <1>1, <1>4, <2>1
  <2>2. CASE k - Len(sq) \in 1..Len(tq) /\ u[k] = tq[k - Len(sq)]
    BY <1>1, <1>5, <2>2
  <2> QED
    BY <1>3, <2>1, <2>2
<1>7. ASSUME NEW j \in 1..Len(u), NEW k \in 1..Len(u), j < k PROVE u[j] < u[k]
  <2>1. CASE k \in 1..Len(sq) /\ u[k] = sq[k]
    <3>1. j \in 1..Len(sq) /\ u[j] = sq[j]
      BY <1>1, <1>3, <1>7, <2>1
    <3> QED
      BY <1>7, <2>1, <3>1 DEF Rising
  <2>2. CASE k - Len(sq) \in 1..Len(tq) /\ u[k] = tq[k - Len(sq)]
    <3>1. CASE j \in 1..Len(sq) /\ u[j] = sq[j]
      <4>1. u[j] <= m /\ u[j] \in Nat
        BY <1>4, <3>1
      <4>2. n < u[k] /\ u[k] \in Nat
        BY <1>5, <2>2
      <4>3. m <= n /\ m \in Nat /\ n \in Nat
        BY <1>1
      <4> HIDE DEF u
      <4> QED
        BY <4>1, <4>2, <4>3
    <3>2. CASE j - Len(sq) \in 1..Len(tq) /\ u[j] = tq[j - Len(sq)]
      <4>1. j - Len(sq) < k - Len(sq)
        BY <1>1, <1>2, <1>7
      <4> QED
        BY <2>2, <3>2, <4>1 DEF Rising
    <3> QED
      BY <1>3, <3>1, <3>2
  <2> QED
    BY <1>3, <2>1, <2>2
<1>8. b <= e
  BY <1>1
<1> QED
  BY <1>1, <1>2, <1>6, <1>7, <1>8 DEF Rising, u

LEMMA Scaled ==
    ASSUME NEW j \in Nat, NEW k \in Nat
    PROVE  /\ j * WindowLength \in Nat
           /\ (j + k) * WindowLength = j * WindowLength + k * WindowLength
           /\ j * WindowLength <= (j + k) * WindowLength
<1>1. (j + k) * WindowLength = j * WindowLength + k * WindowLength
  OBVIOUS
<1>2. j * WindowLength \in Nat /\ k * WindowLength \in Nat
  OBVIOUS
<1> DEFINE x == j * WindowLength
           y == k * WindowLength
<1> HIDE DEF x, y
<1>3. x <= x + y
  BY <1>2 DEF x, y
<1> QED
  BY <1>1, <1>2, <1>3 DEF x, y

\* Windows in a row, as a piece of the samples.
LEMMA JoinedPiece ==
    ASSUME NEW ws \in Seq(Windows), NEW b \in Nat, Follows(ws, WindowNo, b)
    PROVE  Piece(Joined(ws), b * WindowLength, (b + Len(ws)) * WindowLength)
<1>1. Len(ws) \in Nat
  OBVIOUS
<1>2. /\ Joined(ws) \in Seq(Nat)
      /\ Len(Joined(ws)) = Len(ws) * WindowLength
      /\ Follows(Joined(ws), SampleNo, b * WindowLength)
  BY <1>1, JoinedFollows
<1>3. /\ b * WindowLength \in Nat /\ (b + Len(ws)) * WindowLength \in Nat
      /\ (b + Len(ws)) * WindowLength = b * WindowLength + Len(ws) * WindowLength
  BY <1>1, Scaled
<1> QED
  BY <1>2, <1>3 DEF Piece

LEMMA ResultsPiece ==
    ASSUME NEW rs \in Seq(Results), NEW b \in Nat, Follows(rs, ResultNo, b)
    PROVE  Piece(SamplesOf(rs), b * WindowLength, (b + Len(rs)) * WindowLength)
<1>1. Len(rs) \in Nat
  OBVIOUS
<1>2. /\ SamplesOf(rs) \in Seq(Nat)
      /\ Len(SamplesOf(rs)) = Len(rs) * WindowLength
      /\ Follows(SamplesOf(rs), SampleNo, b * WindowLength)
  BY SamplesFollow
<1>3. /\ b * WindowLength \in Nat /\ (b + Len(rs)) * WindowLength \in Nat
      /\ (b + Len(rs)) * WindowLength = b * WindowLength + Len(rs) * WindowLength
  BY <1>1, Scaled
<1> QED
  BY <1>2, <1>3 DEF Piece

Out == reported \o hand["post"] \o chan["result"].buf

\* The results in order, the one the inference worker holds apart.
LEMMA ResultPieces ==
    ASSUME TypeInv, OrderInv, CloseInv
    PROVE  \E r, k \in Nat :
              /\ Piece(SamplesOf(Out), 0, r * WindowLength)
              /\ Piece(SamplesOf(hand["inf"]), k * WindowLength, windowId * WindowLength)
              /\ r <= k
              /\ ~chan["tensor"].shut => r = k
<1> DEFINE a == Len(reported)
           p == Len(hand["post"])
           n == Len(chan["result"].buf)
           i == Len(hand["inf"])
<1>1. a \in Nat /\ p \in Nat /\ n \in Nat /\ i \in Nat /\ windowId \in Nat
  BY Lengths
<1>2. /\ reported \in Seq(Results) /\ hand["post"] \in Seq(Results)
      /\ chan["result"].buf \in Seq(Results) /\ hand["inf"] \in Seq(Results)
      /\ i <= 1
  BY DEF TypeInv, TypeOK, AtMostOne, ChannelOf
<1>3. /\ Follows(reported, ResultNo, 0) /\ Follows(hand["post"], ResultNo, a)
      /\ Follows(chan["result"].buf, ResultNo, a + p)
      /\ i > 0 => hand["inf"] = <<ResultNo[windowId]>>
      /\ ~chan["result"].shut => a + p + n + i = windowId
      /\ a + p + n + i <= windowId
      /\ chan["result"].shut => chan["tensor"].shut
  BY DEF OrderInv, ResultsInv, CloseInv, CloseOrder, DoneInv
<1>4. Follows(reported \o hand["post"], ResultNo, 0) /\ Len(reported \o hand["post"]) = a + p
      /\ reported \o hand["post"] \in Seq(Results)
  <2>1. Follows(hand["post"], ResultNo, 0 + a)
    <3>1. 0 + a = a
      <4> HIDE DEF a
      <4> QED
        BY <1>1
    <3> QED
      BY <1>3, <3>1
  <2> QED
    BY <1>2, <1>3, <2>1, FollowsConcat
<1>5. Follows(Out, ResultNo, 0) /\ Len(Out) = a + p + n /\ Out \in Seq(Results)
  <2>1. Follows(chan["result"].buf, ResultNo, 0 + Len(reported \o hand["post"]))
    <3>1. 0 + Len(reported \o hand["post"]) = a + p
      <4> HIDE DEF a, p
      <4> QED
        BY <1>1, <1>4
    <3> QED
      BY <1>3, <3>1
  <2> DEFINE rp == reported \o hand["post"]
             q == chan["result"].buf
  <2>2. /\ rp \in Seq(Results) /\ q \in Seq(Results) /\ Out = rp \o q
        /\ Len(rp) = a + p /\ Len(q) = n
        /\ Follows(rp, ResultNo, 0) /\ Follows(q, ResultNo, 0 + Len(rp))
    BY <1>2, <1>4, <2>1 DEF Out
  <2> HIDE DEF rp, q, a, p, n
  <2>3. Follows(rp \o q, ResultNo, 0) /\ Len(rp \o q) = Len(rp) + Len(q)
    BY <2>2, FollowsConcat
  <2>4. rp \o q \in Seq(Results)
    BY <2>2
  <2> QED
    BY <2>2, <2>3, <2>4
<1>6. Piece(SamplesOf(Out), 0, (a + p + n) * WindowLength)
  <2>1. Piece(SamplesOf(Out), 0 * WindowLength, (0 + Len(Out)) * WindowLength)
    BY <1>5, ResultsPiece
  <2>2. 0 * WindowLength = 0 /\ 0 + Len(Out) = a + p + n
    <3> HIDE DEF a, p, n
    <3> QED
      BY <1>1, <1>5
  <2> QED
    BY <2>1, <2>2
<1> DEFINE k == windowId - i
           r == a + p + n
<1>7. k \in Nat /\ r \in Nat /\ k + i = windowId /\ r <= k
      /\ (~chan["tensor"].shut => r = k)
  <2> HIDE DEF a, p, n, i
  <2> QED
    BY <1>1, <1>3
<1>8. Follows(hand["inf"], ResultNo, k)
  <2>1. CASE i = 0
    BY <2>1 DEF Follows
  <2>2. CASE i = 1
    <3>1. hand["inf"] = <<ResultNo[windowId]>>
      BY <1>3, <2>2
    <3>2. ResultNo[windowId] = ResultNo[k + 1]
      <4> HIDE DEF k, i
      <4> QED
        BY <1>7, <2>2
    <3> HIDE DEF k
    <3> QED
      BY <1>7, <3>1, <3>2, FollowsOne
  <2>3. i = 0 \/ i = 1
    <3> HIDE DEF i
    <3> QED
      BY <1>1, <1>2
  <2> QED
    BY <2>1, <2>2, <2>3
<1>9. Piece(SamplesOf(hand["inf"]), k * WindowLength, windowId * WindowLength)
  <2> HIDE DEF k
  <2>1. Piece(SamplesOf(hand["inf"]), k * WindowLength, (k + Len(hand["inf"])) * WindowLength)
    BY <1>2, <1>7, <1>8, ResultsPiece
  <2> QED
    BY <1>7, <2>1
<1> HIDE DEF k, r
<1>10. Piece(SamplesOf(Out), 0, r * WindowLength)
  BY <1>6 DEF r
<1> QED
  BY <1>7, <1>9, <1>10

LEMMA SamplesAreNats ==
    ASSUME NEW sq \in Seq(Samples)
    PROVE  sq \in Seq(Nat)
<1>1. Len(sq) \in Nat /\ sq \in [1..Len(sq) -> Samples]
  OBVIOUS
<1>2. Samples \subseteq Nat
  BY DEF Samples
<1>3. sq \in [1..Len(sq) -> Nat]
  BY <1>1, <1>2
<1> QED
  BY <1>1, <1>3

\* The windows and the samples that wait, behind a gap of d windows.
LEMMA HeldPieces ==
    ASSUME TypeInv, OrderInv, NEW d \in Nat, Held(d)
    PROVE  LET w == windowId + Len(chan["tensor"].buf)
               x == Before(Cut + d)
               y == Before(Cut + d) + Len(window)
           IN  /\ w \in Nat
               /\ Piece(Joined(chan["tensor"].buf), windowId * WindowLength,
                        w * WindowLength)
               /\ Piece(Joined(hand["pre"]), (w + d) * WindowLength, x)
               /\ Piece(window, x, y)
               /\ Piece(chan["raw"].buf, y, accepted)
<1> DEFINE t == Len(chan["tensor"].buf)
           h == Len(hand["pre"])
           n == Len(window)
           w == windowId + t
           x == Before(Cut + d)
           y == x + n
<1>1. t \in Nat /\ h \in Nat /\ n \in Nat /\ windowId \in Nat /\ w \in Nat
  <2>1. t \in Nat /\ h \in Nat /\ n \in Nat /\ windowId \in Nat
    BY Lengths
  <2> HIDE DEF t
  <2> QED
    BY <2>1
<1>2. /\ chan["tensor"].buf \in Seq(Windows) /\ hand["pre"] \in Seq(Windows)
      /\ window \in Seq(Samples) /\ chan["raw"].buf \in Seq(Samples)
  BY DEF TypeInv, TypeOK, AtMostOne, ChannelOf
<1>3. accepted \in Nat
  BY DEF TypeInv, TypeOK
<1>4. Piece(Joined(chan["tensor"].buf), windowId * WindowLength, w * WindowLength)
  <2>1. Follows(chan["tensor"].buf, WindowNo, windowId)
    BY DEF OrderInv, WindowsInv
  <2> QED
    BY <1>1, <1>2, <2>1, JoinedPiece
<1>5. Piece(Joined(hand["pre"]), (w + d) * WindowLength, x)
  <2>1. Follows(hand["pre"], WindowNo, w + d) /\ w + d \in Nat
    BY HeldNumbers DEF Held
  <2>2. x = ((w + d) + h) * WindowLength
    <3>1. Cut + d = (w + d) + (h + 1)
      BY HeldNumbers
    <3> HIDE DEF w, h
    <3>2. (Cut + d) - 1 = (w + d) + h
      BY <1>1, <2>1, <3>1
    <3> QED
      BY <3>2 DEF Before
  <2>3. Piece(Joined(hand["pre"]), (w + d) * WindowLength,
              ((w + d) + h) * WindowLength)
    <3> HIDE DEF w
    <3> QED
      BY <1>2, <2>1, JoinedPiece
  <2> QED
    BY <2>2, <2>3
<1>6. x \in Nat /\ y \in Nat
  BY HeldNumbers
<1>8. window \in Seq(Nat) /\ chan["raw"].buf \in Seq(Nat)
  BY <1>2, SamplesAreNats
<1>9. /\ Follows(window, SampleNo, x) /\ Follows(chan["raw"].buf, SampleNo, y)
      /\ y + Len(chan["raw"].buf) = accepted
  BY DEF Held
<1> HIDE DEF x
<1>10. Piece(window, x, y) /\ Piece(chan["raw"].buf, y, accepted)
  BY <1>3, <1>6, <1>8, <1>9 DEF Piece
<1> QED
  BY <1>1, <1>4, <1>5, <1>10 DEF x

\* A stretch of the samples from the first one.
LEMMA PieceIsPrefix ==
    ASSUME NEW sq, NEW e \in 0..MaxSamples, Piece(sq, 0, e)
    PROVE  sq = SubSeq(Ordinals, 1, e)
<1>1. sq \in Seq(Nat) /\ Len(sq) = e /\ e \in Nat
  <2>1. sq \in Seq(Nat) /\ 0 + Len(sq) = e /\ e \in Nat
    BY DEF Piece
  <2>2. Len(sq) \in Nat
    BY <2>1
  <2> QED
    BY <2>1, <2>2
<1>2. \A k \in 1..e : sq[k] = k
  <2>1. ASSUME NEW k \in 1..e PROVE sq[k] = k
    <3>1. sq[k] = SampleNo[0 + k] /\ 0 + k = k /\ k \in Nat
      BY <1>1 DEF Piece, Follows
    <3> QED
      BY <3>1 DEF SampleNo
  <2> QED
    BY <2>1
<1>3. sq = [k \in 1..e |-> k]
  BY <1>1, <1>2
<1>4. SubSeq(Ordinals, 1, e) = [k \in 1..e |-> Ordinals[k]]
  <2>1. SubSeq(Ordinals, 1, e) = [k \in 1..((e - 1) + 1) |-> Ordinals[(1 + k) - 1]]
    BY <1>1 DEF Ordinals, Samples
  <2>2. (e - 1) + 1 = e /\ \A k \in 1..e : (1 + k) - 1 = k
    BY <1>1
  <2> QED
    BY <2>1, <2>2
<1>5. \A k \in 1..e : Ordinals[k] = k
  BY DEF Ordinals, Samples
<1> QED
  BY <1>3, <1>4, <1>5

(* Until stop closes the tensor queue, what the pipeline holds and what it  *)
(* has reported are together the samples submit has accepted, each once and *)
(* in order (pipeline.cpp:43).                                              *)
THEOREM SamplesKeptWhole == Spec => []NothingLost
<1>1. ASSUME TypeInv, OrderInv, CloseInv, HeldInv, ~chan["tensor"].shut
      PROVE  Stream = SubSeq(Ordinals, 1, accepted)
  <2>1. Held(0)
    BY <1>1 DEF HeldInv, Held
  <2>2. PICK r, k \in Nat :
              /\ Piece(SamplesOf(Out), 0, r * WindowLength)
              /\ Piece(SamplesOf(hand["inf"]), k * WindowLength, windowId * WindowLength)
              /\ ~chan["tensor"].shut => r = k
    BY <1>1, ResultPieces
  <2> DEFINE w == windowId + Len(chan["tensor"].buf)
             x == Before(Cut + 0)
             y == Before(Cut + 0) + Len(window)
  <2>3. /\ w \in Nat
        /\ Piece(Joined(chan["tensor"].buf), windowId * WindowLength, w * WindowLength)
        /\ Piece(Joined(hand["pre"]), (w + 0) * WindowLength, x)
        /\ Piece(window, x, y)
        /\ Piece(chan["raw"].buf, y, accepted)
    BY <1>1, <2>1, HeldPieces
  <2> HIDE DEF w, x, y
  <2>4. w + 0 = w
    BY <2>3
  <2>5. Piece(SamplesOf(Out) \o SamplesOf(hand["inf"]), 0, windowId * WindowLength)
    BY <1>1, <2>2, PieceConcat
  <2>6. Piece(SamplesOf(Out) \o SamplesOf(hand["inf"]) \o Joined(chan["tensor"].buf),
              0, w * WindowLength)
    BY <2>3, <2>5, PieceConcat
  <2>7. Piece(SamplesOf(Out) \o SamplesOf(hand["inf"]) \o Joined(chan["tensor"].buf)
                \o Joined(hand["pre"]), 0, x)
    BY <2>3, <2>4, <2>6, PieceConcat
  <2>8. Piece(SamplesOf(Out) \o SamplesOf(hand["inf"]) \o Joined(chan["tensor"].buf)
                \o Joined(hand["pre"]) \o window, 0, y)
    BY <2>3, <2>7, PieceConcat
  <2>9. Piece(Stream, 0, accepted)
    BY <2>3, <2>8, PieceConcat DEF Stream, Out
  <2>10. accepted \in 0..MaxSamples
    BY <1>1 DEF TypeInv, TypeOK
  <2> QED
    BY <2>9, <2>10, PieceIsPrefix
<1>2. TypeInv /\ OrderInv /\ CloseInv /\ HeldInv => NothingLost
  BY <1>1 DEF NothingLost
<1> QED
  BY <1>2, TypesAlways, OrderAlways, StreamAlways, PTL

(* Whatever stop drops, and however often the pipeline is started again, no *)
(* sample is ever in two places, and none overtakes another                 *)
(* (pipeline.cpp:54).                                                       *)
THEOREM SamplesKeptInOrder == Spec => []NothingReordered
<1>1. ASSUME TypeInv, OrderInv, CloseInv, HeldInv
      PROVE  \E b, e \in Nat : Rising(Stream, b, e)
  <2>1. PICK d \in Nat : Held(d)
    BY <1>1 DEF HeldInv
  <2>2. PICK r, k \in Nat :
              /\ Piece(SamplesOf(Out), 0, r * WindowLength)
              /\ Piece(SamplesOf(hand["inf"]), k * WindowLength, windowId * WindowLength)
              /\ r <= k
    BY <1>1, ResultPieces
  <2> DEFINE w == windowId + Len(chan["tensor"].buf)
             x == Before(Cut + d)
             y == Before(Cut + d) + Len(window)
  <2>3. /\ w \in Nat
        /\ Piece(Joined(chan["tensor"].buf), windowId * WindowLength, w * WindowLength)
        /\ Piece(Joined(hand["pre"]), (w + d) * WindowLength, x)
        /\ Piece(window, x, y)
        /\ Piece(chan["raw"].buf, y, accepted)
    BY <1>1, <2>1, HeldPieces
  <2> HIDE DEF w, x, y
  <2>4. r * WindowLength <= k * WindowLength
    <3>1. k - r \in Nat /\ r + (k - r) = k
      BY <2>2
    <3> QED
      BY <3>1, Scaled
  <2>5. w * WindowLength <= (w + d) * WindowLength
    BY <2>3, Scaled
  <2>6. /\ windowId * WindowLength \in Nat /\ x \in Nat /\ y \in Nat
        /\ accepted \in Nat
    BY <2>3 DEF Piece
  <2>7. /\ windowId * WindowLength <= windowId * WindowLength /\ x <= x /\ y <= y
    BY <2>6
  <2>8. Rising(SamplesOf(Out) \o SamplesOf(hand["inf"]), 0, windowId * WindowLength)
    BY <2>2, <2>4, PieceRises, RisingConcat
  <2>9. Rising(SamplesOf(Out) \o SamplesOf(hand["inf"]) \o Joined(chan["tensor"].buf),
              0, w * WindowLength)
    BY <2>3, <2>7, <2>8, PieceRises, RisingConcat
  <2>10. Rising(SamplesOf(Out) \o SamplesOf(hand["inf"]) \o Joined(chan["tensor"].buf)
                \o Joined(hand["pre"]), 0, x)
    BY <2>3, <2>5, <2>9, PieceRises, RisingConcat
  <2>11. Rising(SamplesOf(Out) \o SamplesOf(hand["inf"]) \o Joined(chan["tensor"].buf)
                \o Joined(hand["pre"]) \o window, 0, y)
    BY <2>3, <2>7, <2>10, PieceRises, RisingConcat
  <2>12. Rising(Stream, 0, accepted)
    BY <2>3, <2>7, <2>11, PieceRises, RisingConcat DEF Stream, Out
  <2> QED
    BY <2>6, <2>12
<1>2. ASSUME NEW b \in Nat, NEW e \in Nat, Rising(Stream, b, e),
             NEW i \in DOMAIN Stream, NEW j \in DOMAIN Stream, i < j
      PROVE  Stream[i] < Stream[j]
  <2>1. Stream \in Seq(Nat)
    BY <1>2 DEF Rising
  <2>2. DOMAIN Stream = 1..Len(Stream)
    BY <2>1
  <2> QED
    BY <1>2, <2>2 DEF Rising
<1>3. TypeInv /\ OrderInv /\ CloseInv /\ HeldInv => NothingReordered
  BY <1>1, <1>2 DEF NothingReordered
<1> QED
  BY <1>3, TypesAlways, OrderAlways, StreamAlways, PTL
=============================================================================
