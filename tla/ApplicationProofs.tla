-------------------------- MODULE ApplicationProofs --------------------------
(***************************************************************************)
(* What is proved of the pipeline holds of the program around it; and      *)
(* since nothing ever closes a queue there, the replay drops no line.      *)
(***************************************************************************)
EXTENDS Application, PipelineProofs

LEMMA StepsOfPipeline == [AppNext]_allVars => [Next]_vars
<1> SUFFICES ASSUME [AppNext]_allVars PROVE [Next]_vars
  OBVIOUS
<1>1. CASE Main
  <2>1. CASE LoadConfig \/ Initialize \/ SkipReplay \/ OpenCsv \/ EndReplay
    BY <2>1 DEF LoadConfig, Initialize, SkipReplay, OpenCsv, EndReplay
  <2>2. CASE StartPipeline
    BY <2>2 DEF StartPipeline, Next
  <2>3. CASE Starting
    BY <2>3 DEF Starting, Next
  <2>4. CASE ReadSample
    BY <2>4 DEF ReadSample, Next
  <2>5. CASE Submitted
    BY <2>5 DEF Submitted, Next
  <2> QED
    BY <1>1, <2>1, <2>2, <2>3, <2>4, <2>5 DEF Main
<1>2. CASE Run \/ Exited \/ UNCHANGED allVars
  BY <1>2 DEF Run, Exited, allVars
<1>3. CASE Worker(PreStep) \/ Worker(InfStep) \/ Worker(PostStep)
  BY <1>3 DEF Worker, Next
<1> QED
  BY <1>1, <1>2, <1>3 DEF AppNext

\* Each step of the program is one of the pipeline or leaves it alone.
LEMMA ProgramOfPipeline == AppSpec => Spec
<1>1. AppInit => Init
  BY DEF AppInit
<1> QED
  BY <1>1, StepsOfPipeline, PTL DEF AppSpec, Spec

(* What the program passes to its callback is a prefix of the windows of    *)
(* the file, numbered from 1 (application.cpp:25).                          *)
THEOREM ReplayInOrder == AppSpec => []ReportedInOrder
BY ProgramOfPipeline, ResultsInOrder, PTL
-----------------------------------------------------------------------------
(* Nothing closes a queue: all the owner ever has left to do is start.      *)
Starts == {"start"} \X Stages

OpenInv ==
    /\ todo \in Seq(Starts)
    /\ \A q \in Queues : chan[q].shut = FALSE

LEMMA OpenStep ==
    ASSUME TypeInv, OpenInv, [AppNext]_allVars
    PROVE  OpenInv'
<1>1. ASSUME NEW q \in Queues, chan' = [chan EXCEPT ![q] = Take(@)]
      PROVE  \A p \in Queues : chan'[p].shut = FALSE
  BY <1>1 DEF OpenInv, Take, TypeInv, TypeOK
<1>2. ASSUME NEW q \in Queues, NEW v, chan' = [chan EXCEPT ![q] = Put(@, v)]
      PROVE  \A p \in Queues : chan'[p].shut = FALSE
  BY <1>2 DEF OpenInv, Put, TypeInv, TypeOK
<1>3. CASE Worker(PreStep) \/ Worker(InfStep) \/ Worker(PostStep)
  <2>1. todo' = todo
    BY <1>3 DEF Worker, PreStep, InfStep, PostStep, TestRunning, LeaveLoop,
                CollectSample, Infer, HandOn, TakeResult, Report, WorkerFrame
  <2>2. CASE UNCHANGED chan
    BY <2>1, <2>2 DEF OpenInv
  <2>3. CASE \E s \in Stages : Pop(s)
    <3>1. PICK s \in Stages : Pop(s)
      BY <2>3
    <3>2. Input[s] \in Queues
      BY DEF Input, Stages, Queues
    <3> DEFINE q == Input[s]
    <3>3. q \in Queues /\ chan' = [chan EXCEPT ![q] = Take(@)]
      BY <3>1, <3>2 DEF Pop
    <3> HIDE DEF q
    <3>4. \A p \in Queues : chan'[p].shut = FALSE
      BY <1>1, <3>3
    <3> QED
      BY <2>1, <3>4 DEF OpenInv
  <2>4. CASE HandOn("pre") \/ HandOn("inf")
    BY <2>1, <2>4, <1>2 DEF OpenInv, HandOn, Output, Queues
  <2> QED
    BY <1>3, <2>2, <2>3, <2>4
       DEF Worker, PreStep, InfStep, PostStep, TestRunning, LeaveLoop,
           CollectSample, Infer, TakeResult, Report, Stages
<1>4. CASE StartPipeline
  <2>1. todo' = StartCalls /\ chan' = chan
    BY <1>4 DEF StartPipeline, Start, OwnerCall
  <2>2. StartCalls \in Seq(Starts)
    BY DEF StartCalls, Starts, Stages
  <2> QED
    BY <2>1, <2>2 DEF OpenInv
<1>5. CASE Starting
  <2>1. ASSUME todo # <<>> PROVE Head(todo) \in Starts /\ Tail(todo) \in Seq(Starts)
    BY <2>1 DEF OpenInv
  <2>2. ASSUME NEW name, NEW what, name # "start" PROVE ~Doing(<<name, what>>)
    <3>1. \A c \in Starts : c[1] = "start"
      BY DEF Starts
    <3> QED
      BY <2>1, <2>2, <3>1 DEF Doing
  <2>3. PICK s \in Stages : StartWorker(s)
    <3>1. \A q \in Queues : ~CloseQueue(q)
      BY <2>2 DEF CloseQueue
    <3>2. \A s \in Stages : ~StopWorker(s) /\ ~JoinWorker(s)
      BY <2>2 DEF StopWorker, JoinWorker
    <3> QED
      BY <1>5, <3>1, <3>2 DEF Starting, OwnerStep
  <2>4. todo' = Tail(todo) /\ chan' = chan /\ todo # <<>>
    BY <2>3 DEF StartWorker, Doing
  <2> QED
    BY <2>1, <2>4 DEF OpenInv
<1>6. CASE Submitted
  BY <1>6, <1>2 DEF Submitted, SubmitReturn, OpenInv, Queues
<1>7. CASE UNCHANGED <<chan, todo>>
  BY <1>7 DEF OpenInv
<1>8. CASE LoadConfig \/ Initialize \/ SkipReplay \/ OpenCsv \/ EndReplay \/ Run
              \/ Exited \/ UNCHANGED allVars \/ ReadSample
  <2>1. UNCHANGED <<chan, todo>>
    BY <1>8 DEF LoadConfig, Initialize, SkipReplay, OpenCsv, EndReplay, Run,
                Exited, ReadSample, Submit, allVars, vars
  <2> QED
    BY <2>1, <1>7
<1> QED
  BY <1>3, <1>4, <1>5, <1>6, <1>8 DEF AppNext, Main

LEMMA OpenAlways == AppSpec => []OpenInv
<1>1. AppInit => OpenInv
  BY DEF AppInit, Init, OpenInv, NewChannel
<1>2. AppSpec => []TypeInv
  BY ProgramOfPipeline, TypesAlways, PTL
<1>3. TypeInv /\ OpenInv /\ [AppNext]_allVars => OpenInv'
  BY OpenStep
<1> QED
  BY <1>1, <1>2, <1>3, PTL DEF AppSpec
-----------------------------------------------------------------------------
(* The file.  Of its readable lines, those before the position of the      *)
(* sensor have been submitted.                                              *)
LinesInv ==
    /\ submitted \in Nat
    /\ main \in {"config", "initialize", "start", "started"} =>
          submitted = 0 /\ replayable = 0
    /\ main \in {"replay", "submit"} =>
          \E n \in Nat, rest \in Rests :
              lines = File(n, rest) /\ submitted + n = replayable
    /\ main = "run" => submitted = replayable

Marks == {"sample", "unreadable"}

LEMMA RestsTyped ==
    ASSUME NEW rest \in Rests
    PROVE  /\ rest \in Seq(Marks)
           /\ rest = <<>> => Len(rest) = 0
           /\ rest # <<>> => Len(rest) = 2 /\ rest[1] = "unreadable"
<1>1. CASE rest = <<>>
  BY <1>1
<1>2. CASE rest = <<"unreadable", "sample">>
  BY <1>2 DEF Marks
<1> QED
  BY <1>1, <1>2 DEF Rests

LEMMA FileShape ==
    ASSUME NEW n \in Nat, NEW rest \in Rests
    PROVE  /\ File(n, rest) \in Seq(Marks)
           /\ Len(File(n, rest)) = n + Len(rest)
           /\ \A i \in 1..n : File(n, rest)[i] = "sample"
           /\ rest # <<>> => File(n, rest)[n + 1] = "unreadable" /\ Len(rest) = 2
<1> DEFINE good == [i \in 1..n |-> "sample"]
<1>1. good \in Seq(Marks) /\ Len(good) = n
  BY DEF Marks
<1>2. rest \in Seq(Marks) /\ Len(rest) \in Nat
  BY RestsTyped
<1>3. rest # <<>> => Len(rest) = 2 /\ rest[1] = "unreadable"
  BY RestsTyped
<1> HIDE DEF good
<1>4. good \o rest \in Seq(Marks)
      /\ Len(good \o rest) = n + Len(rest)
  BY <1>1, <1>2
<1>5. \A i \in 1..n : (good \o rest)[i] = good[i]
  BY <1>1, <1>2
<1>6. rest # <<>> => (good \o rest)[n + 1] = "unreadable"
  BY <1>1, <1>2, <1>3
<1> QED
  BY <1>3, <1>4, <1>5, <1>6 DEF File, good

(* CsvSensor can read a line exactly when one is left before the first bad  *)
(* one, and reading it leaves one less.                                     *)
LEMMA FileHead ==
    ASSUME NEW n \in Nat, NEW rest \in Rests, lines = File(n, rest)
    PROVE  /\ NextIsReadable <=> n > 0
           /\ n > 0 => Tail(lines) = File(n - 1, rest)
<1>1. ASSUME n > 0 PROVE lines # <<>> /\ Head(lines) = "sample"
  <2>0. Len(rest) \in Nat
    BY RestsTyped
  <2>1. Len(lines) > 0
    BY <1>1, <2>0, FileShape
  <2>2. lines[1] = "sample"
    <3>1. 1 \in 1..n
      BY <1>1
    <3> QED
      BY <3>1, FileShape
  <2> QED
    BY <2>1, <2>2, FileShape
<1>2. ASSUME n = 0, lines # <<>> PROVE Head(lines) = "unreadable"
  <2>1. File(n, rest) = rest
    BY <1>2 DEF File, Rests
  <2> QED
    BY <1>2, <2>1 DEF Rests
<1>3. ASSUME n > 0 PROVE Tail(lines) = File(n - 1, rest)
  <2>1. rest \in Seq(Marks) /\ Len(rest) \in Nat /\ n - 1 \in Nat
    BY <1>3, RestsTyped
  <2> DEFINE good == [i \in 1..n |-> "sample"]
             less == [i \in 1..n - 1 |-> "sample"]
  <2>2. /\ good \in Seq(Marks) /\ Len(good) = n
        /\ less \in Seq(Marks) /\ Len(less) = n - 1
        /\ \A i \in 1..n : good[i] = "sample"
        /\ \A i \in 1..n - 1 : less[i] = "sample"
    BY <2>1 DEF Marks
  <2> HIDE DEF good, less
  <2>3. Tail(good \o rest) = less \o rest
    <3>1. good \o rest \in Seq(Marks) /\ Len(good \o rest) = n + Len(rest)
      BY <2>1, <2>2
    <3>2. Tail(good \o rest) \in Seq(Marks)
          /\ Len(Tail(good \o rest)) = n + Len(rest) - 1
      BY <1>3, <2>1, <3>1
    <3>3. less \o rest \in Seq(Marks) /\ Len(less \o rest) = n - 1 + Len(rest)
      BY <2>1, <2>2
    <3>4. ASSUME NEW i \in 1..n - 1 + Len(rest)
          PROVE  Tail(good \o rest)[i] = (less \o rest)[i]
      <4>1. Tail(good \o rest)[i] = (good \o rest)[i + 1]
        BY <1>3, <2>1, <3>1
      <4>2. CASE i <= n - 1
        <5>1. i \in 1..n - 1 /\ i + 1 \in 1..n
          BY <2>1, <4>2
        <5>2. (good \o rest)[i + 1] = good[i + 1] /\ (less \o rest)[i] = less[i]
          BY <2>1, <2>2, <5>1
        <5> QED
          BY <2>2, <4>1, <5>1, <5>2
      <4>3. CASE i > n - 1
        <5>1. (good \o rest)[i + 1] = rest[i + 1 - n]
          BY <2>1, <2>2, <4>3
        <5>2. (less \o rest)[i] = rest[i - (n - 1)]
          BY <2>1, <2>2, <4>3
        <5>3. i + 1 - n = i - (n - 1)
          BY <2>1
        <5> QED
          BY <4>1, <5>1, <5>2, <5>3
      <4>4. i <= n - 1 \/ i > n - 1
        BY <2>1
      <4> QED
        BY <4>2, <4>3, <4>4
    <3>5. Len(Tail(good \o rest)) = Len(less \o rest)
      BY <2>1, <3>2, <3>3
    <3> QED
      BY <3>2, <3>3, <3>4, <3>5
  <2> QED
    BY <2>3 DEF File, good, less
<1> QED
  BY <1>1, <1>2, <1>3 DEF NextIsReadable

LEMMA FileReadable ==
    ASSUME NEW n \in Nat, NEW rest \in Rests
    PROVE  ReadableLines(File(n, rest)) = n
<1> DEFINE file == File(n, rest)
           bad == {i \in 1..Len(file) : file[i] # "sample"}
<1>1. rest = <<>> \/ rest # <<>>
  OBVIOUS
<1>2. CASE rest = <<>>
  <2>1. Len(file) = n
    BY <1>2, FileShape, RestsTyped
  <2>2. bad = {}
    BY <2>1, FileShape
  <2> QED
    BY <2>1, <2>2 DEF ReadableLines, SelectInSeq
<1>3. CASE rest # <<>>
  <2>0. Len(file) = n + 2 /\ (\A i \in 1..n : file[i] = "sample")
        /\ file[n + 1] = "unreadable"
    BY <1>3, FileShape
  <2> HIDE DEF file
  <2>1. n + 1 \in bad /\ (\A i \in bad : n + 1 <= i) /\ bad \subseteq Nat
    BY <2>0
  <2>2. Min(bad) = n + 1
    BY <2>1 DEF Min
  <2> HIDE DEF bad
  <2>3. bad # {} /\ Min(bad) - 1 = n /\ Min(bad) # 0
    BY <2>1, <2>2
  <2> QED
    BY <2>3 DEF ReadableLines, SelectInSeq, bad, file
<1> QED
  BY <1>2, <1>3

LEMMA LinesStep == LinesInv /\ [AppNext]_allVars => LinesInv'
<1> SUFFICES ASSUME LinesInv, [AppNext]_allVars PROVE LinesInv'
  OBVIOUS
<1>1. CASE LoadConfig
  BY <1>1 DEF LoadConfig, MainMove, LinesInv, vars, feederVars
<1>2. CASE Initialize
  <2>1. main = "initialize" /\ main' \in {"failed", "aborted", "start"}
    <3>1. main = "initialize"
      BY <1>2 DEF Initialize, MainMove
    <3>2. PICK loaded \in BOOLEAN, capacity \in {0, QueueCapacity} :
            main' = CASE ~loaded -> "failed"
                      [] loaded /\ capacity = 0 -> "aborted"
                      [] OTHER -> "start"
      BY <1>2, Zenon DEF Initialize, MainMove
    <3>3. (CASE ~loaded -> "failed"
             [] loaded /\ capacity = 0 -> "aborted"
             [] OTHER -> "start") \in {"failed", "aborted", "start"}
      BY SMT
    <3> QED
      BY <3>1, <3>2, <3>3
  <2>2. UNCHANGED <<submitted, lines, replayable>>
    BY <1>2, Zenon DEF Initialize, vars, feederVars
  <2> QED
    BY <2>1, <2>2 DEF LinesInv
<1>3. CASE StartPipeline
  BY <1>3 DEF StartPipeline, MainMove, Start, OwnerCall, OwnerFrame, feederVars, LinesInv
<1>4. CASE Starting
  BY <1>4 DEF Starting, OwnerStep, CloseQueue, StartWorker, StopWorker, JoinWorker,
              OwnerFrame, feederVars, appVars, LinesInv
<1>5. CASE SkipReplay
  BY <1>5 DEF SkipReplay, MainMove, vars, feederVars, LinesInv
<1>6. CASE OpenCsv
  <2>1. PICK file \in Files : lines' = file /\ replayable' = ReadableLines(file)
    BY <1>6 DEF OpenCsv
  <2>2. PICK n \in 0..MaxSamples, rest \in Rests : file = File(n, rest)
    BY DEF Files
  <2>3. n \in Nat /\ replayable' = n
    BY <2>1, <2>2, FileReadable
  <2>4. main' = "replay" /\ submitted' = 0
    BY <1>6 DEF OpenCsv, MainMove, vars, feederVars, LinesInv
  <2> QED
    BY <2>1, <2>2, <2>3, <2>4 DEF LinesInv
<1>7. CASE ReadSample
  <2>1. main = "replay" /\ main' = "submit" /\ lines' = Tail(lines)
        /\ submitted' = submitted + 1 /\ replayable' = replayable /\ NextIsReadable
    BY <1>7 DEF ReadSample, MainMove, Submit
  <2>2. PICK n \in Nat, rest \in Rests :
            lines = File(n, rest) /\ submitted + n = replayable
    BY <2>1 DEF LinesInv
  <2>3. n > 0 /\ lines' = File(n - 1, rest)
    BY <2>1, <2>2, FileHead
  <2>4. n - 1 \in Nat /\ submitted' \in Nat /\ submitted' + (n - 1) = replayable'
    BY <2>1, <2>2, <2>3 DEF LinesInv
  <2> QED
    BY <2>1, <2>3, <2>4 DEF LinesInv
<1>8. CASE Submitted
  BY <1>8 DEF Submitted, MainMove, SubmitReturn, LinesInv
<1>9. CASE EndReplay
  <2>1. main = "replay" /\ main' = "run" /\ ~NextIsReadable
        /\ UNCHANGED <<submitted, lines, replayable>>
    BY <1>9 DEF EndReplay, MainMove, vars, feederVars
  <2>2. PICK n \in Nat, rest \in Rests :
            lines = File(n, rest) /\ submitted + n = replayable
    BY <2>1 DEF LinesInv
  <2>3. n = 0
    BY <2>1, <2>2, FileHead
  <2> QED
    BY <2>1, <2>2, <2>3 DEF LinesInv
<1>10. CASE Run \/ Exited \/ UNCHANGED allVars
  BY <1>10 DEF Run, Exited, MainMove, allVars, appVars, vars, feederVars, LinesInv
<1>11. CASE Worker(PreStep) \/ Worker(InfStep) \/ Worker(PostStep)
  <2>1. UNCHANGED <<submitted, main, lines, replayable>>
    BY <1>11 DEF Worker, PreStep, InfStep, PostStep, TestRunning, LeaveLoop,
                 CollectSample, Infer, HandOn, TakeResult, Report, WorkerFrame,
                 feederVars, appVars
  <2> QED
    BY <2>1 DEF LinesInv
<1> QED
  BY <1>1, <1>2, <1>3, <1>4, <1>5, <1>6, <1>7, <1>8, <1>9, <1>10, <1>11
     DEF AppNext, Main
-----------------------------------------------------------------------------
(* The replay drops no line, whatever the file, the capacity and the window *)
(* length: the status submit returns, which initialize does not look at, is *)
(* never a refusal, and from the callback back to the file the readable     *)
(* lines are in one place each, in order (application.cpp:42 against        *)
(* pipeline.cpp:35).                                                        *)
THEOREM ReplayComplete == AppSpec => []NothingDropped
<1>1. ASSUME TypeInv, OpenInv, CloseInv, NothingLost
      PROVE  Stream = SubSeq(Ordinals, 1, submitted - Len(feeder))
  <2>1. ~chan["raw"].shut /\ ~chan["tensor"].shut
    BY <1>1 DEF OpenInv, Queues
  <2>2. accepted + Len(feeder) = submitted
    BY <1>1, <2>1 DEF CloseInv, AcceptInv
  <2>3. accepted \in Nat /\ submitted \in Nat /\ Len(feeder) \in Nat
    BY <1>1 DEF TypeInv, TypeOK, AtMostOne
  <2>4. accepted = submitted - Len(feeder)
    BY <2>2, <2>3
  <2> QED
    BY <1>1, <2>1, <2>4 DEF NothingLost
<1>2. ASSUME LinesInv, main \in {"replay", "submit"}
      PROVE  submitted + ReadableLines(lines) = replayable
  <2>1. PICK n \in Nat, rest \in Rests :
            lines = File(n, rest) /\ submitted + n = replayable
    BY <1>2 DEF LinesInv
  <2> QED
    BY <2>1, FileReadable
<1>3. AppSpec => []LinesInv
  <2>1. AppInit => LinesInv
    BY DEF AppInit, Init, LinesInv
  <2> QED
    BY <2>1, LinesStep, PTL DEF AppSpec
<1>4. AppSpec => []TypeInv /\ []CloseInv /\ []NothingLost
  BY ProgramOfPipeline, TypesAlways, StreamAlways, SamplesKeptWhole, PTL
<1>5. TypeInv /\ OpenInv /\ CloseInv /\ NothingLost /\ LinesInv => NothingDropped
  BY <1>1, <1>2 DEF NothingDropped, LinesInv
<1> QED
  BY <1>3, <1>4, <1>5, OpenAlways, PTL
=============================================================================
