---------------------------- MODULE Application ----------------------------
(***************************************************************************)
(* app/main.cpp and runtime/application.cpp: the program around one        *)
(* pipeline.  The main thread loads the configuration twice, builds and    *)
(* starts the pipeline, replays a CSV file into it through CsvSensor, and  *)
(* then sleeps in Application::run.  It is owner and feeder of Pipeline at *)
(* once; the worker threads are the ones of Pipeline.                      *)
(*                                                                         *)
(* Application::shutdown is not an action: main calls it after run, and    *)
(* nothing else clears running_, so run does not return.                   *)
(***************************************************************************)
EXTENDS Pipeline

VARIABLES
    main,       \* where the main thread stands: config, initialize, start,
                \* started, replay, submit, run, failed, aborted
    lines,      \* lines of the CSV file left to read: nine readable fields
                \* (sample), or anything else, such as a header (unreadable)
    replayable  \* history: lines CsvSensor could read before the first bad one

appVars == <<main, lines, replayable>>
allVars == <<vars, appVars>>

MainMove(from, to) == main = from /\ main' = to

AppInit ==
    /\ Init
    /\ main = "config"
    /\ lines = <<>>
    /\ replayable = 0
-----------------------------------------------------------------------------
\* main loads the configuration for itself; Application::initialize loads it
\* again, and the file may have changed in between.  Module Startup has these
\* two steps in detail.
LoadConfig ==
    /\ \E loaded \in BOOLEAN :
          MainMove("config", IF loaded THEN "initialize" ELSE "failed")
    /\ UNCHANGED <<vars, lines, replayable>>

\* The second load, and the queues: nobody catches what a queue of capacity 0
\* throws.
Initialize ==
    /\ \E loaded \in BOOLEAN, capacity \in {0, QueueCapacity} :
          MainMove("initialize", CASE ~loaded -> "failed"
                                   [] loaded /\ capacity = 0 -> "aborted"
                                   [] OTHER -> "start")
    /\ UNCHANGED <<vars, lines, replayable>>

StartPipeline ==
    /\ MainMove("start", "started")
    /\ Start
    /\ UNCHANGED <<lines, replayable>>

\* Pipeline::start, one worker after the other.
Starting == main = "started" /\ OwnerStep /\ UNCHANGED appVars

\* No CSV file is configured, or it does not open.
SkipReplay ==
    /\ todo = <<>>
    /\ MainMove("started", "run")
    /\ UNCHANGED <<vars, lines, replayable>>

\* The bound on files: up to MaxSamples readable lines, and either the end of
\* the file or a line that is not, with whatever follows.
Rests == {<<>>, <<"unreadable", "sample">>}
File(n, rest) == [i \in 1..n |-> "sample"] \o rest
Files == {File(n, rest) : n \in 0..MaxSamples, rest \in Rests}

ReadableLines(file) ==
    LET bad == SelectInSeq(file, LAMBDA line : line # "sample")
    IN IF bad = 0 THEN Len(file) ELSE bad - 1

OpenCsv ==
    /\ todo = <<>>
    /\ MainMove("started", "replay")
    /\ \E file \in Files :
          /\ lines' = file
          /\ replayable' = ReadableLines(file)
    /\ UNCHANGED vars

NextIsReadable == lines # <<>> /\ Head(lines) = "sample"

ReadSample ==
    /\ MainMove("replay", "submit")
    /\ NextIsReadable
    /\ lines' = Tail(lines)
    /\ Submit
    /\ UNCHANGED replayable

\* Mutant: submit gives up on a full queue (try_push) and says so; main does
\* not look.
SubmittedMutant ==
    LET taken == Len(chan["raw"].buf) < QueueCapacity IN
    /\ MainMove("submit", "replay")
    /\ chan' = IF taken THEN [chan EXCEPT !["raw"] = Put(@, feeder[1])] ELSE chan
    /\ accepted' = IF taken THEN accepted + 1 ELSE accepted
    /\ feeder' = <<>>
    /\ UNCHANGED <<engineReady, running, todo, workerVars, submitted>>
    /\ UNCHANGED <<lines, replayable>>

\* Application::initialize does not look at what submit returns.
Submitted ==
    /\ MainMove("submit", "replay")
    /\ SubmitReturn
    /\ UNCHANGED <<lines, replayable>>

\* CsvSensor::read fails at the end of the file and at any other line alike.
EndReplay ==
    /\ MainMove("replay", "run")
    /\ ~NextIsReadable
    /\ UNCHANGED <<vars, lines, replayable>>

\* Application::run: while (running_) sleep.
Run == MainMove("run", "run") /\ UNCHANGED <<vars, lines, replayable>>

\* main has returned EXIT_FAILURE, or std::terminate has ended the process.
Exited == main \in {"failed", "aborted"} /\ UNCHANGED allVars

Main ==
    \/ LoadConfig
    \/ Initialize
    \/ StartPipeline
    \/ Starting
    \/ SkipReplay
    \/ OpenCsv
    \/ ReadSample
    \/ Submitted
    \/ EndReplay

Worker(step) == step /\ UNCHANGED appVars

AppNext ==
    \/ Main
    \/ Run
    \/ Exited
    \/ Worker(PreStep)
    \/ Worker(InfStep)
    \/ Worker(PostStep)

AppSpec == AppInit /\ [][AppNext]_allVars

(***************************************************************************)
(* Four threads, each of which runs when it can.                           *)
(***************************************************************************)
AppFairness ==
    /\ WF_allVars(Main)
    /\ WF_allVars(Worker(PreStep))
    /\ WF_allVars(Worker(InfStep))
    /\ WF_allVars(Worker(PostStep))

AppFairSpec == AppSpec /\ AppFairness
-----------------------------------------------------------------------------
(* The replay drops nothing although main ignores what submit returns       *)
(* (application.cpp:42): however far the four threads are, the readable     *)
(* lines of the file are, in order, in the results and windows, in          *)
(* window_buffer_, in the raw queue, in main's hands or still in the file.  *)
NothingDropped ==
    /\ Stream = SubSeq(Ordinals, 1, submitted - Len(feeder))
    /\ main \in {"replay", "submit"} =>
          submitted + ReadableLines(lines) = replayable
    /\ main = "run" => submitted = replayable

(* The replay comes to an end and is complete: although submit blocks the   *)
(* main thread while the raw queue is full, and main is the thread that     *)
(* would have to stop the workers, main gets to run; every full window of   *)
(* readable lines is then reported, and nothing more ever is (the samples   *)
(* left over stay in window_buffer_).                                       *)
ReplayReported ==
    main = "replay"
        ~> [](/\ main = "run"
              /\ Len(reported) = replayable \div WindowLength
              /\ Len(window) = replayable % WindowLength)

(* What docs/API_REFERENCE_AND_SEQUENCE.md (lines 71-81) says of            *)
(* Application::initialize: it reaches "RKNN Engine Load".                  *)
EngineLoaded == main = "run" => engineReady

(* What config/pipeai.ini (window_stride = 16) and the log line of main     *)
(* (main.cpp:39) say of consecutive windows: they start a stride apart.     *)
WindowsAStrideApart(stride) ==
    \A k \in 2..Len(reported) :
        reported[k].samples[1] = reported[k - 1].samples[1] + stride
=============================================================================
