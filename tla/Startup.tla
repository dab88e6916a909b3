------------------------------- MODULE Startup ------------------------------
(***************************************************************************)
(* app/main.cpp and the beginning of Application::initialize: the          *)
(* configuration is loaded by main, which sets up the logger and announces *)
(* the size of the raw queue, and a second time, into a Config of its own, *)
(* by the application, which builds the queue.  The file on the disk may   *)
(* be changed at any moment.  What follows is in module Application.       *)
(***************************************************************************)
EXTENDS Config

CONSTANTS
    Files,         \* what the file may hold at first: sequences of lines
    Edits,         \* what somebody may make of it, at most once
    NoFile,        \* there is none, or it cannot be opened
    CapacityKey,   \* pipeline.raw_queue_capacity
    LevelKey,      \* logging.level
    LogFileKey,    \* logging.file
    Fallback       \* 1024

ASSUME FallbackAssumption == Fallback \in 1 .. SizeLimit - 1
ASSUME FilesAssumption == Files \cup Edits \subseteq Seq(Seq(STRING))

VARIABLES
    disk,          \* the file now
    edited,
    main,          \* where the main thread stands
    level,         \* min_level_ of the logger
    logging,       \* whether its file_ is open
    announced,     \* the capacity main has logged; Silent if the level hides it
    heard,         \* history: the lines it was announced from
    capacity       \* capacity_ of the raw queue; 0 before there is one

startupVars == <<main, level, logging, announced, heard, capacity>>
vars == <<configVars, disk, edited, startupVars>>

Silent == -1
Levels == <<"debug", "info", "warn", "error">>
Shows(l) == \E i, j \in DOMAIN Levels : Levels[i] = level' /\ Levels[j] = l /\ i <= j

Init ==
    /\ ConfigInit
    /\ disk \in Files \cup {NoFile}
    /\ edited = FALSE
    /\ main = "load"
    /\ level = "info"
    /\ logging = FALSE
    /\ announced = Silent
    /\ heard = <<>>
    /\ capacity = 0
-----------------------------------------------------------------------------
Edit ==
    /\ ~edited
    /\ edited' = TRUE
    /\ disk' \in Edits \cup {NoFile}
    /\ UNCHANGED <<configVars, startupVars>>

Loading == main \in {"load", "initialize"}

Open ==
    /\ Loading
    /\ IF disk = NoFile THEN OpenFails ELSE OpenFile(disk)
    /\ UNCHANGED <<disk, edited, startupVars>>

Read == Loading /\ ReadStep /\ UNCHANGED <<disk, edited, startupVars>>

\* EXIT_FAILURE, from main itself or with what initialize returned.
LoadFailed ==
    /\ Loading /\ status = "failed"
    /\ main' = "failed"
    /\ UNCHANGED <<configVars, disk, edited, level, logging, announced, heard, capacity>>

\* parse_level: four words, anything else is info.
ParseLevel(text) ==
    IF \E l \in ToSet(Levels) : text = <<l>> THEN text[1] ELSE "info"

\* The logger, which goes on without its file if that does not open, the lines
\* main logs, and an Application with a Config of its own.
Announce ==
    /\ main = "load" /\ status = "ok"
    /\ main' = "initialize"
    /\ level' = ParseLevel(GetString(LevelKey, <<"info">>))
    /\ logging' \in IF GetString(LogFileKey, <<>>) = <<>> THEN {FALSE} ELSE BOOLEAN
    /\ announced' = IF Shows("info") THEN GetSize(CapacityKey, Fallback) ELSE Silent
    /\ heard' = RawLines
    /\ values' = NoValues /\ section' = <<>> /\ opened' = <<>> /\ unread' = <<>>
    /\ status' = "idle"
    /\ UNCHANGED <<disk, edited, capacity>>

\* Mutant: another fallback than the one main has announced.
BuildQueueMutant ==
    LET size == GetSize(CapacityKey, Fallback - 1) IN
    /\ main = "initialize" /\ status = "ok"
    /\ main' = IF size = 0 THEN "aborted" ELSE "start"
    /\ capacity' = size
    /\ UNCHANGED <<configVars, disk, edited, level, logging, announced, heard>>

\* The queue's constructor throws at 0, and nobody catches.
BuildQueue ==
    LET size == GetSize(CapacityKey, Fallback) IN
    /\ main = "initialize" /\ status = "ok"
    /\ main' = IF size = 0 THEN "aborted" ELSE "start"
    /\ capacity' = size
    /\ UNCHANGED <<configVars, disk, edited, level, logging, announced, heard>>

\* Over, or on to Pipeline::start.
Ended == main \in {"failed", "aborted", "start"} /\ UNCHANGED vars

Next == Edit \/ Open \/ Read \/ LoadFailed \/ Announce \/ BuildQueue \/ Ended

Spec == Init /\ [][Next]_vars
-----------------------------------------------------------------------------
CapacityEntries == {k \in Entries : KeyAt(k) = CapacityKey}
CapacityText == ValueOf(LinesRead[Max(CapacityEntries)])

(* The queue is as large as the file that was read for it says, and as main *)
(* has logged: the last line that names it, wherever it stands, if that is  *)
(* a plain number that fits, 1024 if there is none or its text is no number *)
(* and the announced size whenever both loads read the same lines           *)
(* (main.cpp:40, application.cpp:22).  No pipeline is started on a queue    *)
(* without room.                                                            *)
QueueAsAnnounced ==
    main = "start" =>
        /\ capacity > 0
        /\ announced # Silent /\ heard = RawLines => capacity = announced
        /\ CapacityEntries = {} => capacity = Fallback
        /\ CapacityEntries # {} =>
              LET text == CapacityText IN
              /\ ~IsWhole(text) => capacity = Fallback
              /\ IsWhole(text) /\ text[1] \in DOMAIN DigitValue =>
                    capacity = IF Magnitude(text) < SizeLimit
                               THEN Magnitude(text) ELSE Fallback
=============================================================================
