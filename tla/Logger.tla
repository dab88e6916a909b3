------------------------------- MODULE Logger -------------------------------
(***************************************************************************)
(* runtime/logger.cpp: one logger for all threads.  Every call holds the   *)
(* mutex to its end, so it is one step.  The file may refuse to open, and  *)
(* a write may fail at any byte; a stream that has failed writes nothing   *)
(* until set_file or clear_file has cleared it, and is_open stays true.    *)
(***************************************************************************)
EXTENDS Integers, SequencesExt

CONSTANTS
    LogFiles,    \* the paths set_file is called with
    MaxMessages  \* bound: calls of log

Severities == 0..3    \* Debug, Info, Warn, Error

ASSUME LogFilesAssumption == "closed" \notin LogFiles /\ MaxMessages \in Nat

VARIABLES
    minLevel,    \* min_level_
    target,      \* the file that is open, or Closed
    good,        \* the stream has not failed
    content,     \* what each file holds: messages, or Torn for a part of one
    messages,    \* history: calls of log so far
    due,         \* history: the messages since set_file that are not too low
    base         \* history: what the target held when it was opened

loggerVars == <<minLevel, target, good, content, messages, due, base>>

Closed == "closed"
Torn == 0

LoggerInit ==
    /\ minLevel = 1
    /\ target = Closed
    /\ good = TRUE
    /\ content = [f \in LogFiles |-> <<>>]
    /\ messages = 0
    /\ due = <<>>
    /\ base = <<>>

SetLevel(l) ==
    /\ minLevel' = l
    /\ UNCHANGED <<target, good, content, messages, due, base>>

\* The old file is closed first, whether or not the new one opens.
SetFile(f) ==
    /\ \E opens \in BOOLEAN :
          /\ target' = IF opens THEN f ELSE Closed
          /\ good' = opens
    /\ due' = <<>>
    /\ base' = content[f]
    /\ UNCHANGED <<minLevel, content, messages>>

ClearFile ==
    /\ target' = Closed
    /\ good' = TRUE
    /\ due' = <<>>
    /\ UNCHANGED <<minLevel, content, messages, base>>

\* Mutant: the state of the stream is cleared before every line.
WritesMutant(m) ==
    \/ content' = [content EXCEPT ![target] = Append(@, m)] /\ good' = TRUE
    \/ content' = content /\ good' = FALSE

\* One line to the file: all of it, a part or nothing.
Writes(m) ==
    \/ good /\ content' = [content EXCEPT ![target] = Append(@, m)] /\ good' = TRUE
    \/ good /\ content' = [content EXCEPT ![target] = Append(@, Torn)] /\ good' = FALSE
    \/ content' = content /\ good' = FALSE

Log(l) ==
    /\ messages < MaxMessages
    /\ messages' = messages + 1
    /\ IF l < minLevel THEN UNCHANGED <<content, good, due>>
       ELSE /\ due' = Append(due, messages')
            /\ IF target = Closed THEN UNCHANGED <<content, good>>
                                  ELSE Writes(messages')
    /\ UNCHANGED <<minLevel, target, base>>

LoggerNext ==
    \/ \E l \in Severities : SetLevel(l) \/ Log(l)
    \/ \E f \in LogFiles : SetFile(f)
    \/ ClearFile

LoggerSpec == LoggerInit /\ [][LoggerNext]_loggerVars
-----------------------------------------------------------------------------
\* What was written to the open file since it was opened.
Appended == SubSeq(content[target], Len(base) + 1, Len(content[target]))

(* The open file holds what it held before and then, from the first message *)
(* on and without a gap, the messages that were due since: all of them as   *)
(* long as no write has failed, and otherwise only a beginning, the last    *)
(* line perhaps torn.  What comes after a failure is lost without a sign    *)
(* (logger.cpp:50 asks whether the file is open, not whether it is good).   *)
LogWithoutGaps ==
    target # Closed =>
        /\ IsPrefix(base, content[target])
        /\ Len(Appended) <= Len(due)
        /\ \A k \in DOMAIN Appended :
              Appended[k] = due[k] \/ (Appended[k] = Torn /\ k = Len(Appended) /\ ~good)
        /\ good => Len(Appended) = Len(due)
=============================================================================
