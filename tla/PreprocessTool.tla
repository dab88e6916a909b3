--------------------------- MODULE PreprocessTool ---------------------------
(***************************************************************************)
(* tools/preprocess_csv.cpp: read a CSV file, preprocess all its samples   *)
(* as one window and write the tensor to a file or to stdout.  The reading *)
(* is CsvReader's; of the output only its lines are told apart, the names  *)
(* of the columns and then the rows of the tensor.  A wrong number of      *)
(* arguments (lines 12-15) ends the program before it has done anything    *)
(* and is left out.                                                        *)
(***************************************************************************)
EXTENDS CsvReader

CONSTANT TensorRows    \* kTargetLength

ASSUME TensorRowsAssumption == TensorRows \in Nat \ {0}

VARIABLES
    tool,       \* reading, writing, EXIT_SUCCESS or EXIT_FAILURE
    out,        \* the stream that is written to: cout or file
    output,     \* what the output file holds: Earlier, or lines of this run
    written,    \* lines passed to the stream
    failedAt    \* the line at which the stream failed, 0 if it is good

toolVars == <<tool, out, output, written, failedAt>>

OutputLines == TensorRows + 1    \* the header and the tensor

Earlier == <<0>>    \* not a line

ToolInit ==
    /\ CsvInit
    /\ tool = "reading"
    /\ out = "cout"
    /\ output = Earlier
    /\ written = 0
    /\ failedAt = 0

ReadCsv == tool = "reading" /\ CsvNext /\ UNCHANGED toolVars

CsvError ==
    /\ tool = "reading" /\ pc = "failed"
    /\ tool' = "EXIT_FAILURE"
    /\ UNCHANGED <<csvVars, out, output, written, failedAt>>

\* Mutant: the output is opened before the status of the reading is looked at.
CreateOutputMutant ==
    /\ tool = "reading" /\ pc \in {"ok", "failed"}
    /\ \/ tool' = "writing" /\ UNCHANGED <<out, output>>
       \/ tool' = "writing" /\ out' = "file" /\ output' = <<>>
       \/ tool' = "EXIT_FAILURE" /\ UNCHANGED <<out, output>>
    /\ UNCHANGED <<csvVars, written, failedAt>>

\* preprocessor.run accepts any samples that read has accepted.  Without a name
\* for the output it goes to stdout; with one, opening the file empties it,
\* unless that fails.
CreateOutput ==
    /\ tool = "reading" /\ pc = "ok"
    /\ \/ tool' = "writing" /\ UNCHANGED <<out, output>>
       \/ tool' = "writing" /\ out' = "file" /\ output' = <<>>
       \/ tool' = "EXIT_FAILURE" /\ UNCHANGED <<out, output>>
    /\ UNCHANGED <<csvVars, written, failedAt>>

\* Nobody looks at the state of the stream, which takes nothing once it failed.
WriteLine ==
    /\ tool = "writing" /\ written < OutputLines
    /\ written' = written + 1
    /\ \/ failedAt = 0 /\ out = "file" /\ output' = Append(output, written') /\ UNCHANGED failedAt
       \/ failedAt = 0 /\ failedAt' = written' /\ UNCHANGED output
       \/ (failedAt # 0 \/ out = "cout") /\ UNCHANGED <<output, failedAt>>
    /\ UNCHANGED <<csvVars, tool, out>>

Finish ==
    /\ tool = "writing" /\ written = OutputLines
    /\ tool' = "EXIT_SUCCESS"
    /\ UNCHANGED <<csvVars, out, output, written, failedAt>>

Exited == tool \in {"EXIT_SUCCESS", "EXIT_FAILURE"} /\ UNCHANGED <<csvVars, toolVars>>

ToolNext == ReadCsv \/ CsvError \/ CreateOutput \/ WriteLine \/ Finish \/ Exited

ToolSpec == ToolInit /\ [][ToolNext]_<<csvVars, toolVars>>
-----------------------------------------------------------------------------
(* A run that fails leaves the output of an earlier one alone; the file is  *)
(* overwritten only after the whole input was read and accepted, and only   *)
(* if the output was to go there.  A run that reports success has then      *)
(* written every line, or a gap-free beginning if a write failed:           *)
(* EXIT_SUCCESS does not tell (preprocess_csv.cpp:64).                      *)
OutputOnlyOnSuccess ==
    /\ tool = "EXIT_FAILURE" \/ out = "cout" => output = Earlier
    /\ output # Earlier => pc = "ok" /\ Len(samples) = Len(DataRows)
    /\ tool = "EXIT_SUCCESS" /\ out = "file" =>
          output = [k \in 1 .. (IF failedAt = 0 THEN OutputLines ELSE failedAt - 1) |-> k]
=============================================================================
