------------------------------ MODULE CsvReader -----------------------------
(***************************************************************************)
(* preprocess/csv_reader.cpp: CsvReader::read, one call.  The header says  *)
(* in which column each channel is, the rows are converted one by one into *)
(* the caller's vector, and the first row that cannot be read ends the     *)
(* call.  Carriage returns and a byte order mark are stripped before any   *)
(* of this and are left out.                                               *)
(***************************************************************************)
EXTENDS CsvSplit

CONSTANTS
    Columns,     \* the columns a sample is made of: D1 .. D8 and IMU
    Digit,       \* the token a number is written with
    Headers,     \* the header lines a file may begin with
    Rows         \* what the lines after it may be: a set for each, the file
                 \* has as many lines as there are sets, or fewer

ASSUME LinesAssumption ==
    /\ Headers \subseteq Seq(STRING)
    /\ Rows \in Seq(SUBSET Seq(STRING))

ASSUME ColumnsAssumption == Columns # {}

VARIABLES
    samples,     \* the caller's vector
    header,      \* the header line, once there is one
    columns,     \* radar_columns and imu_column, once they are all found
    rows,        \* the lines read after it
    pc

csvVars == <<splitVars, samples, header, columns, rows, pc>>

Old == [ts |-> -1, value |-> <<>>]    \* what the caller's vector held before

\* A quiet NaN; a number is the count of its digits.
NaN == -1

CsvInit ==
    /\ line = <<>> /\ pos = 1 /\ field = <<>> /\ quoted = FALSE /\ fields = <<>>
    /\ samples = <<Old>>
    /\ header = <<>>
    /\ columns = <<>>
    /\ rows = <<>>
    /\ pc = "open"

Goto(place) == pc' = place

\* The file cannot be opened, or holds not even one line.
CsvOpenFails ==
    /\ pc = "open"
    /\ Goto("failed")
    /\ UNCHANGED <<splitVars, samples, header, columns, rows>>

ReadHeader ==
    /\ pc = "open"
    /\ \E l \in Headers : header' = l /\ BeginSplit(l)
    /\ Goto("header")
    /\ UNCHANGED <<samples, columns, rows>>

Split ==
    /\ pc \in {"header", "row"}
    /\ SplitStep
    /\ UNCHANGED <<samples, header, columns, rows, pc>>

SplitFails ==
    /\ pc \in {"header", "row"}
    /\ SplitFailed
    /\ Goto("failed")
    /\ UNCHANGED <<splitVars, samples, header, columns, rows>>

SplitEnds(place) == pc = place /\ ~More /\ ~quoted

\* Mutant: of two columns with the same name the first one counts.
ColumnInMutant(names, c) == SelectInSeq(names, LAMBDA f : Trim(f) = <<c>>)

\* The column named c, 0 if there is none; of two, the later one.
ColumnIn(names, c) == SelectLastInSeq(names, LAMBDA f : Trim(f) = <<c>>)

ColumnMissing ==
    /\ SplitEnds("header")
    /\ \E c \in Columns : ColumnIn(AllFields, c) = 0
    /\ Goto("failed")
    /\ UNCHANGED <<splitVars, samples, header, columns, rows>>

\* Every column is there; only now is the caller's vector emptied.
HeaderRead ==
    /\ SplitEnds("header")
    /\ \A c \in Columns : ColumnIn(AllFields, c) # 0
    /\ columns' = [c \in Columns |-> ColumnIn(AllFields, c)]
    /\ samples' = <<>>
    /\ Goto("next")
    /\ UNCHANGED <<splitVars, header, rows>>

NextRow ==
    /\ pc = "next"
    /\ Len(rows) < Len(Rows)
    /\ \E l \in Rows[Len(rows) + 1] :
          /\ rows' = Append(rows, l)
          /\ IF Trim(l) = <<>> THEN UNCHANGED <<splitVars, pc>>
             ELSE BeginSplit(l) /\ Goto("row")
    /\ UNCHANGED <<samples, header, columns>>

\* A column the row does not reach reads as empty.
Cell(k) == Trim(IF k \in DOMAIN AllFields THEN AllFields[k] ELSE <<>>)

\* parse_float: empty is NaN, anything but a number is an error.
IsNumber(text) == text # <<>> /\ ToSet(text) \subseteq {Digit}
Parses(text) == text = <<>> \/ IsNumber(text)
Parsed(text) == IF text = <<>> THEN NaN ELSE Len(text)

BadNumber ==
    /\ SplitEnds("row")
    /\ \E c \in Columns : ~Parses(Cell(columns[c]))
    /\ Goto("failed")
    /\ UNCHANGED <<splitVars, samples, header, columns, rows>>

RowRead ==
    /\ SplitEnds("row")
    /\ \A c \in Columns : Parses(Cell(columns[c]))
    /\ samples' = Append(samples, [ts |-> Len(samples),
           value |-> [c \in Columns |-> Parsed(Cell(columns[c]))]])
    /\ Goto("next")
    /\ UNCHANGED <<splitVars, header, columns, rows>>

EndOfFile ==
    /\ pc = "next"
    /\ Goto(IF samples = <<>> THEN "failed" ELSE "ok")
    /\ UNCHANGED <<splitVars, samples, header, columns, rows>>

Returned == pc \in {"ok", "failed"} /\ UNCHANGED csvVars

CsvNext ==
    \/ CsvOpenFails \/ ReadHeader \/ Split \/ SplitFails
    \/ ColumnMissing \/ HeaderRead
    \/ NextRow \/ BadNumber \/ RowRead \/ EndOfFile
    \/ Returned

CsvSpec == CsvInit /\ [][CsvNext]_csvVars
-----------------------------------------------------------------------------
(* The machine that walks along a line finds the fields that the line has   *)
(* when it is read by the parity of its quotes: as many as there are        *)
(* separators and one more, a plain one as it stands, a quoted one without  *)
(* its quotes.  No line whose fields are all plain or properly quoted is    *)
(* refused (csv_reader.cpp:118-157).                                        *)
SplitAsWritten ==
    /\ SplitEnds("header") \/ SplitEnds("row") =>
          LET chunks == Chunks(line) IN
          /\ Len(AllFields) = Len(chunks)
          /\ \A k \in DOMAIN chunks :
                IsPlain(chunks[k]) \/ IsQuoted(chunks[k])
                  => AllFields[k] = Unquoted(chunks[k])
    /\ pc \in {"header", "row"} /\ SplitFailed => ~WellFormed(line)

\* What a cell of a well-formed line says, found by the name of its column.
TextAt(l, c) ==
    LET k == Max({i \in DOMAIN Chunks(header) :
                     Trim(Unquoted(Chunks(header)[i])) = <<c>>})
    IN  Trim(IF k \in DOMAIN Chunks(l) THEN Unquoted(Chunks(l)[k]) ELSE <<>>)

Solid == {i \in DOMAIN rows : Trim(rows[i]) # <<>>}
DataRows == [k \in 1 .. Cardinality(Solid) |-> rows[Nth(Solid, k)]]

(* The caller's vector keeps what it held until the header has been         *)
(* accepted, then holds one sample per non-blank row in their order, the    *)
(* row that was refused and those after it excepted; success means every    *)
(* row, and at least one.  A sample's values are those under the names of   *)
(* its columns.                                                             *)
SamplesAsRead ==
    /\ columns = <<>> => samples = <<Old>>
    /\ pc = "ok" => samples # <<>> /\ Len(samples) = Len(DataRows)
    /\ pc = "failed" /\ columns # <<>> =>
          Len(samples) = Max({Len(DataRows) - 1, 0})
    /\ columns # <<>> => \A k \in DOMAIN samples :
          /\ samples[k].ts = k - 1
          /\ WellFormed(header) /\ WellFormed(DataRows[k]) =>
                \A c \in Columns :
                    samples[k].value[c] = Parsed(TextAt(DataRows[k], c))
=============================================================================
