------------------------------- MODULE CsvSplit -----------------------------
(***************************************************************************)
(* preprocess/csv_reader.cpp: CsvReader::split_line, which takes a line    *)
(* apart character by character and knows of quotes.                       *)
(*                                                                         *)
(* A line is a sequence of tokens: the two characters the machine looks    *)
(* at, the blank that trim removes, and any others, a column name counting *)
(* as one.  One step consumes what one iteration of the loop does.         *)
(***************************************************************************)
EXTENDS Text

Comma == ","
Quote == "quote"

VARIABLES
    line,      \* the line being split
    pos,       \* i, from 1
    field,     \* the field under construction
    quoted,    \* inside quotes
    fields     \* the fields finished so far

splitVars == <<line, pos, field, quoted, fields>>

BeginSplit(l) ==
    /\ line' = l
    /\ pos' = 1
    /\ field' = <<>>
    /\ quoted' = FALSE
    /\ fields' = <<>>

More == pos <= Len(line)
Next1(c) == More /\ line[pos] = c
Advance(by) == pos' = pos + by /\ UNCHANGED line

\* Mutant: a doubled quote is not looked for.
QuotePairAheadMutant == FALSE

\* Inside quotes, two quotes in a row stand for one.
QuotePairAhead == pos < Len(line) /\ line[pos + 1] = Quote

QuotedQuote ==
    /\ quoted /\ Next1(Quote) /\ QuotePairAhead
    /\ field' = Append(field, Quote)
    /\ Advance(2)
    /\ UNCHANGED <<quoted, fields>>

CloseQuotes ==
    /\ quoted /\ Next1(Quote) /\ ~QuotePairAhead
    /\ quoted' = FALSE
    /\ Advance(1)
    /\ UNCHANGED <<field, fields>>

\* Any other character, and a comma inside quotes, belongs to the field.
TakeCharacter ==
    /\ More /\ line[pos] # Quote
    /\ quoted \/ line[pos] # Comma
    /\ field' = Append(field, line[pos])
    /\ Advance(1)
    /\ UNCHANGED <<quoted, fields>>

EndField ==
    /\ ~quoted /\ Next1(Comma)
    /\ fields' = Append(fields, field)
    /\ field' = <<>>
    /\ Advance(1)
    /\ UNCHANGED quoted

\* A quote may open a field, blanks before it are dropped.
OpenQuotes ==
    /\ ~quoted /\ Next1(Quote) /\ Trim(field) = <<>>
    /\ field' = <<>>
    /\ quoted' = TRUE
    /\ Advance(1)
    /\ UNCHANGED fields

SplitStep ==
    QuotedQuote \/ CloseQuotes \/ TakeCharacter \/ EndField \/ OpenQuotes

\* A quote in the middle of an unquoted field, or none at the end of a quoted one.
SplitFailed ==
    \/ ~quoted /\ Next1(Quote) /\ Trim(field) # <<>>
    \/ quoted /\ ~More

\* The fields of a line that is at its end.
AllFields == Append(fields, field)
-----------------------------------------------------------------------------
\* The same seen from outside: a comma separates when the number of quotes
\* before it is even.
QuotesBefore(l, i) == Cardinality({k \in 1 .. i - 1 : l[k] = Quote})
Separators(l) ==
    {i \in DOMAIN l : l[i] = Comma /\ QuotesBefore(l, i) % 2 = 0}

\* Where the chunks between the separators end, and where the one that ends
\* at e begins.
Ends(l) == Separators(l) \cup {Len(l) + 1}
Begin(l, e) == Max({0} \cup {i \in Separators(l) : i < e}) + 1

Chunks(l) ==
    [k \in 1 .. Cardinality(Ends(l)) |->
        LET e == Nth(Ends(l), k) IN SubSeq(l, Begin(l, e), e - 1)]

IsPlain(chunk) == ~Contains(chunk, Quote)

\* A field in quotes, its inner quotes all doubled.
Inner(chunk) == SubSeq(chunk, 2, Len(chunk) - 1)
OpensPair(s, i) == s[i] = Quote /\ QuotesBefore(s, i) % 2 = 0
IsQuoted(chunk) ==
    /\ Len(chunk) >= 2 /\ chunk[1] = Quote /\ Last(chunk) = Quote
    /\ LET s == Inner(chunk) IN
          \A i \in DOMAIN s : OpensPair(s, i) => i < Len(s) /\ s[i + 1] = Quote

\* Without the first quote of every pair.
Unpaired(s) ==
    LET upTo[i \in 0 .. Len(s)] ==
            IF i = 0 THEN <<>>
            ELSE IF OpensPair(s, i) THEN upTo[i - 1] ELSE Append(upTo[i - 1], s[i])
    IN  upTo[Len(s)]

\* Without the quotes around it as well.
Unquoted(chunk) == IF IsPlain(chunk) THEN chunk ELSE Unpaired(Inner(chunk))

WellFormed(l) ==
    /\ QuotesBefore(l, Len(l) + 1) % 2 = 0
    /\ \A k \in DOMAIN Chunks(l) : IsPlain(Chunks(l)[k]) \/ IsQuoted(Chunks(l)[k])
=============================================================================
