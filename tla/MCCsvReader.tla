---------------------------- MODULE MCCsvReader ----------------------------
\* Two columns; every line of up to four tokens and some longer ones as the first
\* row, every one of up to two as the second; headers in order, reordered, quoted, doubled, and without one of
\* the columns.
EXTENDS PreprocessTool

D1 == "D1"
IMU == "IMU"
MCColumns == {D1, IMU}
MCDigit == "7"
Tokens == {Comma, Quote, Blank, "7", "x"}

MCHeaders == {
    <<D1, Comma, IMU>>,
    <<Quote, IMU, Quote, Comma, Blank, D1>>,
    <<D1, Comma, D1, Comma, IMU, Comma, Blank>>,
    <<D1, Comma, Quote, IMU>>,
    <<D1, Comma, Quote, "x", Comma, IMU, Quote>>,
    <<IMU, Quote, D1, Quote>>}

Lines(n) == SeqOf(Tokens, n)
Longer == {
    <<"7", Comma, Quote, "7", Quote>>,
    <<Blank, Quote, "7", Quote, Comma, "7">>,
    <<Quote, "7", Quote, Quote, "7", Quote>>,
    <<Quote, Comma, Quote, Comma, "7">>,
    <<"7", Comma, Quote, Quote, Quote, Quote, Comma, "7">>,
    <<"x", Comma, "7", "7", Comma, "7">>}

MCRows == <<Lines(4) \cup Longer, Lines(2)>>
=============================================================================
