------------------------------ MODULE MCStartup -----------------------------
\* A size_t of 4 bits and an int of 3.  Every file of one line over a small
\* alphabet; files of up to three lines out of some that name the capacity,
\* open a section, or are wrong.
EXTENDS Startup

MCCapacityKey == <<"pipeline", ".", "capacity">>
MCLevelKey == <<"logging", ".", "level">>
MCLogFileKey == <<"logging", ".", "file">>

Cap(text) == <<"capacity", Blank, "=", Blank>> \o text

OneLine == SeqOf({"[", "]", "=", "#", Blank, "k"}, 4)

Texts == {<<"0">>, <<"7">>, <<"1", "5">>, <<"1", "6">>, <<"-", "1">>, <<"-", "4">>,
          <<"+", "2">>, <<"2", Blank, "#">>, <<"2", "x">>, <<"-">>, <<>>}

Lines == {
    <<"[", Blank, "pipeline", "]">>,
    <<"[", "logging", "]", Blank>>,
    <<"[", "]">>,
    <<"[", "pipeline", "]", Blank, "#">>,
    <<"#", "capacity", "=", "3">>,
    <<"pipeline", ".", "capacity", "=", "2">>,
    <<"level", "=", "warn">>,
    <<"level", "=", "verbose">>,
    <<"file", "=", "k">>}

InSection(entries) == {<< <<"[", "pipeline", "]">>, e >> : e \in entries}

MCFiles ==
    {<<l>> : l \in OneLine}
        \cup InSection({Cap(t) : t \in Texts})
        \cup UNION {[1 .. n -> Lines \cup {Cap(<<"2">>), Cap(<<"5">>)}] : n \in 0 .. 3}

MCEdits ==
    {<<>>} \cup InSection({Cap(<<"2">>), Cap(<<"-", "1">>), Cap(<<"0">>), <<"=">>})
=============================================================================
