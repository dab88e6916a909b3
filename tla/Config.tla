------------------------------- MODULE Config -------------------------------
(***************************************************************************)
(* runtime/config.cpp: Config::load, line by line, and the getters.  The   *)
(* file is open from OpenFile on; who changes it on the disk afterwards    *)
(* does not change what is read.  A reading that breaks off ends the loop  *)
(* of load as the end of the file does.                                    *)
(***************************************************************************)
EXTENDS Text

CONSTANTS
    SizeLimit,   \* 2^64: what a size_t counts up to
    IntLimit     \* 2^31: an int is below it and at least its negative

ASSUME LimitAssumption ==
    IntLimit \in Nat \ {0} /\ SizeLimit \in Nat /\ IntLimit < SizeLimit

VARIABLES
    values,      \* values_ : qualified key -> text
    section,     \* the section the next key belongs to
    opened,      \* history: the lines of the file that was opened last
    unread,      \* those not read yet
    status       \* of the load: idle, reading, ok, or failed

configVars == <<values, section, opened, unread, status>>

NoValues == [key \in {} |-> <<>>]

ConfigInit ==
    /\ values = NoValues
    /\ section = <<>>
    /\ opened = <<>>
    /\ unread = <<>>
    /\ status = "idle"
-----------------------------------------------------------------------------
\* The old values are gone once the file is open.
OpenFile(lines) ==
    /\ status = "idle"
    /\ status' = "reading"
    /\ values' = NoValues
    /\ section' = <<>>
    /\ opened' = lines
    /\ unread' = lines

OpenFails ==
    /\ status = "idle"
    /\ status' = "failed"
    /\ UNCHANGED <<values, section, opened, unread>>

Reading == status = "reading" /\ unread # <<>>
Line == Trim(Head(unread))

IsSkipped(l) == l # <<>> => l[1] \in {"#", ";"}
IsSection(l) == ~IsSkipped(l) /\ l[1] = "[" /\ Last(l) = "]"
SectionName(l) == Trim(SubSeq(l, 2, Len(l) - 1))

\* Where the first = stands, 0 if there is none.
EqualsAt(l) == SelectInSeq(l, LAMBDA c : c = "=")
KeyOf(l) == Trim(SubSeq(l, 1, EqualsAt(l) - 1))
ValueOf(l) == Trim(SubSeq(l, EqualsAt(l) + 1, Len(l)))
IsEntry(l) == ~IsSkipped(l) /\ ~IsSection(l) /\ EqualsAt(l) # 0 /\ KeyOf(l) # <<>>

SkipLine ==
    /\ Reading /\ IsSkipped(Line)
    /\ unread' = Tail(unread)
    /\ UNCHANGED <<values, section, opened, status>>

EnterSection ==
    /\ Reading /\ IsSection(Line) /\ SectionName(Line) # <<>>
    /\ section' = SectionName(Line)
    /\ unread' = Tail(unread)
    /\ UNCHANGED <<values, opened, status>>

\* The key as the getters are asked for it.
Qualified(name, key) == IF name = <<>> THEN key ELSE name \o <<".">> \o key

\* Mutant: insert, which keeps the value a key already has.
SetValueMutant ==
    /\ Reading /\ IsEntry(Line)
    /\ values' = values @@ (Qualified(section, KeyOf(Line)) :> ValueOf(Line))
    /\ unread' = Tail(unread)
    /\ UNCHANGED <<section, opened, status>>

SetValue ==
    LET set == Qualified(section, KeyOf(Line)) IN
    /\ Reading /\ IsEntry(Line)
    /\ values' = [key \in DOMAIN values \cup {set} |->
                     IF key = set THEN ValueOf(Line) ELSE values[key]]
    /\ unread' = Tail(unread)
    /\ UNCHANGED <<section, opened, status>>

\* An empty section name, no = at all, or nothing before it.  What has been
\* read so far stays in values_.
BadLine ==
    /\ Reading
    /\ IF IsSection(Line) THEN SectionName(Line) = <<>>
                          ELSE ~IsSkipped(Line) /\ ~IsEntry(Line)
    /\ status' = "failed"
    /\ UNCHANGED <<values, section, opened, unread>>

\* The end of the file, or an error of the stream: getline does not say which.
EndOfLines ==
    /\ status = "reading"
    /\ status' = "ok"
    /\ UNCHANGED <<values, section, opened, unread>>

ReadStep == SkipLine \/ EnterSection \/ SetValue \/ BadLine \/ EndOfLines
-----------------------------------------------------------------------------
(* The getters.  A fallback is returned for a key that is not there and     *)
(* for a text that does not convert to its last character.                  *)

GetString(key, fallback) == IF key \in DOMAIN values THEN values[key] ELSE fallback

Digits == <<"0", "1", "2", "3", "4", "5", "6", "7", "8", "9">>
DigitValue ==
    [d \in ToSet(Digits) |-> (CHOOSE i \in DOMAIN Digits : Digits[i] = d) - 1]

\* stoull and stoi read a sign and decimal digits; both take a minus.
Unsigned(text) ==
    IF text # <<>> /\ text[1] \in {"+", "-"} THEN Tail(text) ELSE text
IsNegative(text) == text[1] = "-"
IsWhole(text) ==
    Unsigned(text) # <<>> /\ ToSet(Unsigned(text)) \subseteq DOMAIN DigitValue
Magnitude(text) ==
    LET u == Unsigned(text)
        upTo[k \in 0 .. Len(u)] ==
            IF k = 0 THEN 0 ELSE 10 * upTo[k - 1] + DigitValue[u[k]]
    IN  upTo[Len(u)]

\* Mutant: what follows the number is not looked at.
SizeOfMutant(text, fallback) ==
    IF text # <<>> /\ text[1] \in DOMAIN DigitValue
    THEN Magnitude(SelectSeq(text, LAMBDA c : c \in DOMAIN DigitValue)) % SizeLimit
    ELSE fallback

\* strtoull negates in the unsigned type.
SizeOf(text, fallback) ==
    IF IsWhole(text) /\ Magnitude(text) < SizeLimit
    THEN (IF IsNegative(text) THEN SizeLimit - Magnitude(text)
                              ELSE Magnitude(text)) % SizeLimit
    ELSE fallback

IntOf(text, fallback) ==
    LET n == IF IsNegative(text) THEN -Magnitude(text) ELSE Magnitude(text)
    IN  IF IsWhole(text) /\ n \in -IntLimit .. IntLimit - 1 THEN n ELSE fallback

GetSize(key, fallback) ==
    IF key \in DOMAIN values THEN SizeOf(values[key], fallback) ELSE fallback
GetInt(key, fallback) ==
    IF key \in DOMAIN values THEN IntOf(values[key], fallback) ELSE fallback
-----------------------------------------------------------------------------
\* The same seen from the file as a whole.  The lines that have been read,
\* the name of the last section line up to the k-th, and the entries a
\* qualified key has.
RawLines == SubSeq(opened, 1, Len(opened) - Len(unread))
LinesRead == [k \in DOMAIN RawLines |-> Trim(RawLines[k])]
SectionAt(k) ==
    LET before == {i \in 1 .. k : IsSection(LinesRead[i])}
    IN  IF before = {} THEN <<>> ELSE SectionName(LinesRead[Max(before)])
KeyAt(k) == Qualified(SectionAt(k), KeyOf(LinesRead[k]))
Entries == {k \in DOMAIN LinesRead : IsEntry(LinesRead[k])}

(* values_ is what the lines read so far say: every entry counts, under the *)
(* last section before it, the last one of several with the same qualified  *)
(* key wins, whether the section is written in brackets or in the key; and  *)
(* no line that is none of blank, comment, section or entry was passed over *)
(* (config.hpp:12: "rejects malformed lines instead of silently ignoring    *)
(* them").                                                                  *)
ValuesAsWritten ==
    status # "idle" =>
        /\ DOMAIN values = {KeyAt(k) : k \in Entries}
        /\ \A k \in Entries :
              (\A j \in Entries : KeyAt(j) = KeyAt(k) => j <= k)
                  => values[KeyAt(k)] = ValueOf(LinesRead[k])
        /\ \A k \in DOMAIN LinesRead :
              LET l == LinesRead[k] IN
              IsSkipped(l) \/ IsEntry(l) \/ (IsSection(l) /\ SectionName(l) # <<>>)

\* Whether a getter finds a number does not depend on the fallback it is given.
Finds(get(_, _), key) == get(key, 0) = get(key, 1)

(* A number get_int finds is found by get_size too, and is the same one     *)
(* modulo 2^64: a size that was written with a minus comes out huge and is  *)
(* not refused (config.cpp:87 against :74).                                 *)
GettersAgree ==
    \A key \in DOMAIN values :
        Finds(GetInt, key) =>
            /\ Finds(GetSize, key)
            /\ GetSize(key, 0) = GetInt(key, 0) % SizeLimit
=============================================================================
