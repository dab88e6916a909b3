---------------------------- MODULE LibraryProofs ----------------------------
(***************************************************************************)
(* Components of the library, each for all values of its constants: the    *)
(* conversions to int8, the logger, the watchdog, the buffer pool, the     *)
(* classifier, and the engine with its bridge.                             *)
(***************************************************************************)
EXTENDS Quantizer, Logger, Watchdog, BufferPool, Classifier, RknnEngine, DataProofs

USE CodesAssumption, ValuesAssumption

(* Rounding: nothing lies nearer than half a unit, which is two quarters.   *)
LEMMA RoundIsNear ==
    ASSUME NEW q \in Int
    PROVE  /\ Round(q) \in Int
           /\ 4 * Round(q) - 2 <= q
           /\ q <= 4 * Round(q) + 2
BY SMT DEF Round

(* What fits the int is not changed on the way through a long.              *)
LEMMA LowBitsKeep ==
    ASSUME NEW n \in Ints
    PROVE  LowBits(n) = n
<1> DEFINE width == IntMax - IntMin + 1
           offset == n - IntMin
<1>1. width \in Nat \ {0} /\ offset \in Nat /\ offset < width
  BY DEF Ints
<1>2. ASSUME NEW w \in Nat \ {0}, NEW k \in Nat, k < w
      PROVE  k % w = k
  BY <1>2, SMT
<1>3. offset % width = offset
  BY <1>1, <1>2
<1> QED
  BY <1>3 DEF LowBits, Ints

(* Of all codes, the clamped sum is the nearest to the value.               *)
LEMMA ClampedIsNearest ==
    ASSUME NEW q \in Int, NEW z \in Int, NEW r \in Int,
           4 * r - 2 <= q, q <= 4 * r + 2, NEW d \in Codes
    PROVE  Distance(4 * (Clamped(r + z) - z), q) <= Distance(4 * (d - z), q)
<1>1. d \in Int /\ MinCode <= d /\ d <= MaxCode
  BY DEF Codes
<1>2. CASE r + z < MinCode
  BY <1>1, <1>2, SMT DEF Clamped, Distance
<1>3. CASE r + z > MaxCode
  BY <1>1, <1>3, SMT DEF Clamped, Distance
<1>4. CASE ~(r + z < MinCode) /\ ~(r + z > MaxCode)
  BY <1>1, <1>4, SMT DEF Clamped, Distance
<1> QED
  BY <1>2, <1>3, <1>4
-----------------------------------------------------------------------------
(* A code that was returned for a value that fits is the clamped sum.       *)
QuantInv ==
    /\ quotient \in Int /\ zero \in Int
    /\ code \in [Conversions -> Codes \cup {None}]
    /\ Representable => \A c \in Conversions :
          code[c] \in {None, Clamped(Round(quotient) + zero)}

LEMMA QuantInvInit == QuantInit => QuantInv
BY DEF QuantInit, QuantInv

LEMMA ConversionKeeps ==
    ASSUME QuantInv, NEW c \in Conversions, NEW ints, ints \subseteq Ints,
           Converted(c, ints),
           Representable => ints = {Round(quotient)}
    PROVE  QuantInv'
<1>1. PICK i \in ints : \E n \in IntSum(i, zero) :
          code' = [code EXCEPT ![c] = Clamped(n)]
  BY DEF Converted
<1>2. PICK n \in IntSum(i, zero) : code' = [code EXCEPT ![c] = Clamped(n)]
  BY <1>1
<1>3. quotient' = quotient /\ zero' = zero
  BY DEF Converted
<1>4. i \in Int /\ n \in Int
  BY DEF IntSum, ToInt, Ints, QuantInv
<1>5. Clamped(n) \in Codes
  BY <1>4 DEF Clamped, Codes
<1>6. code' \in [Conversions -> Codes \cup {None}]
  BY <1>2, <1>5 DEF QuantInv
<1>7. Representable => n = Round(quotient) + zero
  BY DEF Representable, IntSum, ToInt
<1>8. Representable' <=> Representable
  BY <1>3 DEF Representable
<1>9. Representable => \A o \in Conversions :
          code'[o] \in {None, Clamped(Round(quotient) + zero)}
  BY <1>2, <1>7 DEF QuantInv
<1> QED
  BY <1>3, <1>6, <1>8, <1>9 DEF QuantInv

LEMMA QuantInvStep == QuantInv /\ [QuantNext]_quantVars => QuantInv'
<1> SUFFICES ASSUME QuantInv, [QuantNext]_quantVars PROVE QuantInv'
  OBVIOUS
<1>1. Round(quotient) \in Int
  BY RoundIsNear DEF QuantInv
<1>2. /\ ToInt(Round(quotient)) \subseteq Ints
      /\ Representable => ToInt(Round(quotient)) = {Round(quotient)}
  BY DEF ToInt, Representable
<1>3. LowBits(Round(quotient)) \in Ints
  <2> DEFINE width == IntMax - IntMin + 1
             offset == Round(quotient) - IntMin
  <2>1. width \in Nat \ {0} /\ offset \in Int
    BY <1>1
  <2>2. ASSUME NEW w \in Nat \ {0}, NEW k \in Int
        PROVE  k % w \in 0 .. w - 1
    BY <2>2, SMT
  <2>3. offset % width \in 0 .. width - 1
    BY <2>1, <2>2
  <2> QED
    BY <2>3 DEF LowBits, Ints
<1>4. Representable => {LowBits(Round(quotient))} = {Round(quotient)}
  BY LowBitsKeep DEF Representable
<1>5. CASE Quantize
  BY <1>2, <1>5, ConversionKeeps DEF Quantize, Conversions
<1>6. CASE FloatToInt8
  BY <1>2, <1>6, ConversionKeeps DEF FloatToInt8, Conversions
<1>7. CASE PackFloat
  BY <1>2, <1>7, ConversionKeeps DEF PackFloat, Conversions
<1>8. CASE QuantizeInt8
  BY <1>3, <1>4, <1>8, ConversionKeeps DEF QuantizeInt8, Conversions
<1>9. CASE UNCHANGED quantVars
  BY <1>9 DEF QuantInv, quantVars, Representable
<1> QED
  BY <1>5, <1>6, <1>7, <1>8, <1>9 DEF QuantNext, AllConverted

(* All four conversions return the code nearest to the value, saturation    *)
(* included, whenever the intermediate results fit an int: for codes and    *)
(* ints of any width, every zero point and every value in quarters.         *)
THEOREM NearestCodes == QuantSpec => []CodesNearest
<1>1. QuantSpec => []QuantInv
  BY QuantInvInit, QuantInvStep, PTL DEF QuantSpec
<1>2. QuantInv => CodesNearest
  <2> SUFFICES ASSUME QuantInv, Representable,
                      NEW c \in Conversions, code[c] # None
               PROVE  /\ \A d \in Codes :
                            Distance(Dequantized(code[c]), quotient)
                              <= Distance(Dequantized(d), quotient)
                      /\ \A other \in Conversions : code[other] \in {None, code[c]}
    BY DEF CodesNearest
  <2>1. code[c] = Clamped(Round(quotient) + zero)
    BY DEF QuantInv
  <2>2. \A d \in Codes : Distance(Dequantized(code[c]), quotient)
                           <= Distance(Dequantized(d), quotient)
    BY <2>1, RoundIsNear, ClampedIsNearest DEF QuantInv, Dequantized
  <2> QED
    BY <2>1, <2>2 DEF QuantInv
<1> QED
  BY <1>1, <1>2, PTL
-----------------------------------------------------------------------------
(* The logger.  The types, and what the invariant says position by          *)
(* position: where the part that was added begins, and how long it is.      *)
LogTypes ==
    /\ target \in LogFiles \cup {Closed}
    /\ good \in BOOLEAN
    /\ content \in [LogFiles -> Seq(Nat)]
    /\ messages \in Nat
    /\ due \in Seq(Nat)
    /\ base \in Seq(Nat)

FileInv ==
    target # Closed =>
        LET c == content[target]
            b == Len(base)
        IN  /\ b <= Len(c) /\ Len(c) <= b + Len(due)
            /\ \A k \in 1..b : c[k] = base[k]
            /\ \A k \in b + 1..Len(c) :
                  c[k] = due[k - b] \/ (c[k] = Torn /\ k = Len(c) /\ ~good)
            /\ good => Len(c) = b + Len(due)

LogInv == LogTypes /\ FileInv

LEMMA LogInvInit == LoggerInit => LogInv
BY DEF LoggerInit, LogInv, LogTypes, FileInv

(* The first n elements of a file.                                          *)
LEMMA BeginningIs ==
    ASSUME NEW s \in Seq(Nat), NEW n \in Nat, n <= Len(s)
    PROVE  /\ SubSeq(s, 1, n) \in Seq(Nat) /\ Len(SubSeq(s, 1, n)) = n
           /\ \A i \in 1..n : SubSeq(s, 1, n)[i] = s[i]
OBVIOUS

(* What a line that was due makes of the file.                              *)
LEMMA WriteKeeps ==
    ASSUME LogInv, target # Closed, NEW m \in Nat, Writes(m),
           due' = Append(due, m), target' = target, base' = base
    PROVE  content' \in [LogFiles -> Seq(Nat)] /\ good' \in BOOLEAN /\ FileInv'
<1> DEFINE c == content[target]
           b == Len(base)
           n == Len(c)
<1>1. /\ target \in LogFiles /\ c \in Seq(Nat) /\ n \in Nat /\ b \in Nat
      /\ Len(due) \in Nat /\ due \in Seq(Nat)
  BY DEF LogInv, LogTypes
<1>2. /\ b <= n /\ n <= b + Len(due)
      /\ \A k \in 1..b : c[k] = base[k]
      /\ \A k \in b + 1..n : c[k] = due[k - b] \/ (c[k] = Torn /\ k = n /\ ~good)
      /\ good => n = b + Len(due)
  BY DEF LogInv, FileInv
<1>3. /\ Len(due') = Len(due) + 1
      /\ \A k \in 1..Len(due) : due'[k] = due[k]
      /\ due'[Len(due) + 1] = m
  BY <1>1
<1>4. \A k \in b + 1..n : k - b \in 1..Len(due)
  BY <1>1, <1>2
<1>5. ASSUME NEW line \in {m, Torn}, good,
             content' = [content EXCEPT ![target] = Append(@, line)],
             good' \in BOOLEAN, good' = (line = m /\ good') , line = m \/ ~good'
      PROVE  content' \in [LogFiles -> Seq(Nat)] /\ FileInv'
  <2>1. content'[target] = Append(c, line) /\ line \in Nat
    BY <1>1, <1>5 DEF LogInv, LogTypes, Torn
  <2>2. content' \in [LogFiles -> Seq(Nat)]
    BY <1>1, <1>5, <2>1 DEF LogInv, LogTypes
  <2> DEFINE d == content'[target]
  <2>3. Len(d) = n + 1 /\ (\A k \in 1..n : d[k] = c[k]) /\ d[n + 1] = line
    BY <1>1, <2>1
  <2> HIDE DEF c, n, b, d
  <2>4. n = b + Len(due)
    BY <1>2, <1>5
  <2>5. \A k \in 1..b : d[k] = base[k]
    BY <1>1, <1>2, <2>3
  <2>6. ASSUME NEW k \in b + 1..Len(d)
        PROVE  d[k] = due'[k - b] \/ (d[k] = Torn /\ k = Len(d) /\ ~good')
    <3>1. CASE k = n + 1
      <4>1. k - b = Len(due) + 1 /\ d[k] = line /\ k = Len(d)
        BY <1>1, <2>3, <2>4, <3>1
      <4> QED
        BY <1>3, <1>5, <4>1
    <3>2. CASE k \in b + 1..n
      <4>1. d[k] = c[k] /\ k - b \in 1..Len(due)
        <5>1. d[k] = c[k]
          BY <1>1, <2>3, <3>2
        <5>2. k - b \in 1..Len(due)
          BY <1>1, <1>2, <2>4, <3>2
        <5> QED
          BY <5>1, <5>2
      <4> QED
        BY <1>2, <1>3, <1>5, <3>2, <4>1
    <3>3. k = n + 1 \/ k \in b + 1..n
      BY <1>1, <2>3
    <3> QED
      BY <3>1, <3>2, <3>3
  <2>7. b <= Len(d) /\ Len(d) = b + Len(due')
    BY <1>1, <1>3, <2>3, <2>4
  <2>8. FileInv'
    <3>1. content'[target'] = d /\ Len(base') = b /\ base' = base
      BY DEF b, d
    <3> QED
      BY ONLY <2>5, <2>6, <2>7, <3>1 DEF FileInv
  <2> QED
    BY <2>2, <2>8
<1>6. ASSUME content' = content, good' = FALSE
      PROVE  FileInv'
  <2> HIDE DEF n, b
  <2>1. \A k \in b + 1..n : c[k] = due'[k - b] \/ (c[k] = Torn /\ k = n /\ ~good')
    BY <1>2, <1>3, <1>4, <1>6
  <2>2. n <= b + Len(due')
    BY <1>1, <1>2, <1>3
  <2> QED
    BY <1>2, <1>6, <2>1, <2>2 DEF FileInv, b, n
<1>7. CASE good /\ content' = [content EXCEPT ![target] = Append(@, m)] /\ good' = TRUE
  BY <1>5, <1>7
<1>8. CASE good /\ content' = [content EXCEPT ![target] = Append(@, Torn)] /\ good' = FALSE
  BY <1>5, <1>8
<1>9. CASE content' = content /\ good' = FALSE
  BY <1>6, <1>9 DEF LogInv, LogTypes
<1> QED
  BY <1>7, <1>8, <1>9 DEF Writes

LEMMA LogInvStep == LogInv /\ [LoggerNext]_loggerVars => LogInv'
<1> SUFFICES ASSUME LogInv, [LoggerNext]_loggerVars PROVE LogInv'
  OBVIOUS
<1>1. ASSUME NEW l \in Severities, SetLevel(l) PROVE LogInv'
  BY <1>1 DEF SetLevel, LogInv, LogTypes, FileInv
<1>2. ASSUME NEW f \in LogFiles, SetFile(f) PROVE LogInv'
  <2>1. PICK opens \in BOOLEAN :
          target' = (IF opens THEN f ELSE Closed) /\ good' = opens
    BY <1>2 DEF SetFile
  <2>2. due' = <<>> /\ base' = content[f] /\ UNCHANGED <<content, messages>>
    BY <1>2 DEF SetFile
  <2>3. content[f] \in Seq(Nat)
    BY DEF LogInv, LogTypes
  <2>4. LogTypes'
    BY <2>1, <2>2, <2>3 DEF LogInv, LogTypes
  <2>5. ASSUME target' # Closed
        PROVE  content'[target'] = base' /\ Len(base') \in Nat /\ Len(due') = 0
    BY <2>1, <2>2, <2>3, <2>5
  <2>6. FileInv'
    BY <2>5 DEF FileInv
  <2> QED
    BY <2>4, <2>6 DEF LogInv
<1>3. CASE ClearFile
  BY <1>3 DEF ClearFile, LogInv, LogTypes, FileInv
<1>4. ASSUME NEW l \in Severities, Log(l) PROVE LogInv'
  <2>1. messages' = messages + 1 /\ messages' \in Nat /\ UNCHANGED <<target, base>>
    BY <1>4 DEF Log, LogInv, LogTypes
  <2>2. CASE l < minLevel
    BY <1>4, <2>1, <2>2 DEF Log, LogInv, LogTypes, FileInv
  <2>3. CASE ~(l < minLevel) /\ target = Closed
    <3>1. due' = Append(due, messages') /\ UNCHANGED <<content, good>>
      BY <1>4, <2>3 DEF Log
    <3>2. due' \in Seq(Nat)
      BY <2>1, <3>1 DEF LogInv, LogTypes
    <3> QED
      BY <2>1, <2>3, <3>1, <3>2 DEF LogInv, LogTypes, FileInv
  <2>4. CASE ~(l < minLevel) /\ target # Closed
    <3>1. due' = Append(due, messages') /\ Writes(messages')
      BY <1>4, <2>4 DEF Log
    <3>2. content' \in [LogFiles -> Seq(Nat)] /\ good' \in BOOLEAN /\ FileInv'
      BY <2>1, <2>4, <3>1, WriteKeeps
    <3>3. due' \in Seq(Nat)
      BY <2>1, <3>1 DEF LogInv, LogTypes
    <3> QED
      BY <2>1, <3>2, <3>3 DEF LogInv, LogTypes
  <2> QED
    BY <2>2, <2>3, <2>4
<1>5. CASE UNCHANGED loggerVars
  BY <1>5 DEF loggerVars, LogInv, LogTypes, FileInv
<1> QED
  BY <1>1, <1>2, <1>3, <1>4, <1>5 DEF LoggerNext

(* Whatever fails and whoever logs, the open file has no gaps and nothing   *)
(* out of order: for any files, levels and number of messages.              *)
THEOREM NoGaps == LoggerSpec => []LogWithoutGaps
<1>1. LoggerSpec => []LogInv
  BY LogInvInit, LogInvStep, PTL DEF LoggerSpec
<1>2. LogInv => LogWithoutGaps
  <2> SUFFICES ASSUME LogInv, target # Closed PROVE LogWithoutGaps
    BY DEF LogWithoutGaps
  <2> DEFINE c == content[target]
             b == Len(base)
  <2>1. c \in Seq(Nat) /\ base \in Seq(Nat) /\ b \in Nat /\ Len(c) \in Nat
        /\ Len(due) \in Nat
    BY DEF LogInv, LogTypes
  <2>2. /\ b <= Len(c) /\ Len(c) <= b + Len(due)
        /\ \A k \in 1..b : c[k] = base[k]
        /\ \A k \in b + 1..Len(c) :
              c[k] = due[k - b] \/ (c[k] = Torn /\ k = Len(c) /\ ~good)
        /\ good => Len(c) = b + Len(due)
    BY DEF LogInv, FileInv
  <2>3. /\ Len(Appended) = Len(c) - b
        /\ DOMAIN Appended = 1..Len(c) - b
        /\ \A k \in 1..Len(c) - b : Appended[k] = c[b + k]
    <3>1. Appended = SubSeq(c, b + 1, Len(c))
      BY DEF Appended
    <3> HIDE DEF c, b
    <3>2. /\ b + 1 \in Int /\ Len(c) \in Int /\ Len(c) - b \in Nat
          /\ \A i \in b + 1..Len(c) : c[i] \in Nat
      BY <2>1, <2>2
    <3>3. /\ Appended \in Seq(Nat)
          /\ Len(Appended) = IF b + 1 <= Len(c) THEN Len(c) - (b + 1) + 1 ELSE 0
          /\ \A i \in 1..Len(c) - (b + 1) + 1 : Appended[i] = c[(b + 1) + i - 1]
      BY <3>1, <3>2, SubSeqProperties
    <3>4. Len(Appended) = Len(c) - b /\ DOMAIN Appended = 1..Len(c) - b
      BY <2>1, <3>2, <3>3
    <3>5. ASSUME NEW i \in 1..Len(c) - b
          PROVE  Appended[i] = c[b + i]
      <4>1. i \in 1..Len(c) - (b + 1) + 1 /\ (b + 1) + i - 1 = b + i
        BY <2>1
      <4> QED
        BY <3>3, <4>1
    <3> QED
      BY <3>4, <3>5
  <2>4. IsPrefix(base, c)
    <3> HIDE DEF c
    <3>1. b <= Len(base) /\ b <= Len(c)
      BY <2>1, <2>2
    <3>2. SubSeq(base, 1, b) = SubSeq(c, 1, b)
      <4> DEFINE x == SubSeq(base, 1, b)
                 y == SubSeq(c, 1, b)
      <4>1. x \in Seq(Nat) /\ Len(x) = b /\ \A i \in 1..b : x[i] = base[i]
        BY <2>1, <3>1, BeginningIs
      <4>2. y \in Seq(Nat) /\ Len(y) = b /\ \A i \in 1..b : y[i] = c[i]
        BY <2>1, <3>1, BeginningIs
      <4> HIDE DEF x, y, b
      <4>3. Len(x) = Len(y) /\ \A i \in 1..Len(x) : x[i] = y[i]
        BY <2>2, <4>1, <4>2
      <4>4. x = y
        BY <4>1, <4>2, <4>3, SeqEqual
      <4> QED
        BY <4>4 DEF x, y
    <3> QED
      BY <2>2, <3>2 DEF IsPrefix
  <2>5. ASSUME NEW k \in DOMAIN Appended
        PROVE  Appended[k] = due[k] \/ (Appended[k] = Torn /\ k = Len(Appended) /\ ~good)
    <3> HIDE DEF c, b
    <3>1. k \in 1..Len(c) - b /\ Appended[k] = c[b + k] /\ Len(Appended) = Len(c) - b
      BY <2>3
    <3>2. b + k \in b + 1..Len(c) /\ (b + k) - b = k
      <4>1. b \in Nat /\ Len(c) \in Nat /\ k \in 1..Len(c) - b
        BY <2>1, <3>1
      <4> QED
        BY ONLY <4>1
    <3>3. b + k = Len(c) => k = Len(Appended)
      BY <2>1, <3>1
    <3> QED
      BY <2>2, <3>1, <3>2, <3>3
  <2>6. Len(Appended) <= Len(due) /\ (good => Len(Appended) = Len(due))
    BY <2>1, <2>2, <2>3
  <2> QED
    BY <2>4, <2>5, <2>6 DEF LogWithoutGaps
<1> QED
  BY <1>1, <1>2, PTL
-----------------------------------------------------------------------------
(* The verdict of the watchdog, for every set of beating threads, every     *)
(* timeout and every length of time.                                        *)

Reading == Time \cup {Unread}

\* The types, and no reading from the future.
DogTypes ==
    /\ now \in Time /\ lastMs \in Time /\ newest \in Time
    /\ began \in Time /\ freshest \in Time
    /\ beat \in [Beaters -> Reading]
    /\ clockSeen \in Reading /\ lastSeen \in Reading
    /\ overtaken \in BOOLEAN
    /\ verdict \in {"none", "pending", "healthy", "stale"}
    /\ began <= now /\ clockSeen <= now

\* What is stored is the newest reading, unless it was overtaken; what healthy
\* has read was read during the call.
Stored ==
    /\ lastMs <= newest
    /\ ~overtaken => lastMs = newest
    /\ freshest <= newest
    /\ verdict = "pending" =>
          /\ clockSeen # Unread => began <= clockSeen
          /\ lastSeen # Unread =>
                lastSeen <= newest /\ (~overtaken => freshest <= lastSeen)

DogInv == DogTypes /\ Stored /\ VerdictTrue

(* A watchdog that was just built has given no verdict.                     *)
LEMMA DogInvInit == DogInit => DogInv
<1> SUFFICES ASSUME DogInit PROVE DogInv
  OBVIOUS
<1> USE TimeAssumption DEF DogInit, Time, Reading, Unread
<1>1. DogTypes
  <2>1. now \in Time /\ 0 \in Time /\ -1 <= now
    OBVIOUS
  <2>2. beat \in [Beaters -> Reading]
    OBVIOUS
  <2>3. overtaken \in BOOLEAN /\ verdict = "none"
    OBVIOUS
  <2>4. lastMs \in Time /\ newest \in Time /\ began \in Time /\ freshest \in Time
    BY <2>1
  <2>5. clockSeen = -1 /\ lastSeen = -1
    OBVIOUS
  <2> QED
    BY <2>1, <2>2, <2>3, <2>4, <2>5 DEF DogTypes
<1>2. Stored
  BY DEF Stored
<1>3. VerdictTrue
  BY DEF VerdictTrue
<1> QED
  BY <1>1, <1>2, <1>3 DEF DogInv

(* No step of a beater or of the caller of healthy breaks the invariant.    *)
LEMMA DogInvStep == DogInv /\ [DogNext]_dogVars => DogInv'
<1> SUFFICES ASSUME DogInv, [DogNext]_dogVars
             PROVE  DogInv'
  OBVIOUS
<1> USE TimeAssumption DEF DogInv, DogTypes, Stored, VerdictTrue, Time, Reading,
                           Unread
<1>1. CASE Tick
  BY <1>1 DEF Tick
<1>2. ASSUME NEW b \in Beaters, BeatRead(b)
      PROVE  DogInv'
  BY <1>2 DEF BeatRead
<1>3. ASSUME NEW b \in Beaters, BeatStore(b)
      PROVE  DogInv'
  <2>1. beat[b] \in 0..MaxTime
    BY <1>3 DEF BeatStore
  <2>2. newest' \in 0..MaxTime /\ newest <= newest' /\ beat[b] <= newest'
    BY <1>3, <2>1 DEF BeatStore
  <2>3. ~overtaken' => ~overtaken /\ beat[b] = newest'
    <3>1. ~overtaken' => ~overtaken /\ ~(beat[b] < newest)
      BY <1>3, Zenon DEF BeatStore
    <3> QED
      BY <1>3, <2>1, <3>1 DEF BeatStore
  <2>4. DogTypes'
    BY <1>3, <2>1, <2>2 DEF BeatStore
  <2>5. Stored'
    BY <1>3, <2>1, <2>2, <2>3 DEF BeatStore
  <2>6. VerdictTrue'
    BY <1>3, <2>2, <2>3 DEF BeatStore
  <2> QED
    BY <2>4, <2>5, <2>6
<1>4. CASE CallHealthy
  BY <1>4 DEF CallHealthy
<1>5. CASE ReadClock
  BY <1>5 DEF ReadClock
<1>6. CASE ReadLast
  BY <1>6 DEF ReadLast
<1>7. CASE ReturnHealthy
  BY <1>7 DEF ReturnHealthy, Within
<1>8. CASE UNCHANGED dogVars
  BY <1>8 DEF dogVars
<1> QED
  BY <1>1, <1>2, <1>3, <1>4, <1>5, <1>6, <1>7, <1>8 DEF DogNext

(* A verdict of healthy is true of some instant of the call, and one of     *)
(* stale means that no beat was fresh, or that one was overtaken; however   *)
(* the two readings, the beats and the clock interleave.                    *)
THEOREM VerdictsTrue == DogSpec => []VerdictTrue
<1>1. DogSpec => []DogInv
  BY DogInvInit, DogInvStep, PTL DEF DogSpec
<1>2. DogInv => VerdictTrue
  BY DEF DogInv
<1> QED
  BY <1>1, <1>2, PTL
-----------------------------------------------------------------------------
(* The account of the pool, for every finite set of buffers and every       *)
(* sequence of right and wrong calls.                                       *)

PoolTypes ==
    /\ free \in Seq(Buffers)
    /\ owners \in [Buffers -> Nat]
    /\ extra \in [Buffers -> Nat]

PoolInv == PoolTypes /\ BuffersAccounted

Where(s, b) == {i \in DOMAIN s : s[i] = b}

(* What a beginning of a sequence consists of.                              *)
LEMMA Beginning ==
  ASSUME NEW s \in Seq(Buffers), NEW n \in Nat, n <= Len(s)
  PROVE  /\ SubSeq(s, 1, n) \in Seq(Buffers)
         /\ Len(SubSeq(s, 1, n)) = n
         /\ \A i \in 1 .. n : SubSeq(s, 1, n)[i] = s[i]
  OBVIOUS

(* One more element at the end of a sequence is one more occurrence of it   *)
(* and of nothing else.                                                     *)
LEMMA OneMore ==
  ASSUME NEW s \in Seq(Buffers), NEW t \in Seq(Buffers), Len(t) = Len(s) + 1,
         \A i \in 1 .. Len(s) : t[i] = s[i],
         NEW b \in Buffers
  PROVE  /\ Cardinality(Where(s, b)) \in Nat
         /\ Cardinality(Where(t, b))
               = Cardinality(Where(s, b)) + (IF t[Len(t)] = b THEN 1 ELSE 0)
<1>1. DOMAIN s = 1 .. Len(s) /\ DOMAIN t = 1 .. (Len(s) + 1) /\ Len(s) \in Nat
  OBVIOUS
<1>2. IsFiniteSet(Where(s, b))
  <2>1. Where(s, b) \subseteq 1 .. Len(s)
    BY <1>1 DEF Where
  <2>2. IsFiniteSet(1 .. Len(s))
    <3>1. 1 \in Int /\ Len(s) \in Int
      BY <1>1
    <3> QED
      BY ONLY <3>1, FS_Interval
  <2> QED
    BY <2>1, <2>2, FS_Subset
<1>3. CASE t[Len(t)] = b
  <2>1. Where(t, b) = Where(s, b) \cup {Len(t)} /\ Len(t) \notin Where(s, b)
    BY <1>1, <1>3 DEF Where
  <2> QED
    BY <1>2, <1>3, <2>1, FS_AddElement, FS_CardinalityType
<1>4. CASE t[Len(t)] # b
  <2>1. Where(t, b) = Where(s, b)
    BY <1>1, <1>4 DEF Where
  <2> QED
    BY <1>2, <1>4, <2>1, FS_CardinalityType
<1> QED
  BY <1>3, <1>4

(* A new pool has each of its buffers once, in the free list.               *)
LEMMA PoolInvInit == PoolInit => PoolInv
<1> SUFFICES ASSUME PoolInit PROVE PoolInv
  OBVIOUS
<1>1. Cardinality(Buffers) \in Nat
  BY BuffersAssumption, FS_CardinalityType
<1>2. PoolTypes
  BY <1>1 DEF PoolInit, PoolTypes
<1>3. ASSUME NEW b \in Buffers PROVE Copies(b) + owners[b] = 1 + extra[b]
  <2>1. PICK i \in DOMAIN free : free[i] = b
    BY DEF PoolInit
  <2>2. {j \in DOMAIN free : free[j] = b} = {i}
    BY <2>1 DEF PoolInit
  <2>3. Copies(b) = 1
    BY <2>2, FS_Singleton DEF Copies
  <2> QED
    BY <2>3 DEF PoolInit
<1> QED
  BY <1>2, <1>3 DEF PoolInv, BuffersAccounted

(* A buffer that is put back is in the free list once more.                 *)
LEMMA PutBack ==
  ASSUME PoolTypes, NEW b \in Buffers, Released(b)
  PROVE  /\ free' \in Seq(Buffers)
         /\ \A c \in Buffers :
               Copies(c) \in Nat /\ Copies(c)' = Copies(c) + (IF b = c THEN 1 ELSE 0)
<1>1. free' = Append(free, b) /\ free \in Seq(Buffers)
  BY DEF Released, PoolTypes
<1>2. /\ free' \in Seq(Buffers) /\ Len(free') = Len(free) + 1
      /\ \A i \in 1 .. Len(free) : free'[i] = free[i]
      /\ free'[Len(free')] = b
  BY <1>1
<1>3. ASSUME NEW c \in Buffers
      PROVE  /\ Copies(c) \in Nat
             /\ Copies(c)' = Copies(c) + (IF b = c THEN 1 ELSE 0)
  BY <1>1, <1>2, OneMore DEF Copies, Where
<1> QED
  BY <1>2, <1>3

(* No call, by an owner or by somebody else, breaks the account.            *)
LEMMA PoolInvStep == PoolInv /\ [PoolNext]_poolVars => PoolInv'
<1> SUFFICES ASSUME PoolInv, [PoolNext]_poolVars
             PROVE  PoolInv'
  OBVIOUS
<1>0. PoolTypes /\ \A c \in Buffers : Copies(c) + owners[c] = 1 + extra[c]
  BY DEF PoolInv, BuffersAccounted
<1>1. CASE Acquire
  <2> DEFINE b == free[Len(free)]
  <2>1. free \in Seq(Buffers) /\ Len(free) > 0 /\ b \in Buffers
    BY <1>0, <1>1 DEF PoolTypes, Acquire
  <2>2. /\ free' \in Seq(Buffers) /\ Len(free) = Len(free') + 1
        /\ \A i \in 1 .. Len(free') : free[i] = free'[i]
    <3>1. free' = SubSeq(free, 1, Len(free) - 1)
      BY <1>1 DEF Acquire
    <3>2. Len(free) \in Nat /\ Len(free) - 1 \in Nat
      BY <2>1
    <3> DEFINE n == Len(free) - 1
    <3>3. n \in Nat /\ n <= Len(free) /\ Len(free) = n + 1
      BY <3>2
    <3>4. free' = SubSeq(free, 1, n)
      BY <3>1
    <3> HIDE DEF n
    <3>5. free' \in Seq(Buffers) /\ Len(free') = n /\ \A i \in 1 .. n : free'[i] = free[i]
      BY <2>1, <3>3, <3>4, Beginning
    <3> QED
      BY <3>3, <3>5
  <2>3. ASSUME NEW c \in Buffers
        PROVE  /\ Copies(c)' \in Nat
               /\ Copies(c) = Copies(c)' + (IF b = c THEN 1 ELSE 0)
    BY <2>1, <2>2, OneMore DEF Copies, Where
  <2>4. /\ owners' \in [Buffers -> Nat] /\ extra' = extra
        /\ \A c \in Buffers : owners'[c] = owners[c] + (IF b = c THEN 1 ELSE 0)
    <3>1. owners' = [owners EXCEPT ![b] = owners[b] + 1] /\ extra' = extra
      BY <1>1 DEF Acquire
    <3>2. owners \in [Buffers -> Nat] /\ b \in Buffers
      BY <1>0, <2>1 DEF PoolTypes
    <3> HIDE DEF b
    <3>3. \A c \in Buffers : owners[c] \in Nat
      BY <3>2
    <3> QED
      BY <3>1, <3>2, <3>3
  <2>5. ASSUME NEW c \in Buffers PROVE Copies(c)' + owners'[c] = 1 + extra'[c]
    <3>1. /\ Copies(c) + owners[c] = 1 + extra[c]
          /\ owners[c] \in Nat /\ extra[c] \in Nat
      BY <1>0 DEF PoolTypes
    <3>2. Copies(c)' \in Nat /\ Copies(c) = Copies(c)' + (IF b = c THEN 1 ELSE 0)
      BY <2>3
    <3> QED
      BY <2>4, <3>1, <3>2
  <2> QED
    BY <1>0, <2>2, <2>4, <2>5 DEF PoolInv, PoolTypes, BuffersAccounted
<1>2. ASSUME NEW b \in Buffers, Release(b)
      PROVE  PoolInv'
  <2>1. /\ free' \in Seq(Buffers)
        /\ \A c \in Buffers :
              Copies(c) \in Nat /\ Copies(c)' = Copies(c) + (IF b = c THEN 1 ELSE 0)
    BY <1>0, <1>2, PutBack DEF Release
  <2>2. /\ owners' \in [Buffers -> Nat] /\ extra' = extra
        /\ \A c \in Buffers : owners'[c] = owners[c] - (IF b = c THEN 1 ELSE 0)
    BY <1>0, <1>2 DEF Release, PoolTypes
  <2>3. ASSUME NEW c \in Buffers PROVE Copies(c)' + owners'[c] = 1 + extra'[c]
    <3>1. /\ Copies(c) + owners[c] = 1 + extra[c]
          /\ owners[c] \in Nat /\ extra[c] \in Nat
      BY <1>0 DEF PoolTypes
    <3>2. Copies(c) \in Nat /\ Copies(c)' = Copies(c) + (IF b = c THEN 1 ELSE 0)
      BY <2>1
    <3> QED
      BY <2>2, <3>1, <3>2
  <2> QED
    BY <1>0, <2>1, <2>2, <2>3 DEF PoolInv, PoolTypes, BuffersAccounted
<1>3. ASSUME NEW b \in Buffers, ReleaseAgain(b)
      PROVE  PoolInv'
  <2>1. /\ free' \in Seq(Buffers)
        /\ \A c \in Buffers :
              Copies(c) \in Nat /\ Copies(c)' = Copies(c) + (IF b = c THEN 1 ELSE 0)
    BY <1>0, <1>3, PutBack DEF ReleaseAgain
  <2>2. /\ extra' \in [Buffers -> Nat] /\ owners' = owners
        /\ \A c \in Buffers : extra'[c] = extra[c] + (IF b = c THEN 1 ELSE 0)
    BY <1>0, <1>3 DEF ReleaseAgain, PoolTypes
  <2>3. ASSUME NEW c \in Buffers PROVE Copies(c)' + owners'[c] = 1 + extra'[c]
    <3>1. /\ Copies(c) + owners[c] = 1 + extra[c]
          /\ owners[c] \in Nat /\ extra[c] \in Nat
      BY <1>0 DEF PoolTypes
    <3>2. Copies(c) \in Nat /\ Copies(c)' = Copies(c) + (IF b = c THEN 1 ELSE 0)
      BY <2>1
    <3> QED
      BY <2>2, <3>1, <3>2
  <2> QED
    BY <1>0, <2>1, <2>2, <2>3 DEF PoolInv, PoolTypes, BuffersAccounted
<1>4. CASE UNCHANGED poolVars
  BY <1>0, <1>4 DEF poolVars, PoolInv, PoolTypes, BuffersAccounted, Copies
<1>5. CASE ReleaseForeign
  <2>1. UNCHANGED poolVars
    BY <1>5, BuffersAssumption DEF ReleaseForeign, Released, poolVars
  <2> QED
    BY <1>4, <2>1
<1> QED
  BY <1>1, <1>2, <1>3, <1>4, <1>5 DEF PoolNext, AcquireNothing

(* Every buffer is free or owned, once, and once more for each release by   *)
(* somebody who did not own it: for any pool and any sequence of calls.     *)
THEOREM PoolAccounted == PoolSpec => []BuffersAccounted
<1>1. PoolSpec => []PoolInv
  BY PoolInvInit, PoolInvStep, PTL DEF PoolSpec
<1>2. PoolInv => BuffersAccounted
  BY DEF PoolInv
<1> QED
  BY <1>1, <1>2, PTL

(* Callers that release only what they own never share a buffer, and none   *)
(* they own can be given out.                                               *)
COROLLARY NeverShared ==
  ASSUME BuffersAccounted, PoolTypes, NEW b \in Buffers,
         extra[b] = 0, owners[b] > 0
  PROVE  owners[b] = 1 /\ \A i \in DOMAIN free : free[i] # b
<1>1. DOMAIN free = 1 .. Len(free) /\ Len(free) \in Nat
  BY DEF PoolTypes
<1>2. IsFiniteSet({i \in DOMAIN free : free[i] = b})
  <2>1. {i \in DOMAIN free : free[i] = b} \subseteq 1 .. Len(free)
    BY <1>1
  <2>2. IsFiniteSet(1 .. Len(free))
    <3>1. 1 \in Int /\ Len(free) \in Int
      BY <1>1
    <3> QED
      BY ONLY <3>1, FS_Interval
  <2> QED
    BY <2>1, <2>2, FS_Subset
<1>3. Copies(b) \in Nat /\ owners[b] \in Nat /\ Copies(b) + owners[b] = 1
  BY <1>2, FS_CardinalityType DEF Copies, BuffersAccounted, PoolTypes
<1>4. Copies(b) = 0 /\ owners[b] = 1
  BY <1>3
<1>5. {i \in DOMAIN free : free[i] = b} = {}
  BY <1>2, <1>4, FS_EmptySet DEF Copies
<1> QED
  BY <1>4, <1>5
-----------------------------------------------------------------------------
(* The classifier, for every number of classes, every logits and every      *)
(* rounded exponential.  Softmax is followed through its two folds: what    *)
(* max_element finds, and the sum.                                          *)

USE ClassAssumption

Floats == Int \cup {NaN}

\* b is where max_element stops among the first k elements.
IsFirstLargest(s, b, k) ==
    /\ b \in Classes
    /\ s[1] = NaN => b = 1
    /\ s[1] # NaN =>
          /\ s[b] # NaN
          /\ \A i \in 1..k : s[i] # NaN => s[i] <= s[b]
          /\ \A i \in 1 .. b - 1 : s[i] # NaN => s[i] < s[b]

LEMMA MaxElementIs ==
    ASSUME NEW s \in [Classes -> Floats]
    PROVE  IsFirstLargest(s, MaxElement(s), ClassCount)
<1> DEFINE n == ClassCount
           F(f) == f = [i \in 0..n |->
                          IF i = 0 THEN 1
                          ELSE IF IsLess(s[f[i - 1]], s[i]) THEN i ELSE f[i - 1]]
           best == CHOOSE f : F(f)
           h == [p \in Classes \X (1..n) |-> IF IsLess(s[p[1]], s[p[2]]) THEN p[2] ELSE p[1]]
<1>1. \A x \in Classes : \A i \in 1..n : h[<<x, i>>] = IF IsLess(s[x], s[i]) THEN i ELSE x
  OBVIOUS
<1> HIDE DEF h
<1>2. PICK g \in [0..n -> Classes] : Recurs(g, 1, h, n)
  <2>1. IsStep(h, Classes, n) /\ 1 \in Classes /\ n \in Nat
    BY <1>1 DEF IsStep, Classes
  <2> QED
    BY <2>1, Recursion
<1>3. ASSUME NEW i \in 0..n
      PROVE  g[i] = IF i = 0 THEN 1
                    ELSE IF IsLess(s[g[i - 1]], s[i]) THEN i ELSE g[i - 1]
  <2>1. g[i] = IF i = 0 THEN 1 ELSE h[<<g[i - 1], i>>]
    BY <1>2 DEF Recurs
  <2>2. i # 0 => g[i - 1] \in Classes /\ i \in 1..n
    OBVIOUS
  <2> QED
    BY <1>1, <2>1, <2>2, Zenon
<1>4. F(g)
  BY <1>3
<1>5. F(best)
  BY <1>4
<1>6. \A i \in 0..n : best[i] = IF i = 0 THEN 1
                      ELSE IF IsLess(s[best[i - 1]], s[i]) THEN i ELSE best[i - 1]
  <2> HIDE DEF best
  <2> QED
    BY <1>5
<1> HIDE DEF best
<1> DEFINE Q == {k \in 0..n : IsFirstLargest(s, best[k], k) /\ best[k] <= k + 1}
<1>7. 0 \in Q
  <2>1. best[0] = 1 /\ 0 \in 0..n /\ 1 \in Classes
    <3>1. 0 \in 0..n
      OBVIOUS
    <3>2. 1 \in Classes
      BY DEF Classes
    <3> HIDE DEF n
    <3>3. best[0] = 1
      BY <1>6, <3>1, Zenon
    <3> QED
      BY <3>1, <3>2, <3>3
  <2>2. IsFirstLargest(s, 1, 0)
    <3>1. 1..0 = {} /\ 1..1 - 1 = {}
      OBVIOUS
    <3> QED
      BY ONLY <2>1, <3>1 DEF IsFirstLargest
  <2> QED
    BY <2>1, <2>2
<1>8. ASSUME NEW k \in 1..n, k - 1 \in Q
      PROVE  k \in Q
  <2> DEFINE a == best[k - 1]
             b == best[k]
  <2>1. b = IF IsLess(s[a], s[k]) THEN k ELSE a
    BY <1>6
  <2>2. IsFirstLargest(s, a, k - 1) /\ a <= (k - 1) + 1
    BY <1>8
  <2>3. \A i \in Classes : s[i] # NaN => s[i] \in Int
    BY DEF Floats
  <2>4. \A i \in 1..k : i \in Classes /\ (i \in 1 .. k - 1 \/ i = k)
    BY DEF Classes
  <2>5. a \in Classes /\ k \in Classes
    BY <2>2 DEF IsFirstLargest, Classes
  <2>6. k \in 0..n
    OBVIOUS
  <2> HIDE DEF a, b, n
  <2>7. CASE IsLess(s[a], s[k])
    <3>1. b = k /\ s[a] # NaN /\ s[k] # NaN /\ s[a] < s[k] /\ s[a] \in Int /\ s[k] \in Int
      BY <2>1, <2>3, <2>5, <2>7 DEF IsLess
    <3>2. s[1] # NaN
      <4>1. s[1] = NaN => a = 1
        BY <2>2 DEF IsFirstLargest
      <4> QED
        BY <3>1, <4>1
    <3>3. ASSUME NEW i \in 1 .. k - 1, s[i] # NaN
          PROVE  s[i] < s[k]
      <4>1. s[i] <= s[a] /\ s[i] \in Int
        BY <2>2, <2>3, <2>4, <3>2, <3>3 DEF IsFirstLargest
      <4> QED
        BY <3>1, <4>1
    <3>4. \A i \in 1..k : s[i] # NaN => s[i] <= s[k]
      BY <2>3, <2>4, <3>1, <3>3
    <3> QED
      BY <2>5, <2>6, <3>1, <3>2, <3>3, <3>4 DEF IsFirstLargest, b
  <2>8. CASE ~IsLess(s[a], s[k])
    <3>1. b = a
      BY <2>1, <2>8
    <3>2. ASSUME s[1] # NaN, s[k] # NaN
          PROVE  s[k] <= s[a]
      <4>1. s[a] # NaN
        BY <2>2, <3>2 DEF IsFirstLargest
      <4>2. ~(s[a] < s[k]) /\ s[a] \in Int /\ s[k] \in Int
        BY <2>3, <2>5, <2>8, <3>2, <4>1 DEF IsLess
      <4> QED
        BY <4>2
    <3>3. s[1] # NaN => \A i \in 1..k : s[i] # NaN => s[i] <= s[a]
      BY <2>2, <2>4, <3>2 DEF IsFirstLargest
    <3>4. IsFirstLargest(s, a, k)
      BY <2>2, <3>3 DEF IsFirstLargest
    <3>5. a <= k + 1
      BY <2>2, <2>5 DEF Classes
    <3> QED
      BY <2>6, <3>1, <3>4, <3>5 DEF b
  <2> QED
    BY <2>7, <2>8
<1>9. n \in Q
  <2> HIDE DEF Q
  <2>1. 0..n \subseteq Q
    BY <1>7, <1>8, InductionUpTo
  <2> QED
    BY <2>1
<1>10. IsFirstLargest(s, best[n], n)
  BY <1>9
<1> QED
  BY <1>10, Zenon DEF MaxElement, best

(* The sum of values between 0 and One: a NaN as soon as one of them is,    *)
(* and otherwise at least each of them and at most ClassCount times One.    *)
LEMMA SumIs ==
    ASSUME NEW p \in [Classes -> 0..One \cup {NaN}]
    PROVE  /\ (\E i \in Classes : p[i] = NaN) => SumOf(p) = NaN
           /\ (\A i \in Classes : p[i] # NaN) =>
                 /\ SumOf(p) \in Nat
                 /\ \A i \in Classes : p[i] <= SumOf(p)
                 /\ SumOf(p) <= ClassCount * One
<1> DEFINE n == ClassCount
           F(f) == f = [i \in 0..n |-> IF i = 0 THEN 0 ELSE Plus(f[i - 1], p[i])]
           upTo == CHOOSE f : F(f)
           h == [q \in (Nat \cup {NaN}) \X (1..n) |-> Plus(q[1], p[q[2]])]
           A == Nat \cup {NaN}
<1>0. \A x \in A : \A i \in 1..n : Plus(x, p[i]) \in A
  BY DEF Plus, Classes
<1>1. \A x \in A : \A i \in 1..n : h[<<x, i>>] = Plus(x, p[i])
  OBVIOUS
<1> HIDE DEF h
<1>2. PICK g \in [0..n -> A] : Recurs(g, 0, h, n)
  <2>1. IsStep(h, A, n) /\ 0 \in A /\ n \in Nat
    BY <1>0, <1>1 DEF IsStep
  <2> HIDE DEF A
  <2> QED
    BY <2>1, Recursion
<1>3. ASSUME NEW i \in 0..n
      PROVE  g[i] = IF i = 0 THEN 0 ELSE Plus(g[i - 1], p[i])
  <2>1. g[i] = IF i = 0 THEN 0 ELSE h[<<g[i - 1], i>>]
    BY <1>2 DEF Recurs
  <2>2. i # 0 => g[i - 1] \in A /\ i \in 1..n
    OBVIOUS
  <2> QED
    BY <1>1, <2>1, <2>2, Zenon
<1>4. F(g)
  BY <1>3
<1>5. F(upTo)
  BY <1>4
<1>6. \A i \in 0..n : upTo[i] = IF i = 0 THEN 0 ELSE Plus(upTo[i - 1], p[i])
  <2> HIDE DEF upTo
  <2> QED
    BY <1>5
<1> HIDE DEF upTo
<1>7. \A i \in Classes : p[i] # NaN => p[i] \in 0..One
  OBVIOUS
<1> DEFINE Sums(k) == /\ upTo[k] \in A
                      /\ (\E i \in 1..k : p[i] = NaN) => upTo[k] = NaN
                      /\ (\A i \in 1..k : p[i] # NaN) =>
                            /\ upTo[k] \in Nat
                            /\ \A i \in 1..k : p[i] <= upTo[k]
                            /\ upTo[k] <= k * One
           Q == {k \in 0..n : Sums(k)}
<1>8. 0 \in Q
  <2>1. upTo[0] = 0
    BY <1>6
  <2> QED
    BY <2>1
<1>9. ASSUME NEW k \in 1..n, k - 1 \in Q
      PROVE  k \in Q
  <2> DEFINE a == upTo[k - 1]
             b == upTo[k]
  <2>1. b = Plus(a, p[k])
    BY <1>6
  <2>2. Sums(k - 1)
    BY <1>9
  <2>3. \A i \in 1..k : i \in Classes /\ (i \in 1 .. k - 1 \/ i = k)
    BY DEF Classes
  <2>4. a \in A /\ k \in Classes
    BY <2>2 DEF Classes
  <2>5. b \in A
    BY <1>0, <2>1, <2>4
  <2> HIDE DEF A
  <2>6. CASE \E i \in 1..k : p[i] = NaN
    <3>1. a = NaN \/ p[k] = NaN
      BY <2>2, <2>3, <2>6
    <3>2. b = NaN
      BY <2>1, <3>1 DEF Plus
    <3> QED
      BY <2>5, <2>6, <3>2
  <2>7. CASE \A i \in 1..k : p[i] # NaN
    <3>1. /\ a \in Nat /\ a <= (k - 1) * One
          /\ \A i \in 1 .. k - 1 : p[i] <= a
      BY <2>2, <2>7
    <3>2. p[k] \in 0..One
      BY <1>7, <2>4, <2>7
    <3>3. a # NaN /\ p[k] # NaN
      BY <3>1, <2>7
    <3>4. b = a + p[k]
      BY <2>1, <3>3 DEF Plus
    <3> HIDE DEF a, b
    <3>5. b \in Nat /\ a <= b /\ p[k] <= b
      BY <3>1, <3>2, <3>4
    <3>6. b <= k * One
      <4>1. (k - 1) * One + One = k * One /\ k * One \in Int /\ (k - 1) * One \in Int
        OBVIOUS
      <4> QED
        BY <3>1, <3>2, <3>4, <4>1
    <3>7. ASSUME NEW i \in 1..k
          PROVE  p[i] <= b
      <4>1. CASE i \in 1 .. k - 1
        <5>1. p[i] <= a /\ p[i] \in Int
          BY <1>7, <2>3, <2>7, <3>1, <4>1
        <5> QED
          BY <3>1, <3>5, <5>1
      <4>2. CASE i = k
        BY <3>5, <4>2
      <4> QED
        BY <2>3, <4>1, <4>2
    <3> QED
      BY <2>5, <2>7, <3>5, <3>6, <3>7 DEF b
  <2> QED
    BY <2>6, <2>7
<1>10. Sums(n)
  <2>1. n \in Q
    <3> HIDE DEF Q
    <3>1. 0..n \subseteq Q
      BY <1>8, <1>9, InductionUpTo
    <3> QED
      BY <3>1
  <2> QED
    BY <2>1
<1>11. SumOf(p) = upTo[n]
  BY Zenon DEF SumOf, upTo
<1> QED
  BY <1>10, <1>11 DEF Classes

(* An exponential never falls over any distance.                            *)
LEMMA NeverFalls ==
    ASSUME NEW e \in Exponentials, NEW x \in 0..MaxLogit, NEW y \in 0..MaxLogit, x <= y
    PROVE  e[y] <= e[x] /\ e[x] \in 0..One
<1> DEFINE n == y - x
           Q == {k \in 0..n : e[x + k] <= e[x]}
<1>1. n \in Nat /\ \A d \in 0..MaxLogit : e[d] \in 0..One
  BY DEF Exponentials
<1>2. 0 \in Q
  BY <1>1
<1>3. ASSUME NEW k \in 1..n, k - 1 \in Q
      PROVE  k \in Q
  <2>1. x + k \in 1..MaxLogit /\ x + (k - 1) = (x + k) - 1 /\ x + (k - 1) \in 0..MaxLogit
    OBVIOUS
  <2>2. e[x + k] <= e[(x + k) - 1]
    BY <2>1 DEF Exponentials
  <2>3. e[x + (k - 1)] <= e[x]
    BY <1>3
  <2>4. e[x + k] \in Int /\ e[x + (k - 1)] \in Int /\ e[x] \in Int
    BY <1>1, <2>1
  <2>5. e[x + k] <= e[x]
    BY <2>1, <2>2, <2>3, <2>4
  <2> QED
    BY <2>5
<1>4. n \in Q
  <2> HIDE DEF Q, n
  <2>1. 0..n \subseteq Q
    BY <1>1, <1>2, <1>3, InductionUpTo
  <2> QED
    BY <1>1, <2>1
<1>5. x + n = y
  OBVIOUS
<1> QED
  BY <1>1, <1>4, <1>5

Logits == Finite \cup {NaN, PlusInf, MinusInf}

\* What Softmax computes before the division, and what it divides by.
Exps == [i \in Classes |-> Exp(Minus(logits[i], logits[MaxElement(logits)]))]
Divisor == IF IsLess(0, SumOf(Exps)) THEN SumOf(Exps) ELSE 0

ClassInv ==
    /\ logits \in [Classes -> Logits]
    /\ expOf \in Exponentials
    /\ probabilities # <<>> => probabilities = Exps /\ total = Divisor
    /\ classId # 0 => probabilities # <<>> /\ classId = MaxElement(probabilities)

LEMMA ClassInitInv ==
    ClassInit => ClassInv
BY DEF ClassInit, ClassInv, Logits

LEMMA ClassStep ==
    ClassInv /\ [ClassNext]_classVars => ClassInv'
<1> SUFFICES ASSUME ClassInv, [ClassNext]_classVars PROVE ClassInv'
  OBVIOUS
<1>1. CASE Softmax
  <2>1. probabilities' = Exps /\ total' = Divisor
    BY <1>1 DEF Softmax, Exps, Divisor
  <2>2. Exps' = Exps /\ Divisor' = Divisor
    BY <1>1 DEF Softmax, Exps, Divisor, Exp
  <2>3. classId = 0
    BY <1>1 DEF Softmax, ClassInv
  <2> QED
    BY <1>1, <2>1, <2>2, <2>3 DEF Softmax, ClassInv
<1>2. CASE Classify
  <2>1. Exps' = Exps /\ Divisor' = Divisor
    BY <1>2 DEF Classify, Exps, Divisor, Exp
  <2> QED
    BY <1>2, <2>1 DEF Classify, ClassInv
<1>3. CASE UNCHANGED classVars
  <2>1. Exps' = Exps /\ Divisor' = Divisor
    BY <1>3 DEF classVars, Exps, Divisor, Exp
  <2> QED
    BY <1>3, <2>1 DEF classVars, ClassInv
<1> QED
  BY <1>1, <1>2, <1>3 DEF ClassNext, Classified

(* The largest logit decides what the exponentials are.                     *)
LEMMA ExpsAre ==
    ASSUME ClassInv
    PROVE  LET m == logits[MaxElement(logits)] IN
           /\ MaxElement(logits) \in Classes
           /\ Exps \in [Classes -> 0..One \cup {NaN}]
           /\ logits[1] = NaN => m = NaN /\ \A i \in Classes : Exps[i] = NaN
           /\ logits[1] # NaN => m # NaN /\ \A i \in Numbers : logits[i] <= m
           /\ m = MinusInf => \A i \in Classes : Exps[i] = NaN
           /\ m = PlusInf => /\ \A i \in Classes : Exps[i] \in {0, NaN}
                             /\ \E i \in Classes : Exps[i] = NaN
           /\ m \in Finite => \A i \in Classes :
                 /\ logits[i] = NaN => Exps[i] = NaN
                 /\ logits[i] = MinusInf => Exps[i] = 0
                 /\ logits[i] \in Finite /\ logits[i] <= m =>
                       Exps[i] = expOf[m - logits[i]] /\ m - logits[i] \in 0..MaxLogit
<1> DEFINE k == MaxElement(logits)
           m == logits[k]
<1>1. logits \in [Classes -> Floats] /\ \A i \in Classes : logits[i] \in Logits
  <2>1. Logits \subseteq Floats
    BY DEF Logits, Floats, Finite, PlusInf, MinusInf
  <2> QED
    BY <2>1 DEF ClassInv
<1>2. IsFirstLargest(logits, k, ClassCount)
  BY <1>1, MaxElementIs
<1> HIDE DEF k
<1>3. k \in Classes /\ m \in Logits
  BY <1>1, <1>2 DEF IsFirstLargest
<1> HIDE DEF m
<1>4. PlusInf \notin Finite /\ MinusInf \notin Finite /\ NaN \notin Finite /\ PlusInf # MinusInf
      /\ PlusInf # NaN /\ MinusInf # NaN
  BY DEF Finite, PlusInf, MinusInf
<1>5. \A i \in Classes : Exps[i] = Exp(Minus(logits[i], m))
  BY DEF Exps, m, k
<1>6. logits[1] # NaN => m # NaN /\ \A i \in Numbers : logits[i] <= m
  BY <1>2 DEF IsFirstLargest, Numbers, Classes, m
<1>7. \A a \in Finite, b \in Finite : a - b # NaN /\ a - b # MinusInf
  BY DEF Finite, PlusInf, MinusInf
<1>8. ASSUME NEW a \in Logits
      PROVE  /\ m = NaN => Exp(Minus(a, m)) = NaN
             /\ a = NaN => Exp(Minus(a, m)) = NaN
             /\ m = MinusInf /\ a = MinusInf => Exp(Minus(a, m)) = NaN
             /\ m = PlusInf /\ a = PlusInf => Exp(Minus(a, m)) = NaN
             /\ m = PlusInf /\ a \in Finite \cup {MinusInf} => Exp(Minus(a, m)) = 0
             /\ m \in Finite /\ a = MinusInf => Exp(Minus(a, m)) = 0
             /\ m \in Finite /\ a \in Finite => Exp(Minus(a, m)) = expOf[-(a - m)]
  BY <1>4, <1>7 DEF Exp, Minus
<1>9. \A i \in Classes : logits[i] \in Logits
  BY <1>1
<1>10. logits[1] = NaN => m = NaN
  BY <1>2 DEF IsFirstLargest, m
<1>11. m = MinusInf => \A i \in Classes : logits[i] \in {NaN, MinusInf}
  <2> SUFFICES ASSUME m = MinusInf, NEW i \in Classes, logits[i] # NaN
               PROVE  logits[i] = MinusInf
    OBVIOUS
  <2>1. logits[1] # NaN
    BY <1>4, <1>10
  <2>2. logits[i] <= MinusInf
    BY <1>6, <2>1 DEF Numbers
  <2>3. logits[i] \in Finite \cup {PlusInf, MinusInf}
    BY <1>9 DEF Logits
  <2> QED
    BY <2>2, <2>3 DEF Finite, PlusInf, MinusInf
<1>12. m \in Finite => \A i \in Classes : logits[i] # PlusInf
  <2> SUFFICES ASSUME m \in Finite, NEW i \in Classes, logits[i] = PlusInf
               PROVE  FALSE
    OBVIOUS
  <2>1. logits[1] # NaN
    BY <1>4, <1>10
  <2>2. PlusInf <= m
    BY <1>4, <1>6, <2>1 DEF Numbers
  <2> QED
    BY <2>2 DEF Finite, PlusInf
<1>13. ASSUME NEW i \in Classes, m \in Finite, logits[i] \in Finite, logits[i] <= m
       PROVE  Exps[i] = expOf[m - logits[i]] /\ m - logits[i] \in 0..MaxLogit
  <2>1. Exps[i] = expOf[-(logits[i] - m)]
    BY <1>5, <1>8, <1>9, <1>13
  <2>2. -(logits[i] - m) = m - logits[i] /\ m - logits[i] \in 0..MaxLogit
    BY <1>13 DEF Finite
  <2> QED
    BY <2>1, <2>2
<1>14. ASSUME NEW i \in Classes
       PROVE  Exps[i] \in 0..One \cup {NaN}
  <2>1. CASE m \in Finite /\ logits[i] \in Finite
    <3>1. logits[i] <= m
      BY <1>4, <1>6, <1>10, <2>1 DEF Numbers
    <3>2. Exps[i] = expOf[m - logits[i]] /\ m - logits[i] \in 0..MaxLogit
      BY <1>13, <2>1, <3>1
    <3> QED
      BY <3>2 DEF ClassInv, Exponentials
  <2>2. CASE ~(m \in Finite /\ logits[i] \in Finite)
    <3>1. Exps[i] \in {0, NaN}
      <4>1. logits[i] \in Logits /\ m \in Logits
        BY <1>3, <1>9
      <4> QED
        BY <1>5, <1>8, <1>11, <1>12, <2>2, <4>1 DEF Logits
    <3> QED
      BY <3>1
  <2> QED
    BY <2>1, <2>2
<1>15. Exps \in [Classes -> 0..One \cup {NaN}]
  BY <1>14 DEF Exps
<1>16. logits[1] = NaN => \A i \in Classes : Exps[i] = NaN
  BY <1>5, <1>8, <1>9, <1>10
<1>17. m = MinusInf => \A i \in Classes : Exps[i] = NaN
  BY <1>5, <1>8, <1>9, <1>11
<1>18. m = PlusInf => /\ \A i \in Classes : Exps[i] \in {0, NaN}
                      /\ \E i \in Classes : Exps[i] = NaN
  <2> SUFFICES ASSUME m = PlusInf
               PROVE  /\ \A i \in Classes : Exps[i] \in {0, NaN}
                      /\ \E i \in Classes : Exps[i] = NaN
    OBVIOUS
  <2>1. Exps[k] = NaN
    BY <1>3, <1>5, <1>8, <1>9 DEF m
  <2>2. \A i \in Classes : Exps[i] \in {0, NaN}
    BY <1>5, <1>8, <1>9 DEF Logits
  <2> QED
    BY <1>3, <2>1, <2>2
<1>19. m \in Finite => \A i \in Classes :
                 /\ logits[i] = NaN => Exps[i] = NaN
                 /\ logits[i] = MinusInf => Exps[i] = 0
  BY <1>5, <1>8, <1>9
<1> QED
  BY <1>3, <1>6, <1>10, <1>13, <1>15, <1>16, <1>17, <1>18, <1>19 DEF m, k

\* The premise of ClassIsBest.
Sound ==
    /\ logits[1] # NaN
    /\ \A i \in Classes : logits[i] # PlusInf
    /\ \E i \in Classes : logits[i] \in Finite

(* The class of a window is the first one whose logit is the largest, up to *)
(* what the exponential cannot tell apart; it is class 0 whenever the first *)
(* logit is NaN, some logit is plus infinity or none is above minus         *)
(* infinity, and the confidence is a share of a true sum exactly when no    *)
(* logit is one of these (softmax.cpp:5-9, classifier.cpp:5-9).             *)
THEOREM ClassChosen ==
    ClassSpec => []ClassIsBest
<1>1. ASSUME ClassInv, classId # 0
      PROVE  ClassIsBest
  <2> DEFINE k == MaxElement(logits)
             m == logits[k]
             c == classId
  <2>1. probabilities = Exps /\ total = Divisor /\ c = MaxElement(Exps)
    BY <1>1 DEF ClassInv
  <2>2. /\ k \in Classes
        /\ Exps \in [Classes -> 0..One \cup {NaN}]
        /\ logits[1] = NaN => m = NaN /\ \A i \in Classes : Exps[i] = NaN
        /\ logits[1] # NaN => m # NaN /\ \A i \in Numbers : logits[i] <= m
        /\ m = MinusInf => \A i \in Classes : Exps[i] = NaN
        /\ m = PlusInf => /\ \A i \in Classes : Exps[i] \in {0, NaN}
                          /\ \E i \in Classes : Exps[i] = NaN
        /\ m \in Finite => \A i \in Classes :
              /\ logits[i] = NaN => Exps[i] = NaN
              /\ logits[i] = MinusInf => Exps[i] = 0
              /\ logits[i] \in Finite /\ logits[i] <= m =>
                    Exps[i] = expOf[m - logits[i]] /\ m - logits[i] \in 0..MaxLogit
    BY <1>1, ExpsAre
  <2>3. Exps \in [Classes -> Floats]
    <3>1. 0..One \cup {NaN} \subseteq Floats
      BY DEF Floats
    <3> QED
      BY <2>2, <3>1
  <2>4. IsFirstLargest(Exps, c, ClassCount)
    BY <2>1, <2>3, MaxElementIs
  <2>5. c \in Classes /\ 1 \in Classes
    BY <2>4 DEF IsFirstLargest, Classes
  <2>6. \A i \in Classes : logits[i] \in Logits
    BY <1>1 DEF ClassInv
  <2>7. PlusInf \notin Finite /\ MinusInf \notin Finite /\ NaN \notin Finite /\ PlusInf # MinusInf
        /\ PlusInf # NaN /\ MinusInf # NaN
    BY DEF Finite, PlusInf, MinusInf
  <2>8. /\ (\E i \in Classes : Exps[i] = NaN) => SumOf(Exps) = NaN
        /\ (\A i \in Classes : Exps[i] # NaN) =>
              /\ SumOf(Exps) \in Nat
              /\ \A i \in Classes : Exps[i] <= SumOf(Exps)
              /\ SumOf(Exps) <= ClassCount * One
    BY <2>2, SumIs
  <2> HIDE DEF k, m, c
  <2>9. CASE Sound
    <3>1. m \in Finite /\ logits[1] # NaN
      <4>1. PICK j \in Classes : logits[j] \in Finite
        BY <2>9 DEF Sound
      <4>2. logits[j] <= m /\ m # NaN /\ m # PlusInf /\ m \in Logits
        BY <2>2, <2>6, <2>7, <2>9, <4>1 DEF Sound, Numbers, m
      <4>3. m \in Finite \/ m = MinusInf
        BY <4>2 DEF Logits
      <4>4. m # MinusInf
        BY <4>1, <4>2 DEF Finite, MinusInf, PlusInf
      <4> QED
        BY <2>9, <4>3, <4>4 DEF Sound
    <3>2. \A i \in Classes : logits[i] \in Finite => i \in Numbers /\ logits[i] <= m
      BY <2>2, <2>7, <3>1 DEF Numbers
    <3>3. ASSUME NEW i \in Classes, logits[i] \in Finite
          PROVE  Exps[i] = expOf[m - logits[i]] /\ m - logits[i] \in 0..MaxLogit
                 /\ Exps[i] \in 0..One
      <4>1. Exps[i] = expOf[m - logits[i]] /\ m - logits[i] \in 0..MaxLogit
        BY <2>2, <3>1, <3>2, <3>3
      <4> QED
        BY <1>1, <4>1 DEF ClassInv, Exponentials
    <3>4. Exps[k] = One
      <4>1. Exps[k] = expOf[m - m] /\ m - m = 0
        BY <2>2, <3>1, <3>3 DEF m, Finite
      <4> QED
        BY <1>1, <4>1 DEF ClassInv, Exponentials
    <3>5. Exps[1] # NaN
      <4>1. logits[1] \in Finite \cup {MinusInf}
        BY <2>5, <2>6, <2>9 DEF Sound, Logits
      <4>2. CASE logits[1] \in Finite
        BY <2>5, <3>3, <4>2
      <4>3. CASE logits[1] = MinusInf
        BY <2>2, <2>5, <3>1, <4>3
      <4> QED
        BY <4>1, <4>2, <4>3
    <3>6. Exps[c] = One /\ \A i \in 1 .. c - 1 : Exps[i] # NaN => Exps[i] < One
      <4>1. /\ Exps[c] # NaN
            /\ \A i \in Classes : Exps[i] # NaN => Exps[i] <= Exps[c]
            /\ \A i \in 1 .. c - 1 : Exps[i] # NaN => Exps[i] < Exps[c]
        BY <2>4, <3>5 DEF IsFirstLargest, Classes
      <4>2. One # NaN
        OBVIOUS
      <4>3. One <= Exps[c]
        BY <2>2, <3>4, <4>1, <4>2
      <4>4. Exps[c] \in 0..One
        BY <2>2, <2>5, <4>1
      <4> QED
        BY <4>1, <4>3, <4>4
    <3>7. \A i \in Classes : Exps[i] # NaN <=> i \in Numbers
      <4> SUFFICES ASSUME NEW i \in Classes PROVE Exps[i] # NaN <=> i \in Numbers
        OBVIOUS
      <4>1. logits[i] \in Finite \/ logits[i] = MinusInf \/ logits[i] = NaN
        BY <2>6, <2>9 DEF Sound, Logits
      <4>2. CASE logits[i] \in Finite
        BY <2>7, <3>3, <4>2 DEF Numbers
      <4>3. CASE logits[i] = MinusInf
        BY <2>2, <2>7, <3>1, <4>3 DEF Numbers
      <4>4. CASE logits[i] = NaN
        BY <2>2, <3>1, <4>4 DEF Numbers
      <4> QED
        BY <4>1, <4>2, <4>3, <4>4
    <3>8. c \in Numbers /\ logits[c] \in Finite
      <4>1. Exps[c] # NaN /\ Exps[c] # 0
        BY <3>6
      <4>2. logits[c] # MinusInf /\ c \in Numbers
        BY <2>2, <2>5, <3>1, <3>7, <4>1
      <4> QED
        BY <2>5, <2>6, <2>9, <4>2 DEF Sound, Logits, Numbers
    <3>9. IsBest(c)
      <4> SUFFICES ASSUME NEW j \in Numbers, ~(logits[j] <= logits[c])
                   PROVE  SameUpToRounding(logits[c], logits[j])
        BY DEF IsBest
      <4>1. j \in Classes /\ logits[j] \in Finite
        <5>1. logits[j] \in Finite \cup {MinusInf} /\ j \in Classes
          BY <2>6, <2>9 DEF Sound, Logits, Numbers
        <5>2. logits[j] # MinusInf
          BY <3>8 DEF Finite, MinusInf, PlusInf
        <5> QED
          BY <5>1, <5>2
      <4>2. logits[j] <= m
        BY <3>2, <4>1
      <4> DEFINE x == logits[j] - logits[c]
                 y == m - logits[c]
      <4>3. x \in 0..MaxLogit /\ y \in 0..MaxLogit /\ x <= y
        BY <3>1, <3>8, <4>1, <4>2 DEF Finite
      <4>4. expOf[y] = One
        BY <2>5, <3>3, <3>6, <3>8
      <4> HIDE DEF x, y
      <4>5. expOf[y] <= expOf[x] /\ expOf[x] \in 0..One
        BY <1>1, <4>3, NeverFalls DEF ClassInv
      <4>6. expOf[x] = One
        BY <4>4, <4>5
      <4> QED
        BY <3>8, <4>1, <4>6 DEF SameUpToRounding, x
    <3>10. ASSUME NEW i \in 1 .. c - 1, i \in Numbers, IsBest(i)
           PROVE  FALSE
      <4>1. i \in Classes /\ Exps[i] < One /\ Exps[i] \in 0..One
        BY <2>2, <2>5, <3>6, <3>7, <3>10 DEF Classes
      <4>2. k \in Numbers
        BY <2>2, <2>7, <3>1 DEF Numbers, m
      <4>3. m <= logits[i] \/ SameUpToRounding(logits[i], m)
        BY <3>10, <4>2 DEF IsBest, m
      <4>4. CASE logits[i] \in Finite
        <5>1. Exps[i] = expOf[m - logits[i]] /\ logits[i] <= m
          BY <3>2, <3>3, <4>1, <4>4
        <5>2. m <= logits[i] => m - logits[i] = 0
          BY <3>1, <4>4, <5>1 DEF Finite
        <5>3. expOf[0] = One
          BY <1>1 DEF ClassInv, Exponentials
        <5> QED
          BY <4>1, <4>3, <5>1, <5>2, <5>3 DEF SameUpToRounding
      <4>5. CASE logits[i] = MinusInf
        BY <2>7, <3>1, <4>3, <4>5 DEF SameUpToRounding, Finite, MinusInf, PlusInf
      <4> QED
        BY <2>6, <2>9, <3>10, <4>1, <4>4, <4>5 DEF Sound, Logits, Numbers
    <3>11. total # 0 <=> Numbers = Classes
      <4>1. CASE Numbers = Classes
        <5>1. SumOf(Exps) \in Nat /\ Exps[k] <= SumOf(Exps)
          BY <2>2, <2>8, <3>7, <4>1
        <5>2. IsLess(0, SumOf(Exps)) /\ SumOf(Exps) # 0
          BY <3>4, <5>1 DEF IsLess
        <5> QED
          BY <2>1, <4>1, <5>2 DEF Divisor
      <4>2. CASE Numbers # Classes
        <5>1. SumOf(Exps) = NaN
          BY <2>8, <3>7, <4>2 DEF Numbers
        <5> QED
          BY <2>1, <4>2, <5>1 DEF Divisor, IsLess
      <4> QED
        BY <4>1, <4>2
    <3>12. total # 0 => ClassCount * probabilities[c] >= total
      <4> SUFFICES ASSUME total # 0 PROVE ClassCount * One >= total
        BY <2>1, <3>6
      <4>1. \A i \in Classes : Exps[i] # NaN
        BY <3>7, <3>11
      <4>2. SumOf(Exps) \in Nat /\ SumOf(Exps) <= ClassCount * One
        BY <2>8, <4>1
      <4>3. total \in Nat /\ total <= ClassCount * One
        BY <2>1, <4>2 DEF Divisor
      <4>4. ClassCount * One \in Int
        OBVIOUS
      <4> QED
        BY <4>3, <4>4
    <3> QED
      BY <2>9, <3>8, <3>9, <3>10, <3>11, <3>12 DEF ClassIsBest, Sound, c
  <2>10. CASE ~Sound
    <3>1. \A i \in Classes : Exps[i] \in {0, NaN}
      <4>1. m \in Logits
        BY <2>2, <2>6 DEF m
      <4>2. m \notin Finite
        <5> SUFFICES ASSUME m \in Finite PROVE Sound
          BY <2>10
        <5>1. logits[1] # NaN
          BY <2>2, <2>7
        <5>2. logits[k] \in Finite
          BY DEF m
        <5>3. ASSUME NEW i \in Classes, logits[i] = PlusInf
              PROVE  FALSE
          <6>1. PlusInf <= m
            BY <2>2, <2>7, <5>1, <5>3 DEF Numbers
          <6> QED
            BY <6>1 DEF Finite, PlusInf
        <5> QED
          BY <2>2, <5>1, <5>2, <5>3 DEF Sound
      <4>3. m = NaN => logits[1] = NaN
        BY <2>2
      <4> QED
        BY <2>2, <4>1, <4>2, <4>3 DEF Logits
    <3>2. \E i \in Classes : Exps[i] = NaN
      <4>1. m \in Logits /\ m \notin Finite
        <5>1. m \in Finite => Exps[k] = One
          <6> SUFFICES ASSUME m \in Finite PROVE Exps[k] = One
            OBVIOUS
          <6>1. Exps[k] = expOf[m - m] /\ m - m = 0
            BY <2>2 DEF m, Finite
          <6> QED
            BY <1>1, <6>1 DEF ClassInv, Exponentials
        <5>2. m \notin Finite
          BY <2>2, <3>1, <5>1
        <5> QED
          BY <2>2, <2>6, <5>2 DEF m
      <4> QED
        BY <2>2, <2>5, <4>1 DEF Logits
    <3>3. c = 1
      <4>1. Exps[1] # NaN => Exps[1] = 0
        BY <2>5, <3>1
      <4>2. Exps[1] # NaN => Exps[c] = 0
        BY <2>4, <2>5, <3>1 DEF IsFirstLargest
      <4>3. Exps[1] # NaN /\ 1 \in 1 .. c - 1 => Exps[1] < Exps[c]
        BY <2>4 DEF IsFirstLargest
      <4>4. 1 \in 1 .. c - 1 \/ c = 1
        BY <2>5 DEF Classes
      <4>5. Exps[1] = NaN => c = 1
        BY <2>4 DEF IsFirstLargest
      <4> QED
        BY <4>1, <4>2, <4>3, <4>4, <4>5
    <3>4. total = 0
      <4>1. SumOf(Exps) = NaN
        BY <2>8, <3>2
      <4> QED
        BY <2>1, <4>1 DEF Divisor, IsLess
    <3> QED
      BY <2>10, <3>3, <3>4 DEF ClassIsBest, Sound, c
  <2> QED
    BY <2>9, <2>10
<1>2. ClassInv => ClassIsBest
  BY <1>1 DEF ClassIsBest
<1>3. ClassSpec => []ClassInv
  BY ClassInitInv, ClassStep, PTL DEF ClassSpec
<1> QED
  BY <1>2, <1>3, PTL
-----------------------------------------------------------------------------
(* The engine and its bridge, for every driver, every set of model files   *)
(* and both builds.  The inductive invariant is the type invariant with    *)
(* the two agreements the runs check: what the engine thinks of its        *)
(* context, and what the bridge thinks of its engine.                      *)

EngineInv == TypeOK /\ ContextAlive /\ ReadyKeepsItsModel

USE RknnAssumption DEF Free, Live, Destroyed, Call, Infers, engine, NoResult

LEMMA EngineInitInv == Init => EngineInv
<1> SUFFICES ASSUME Init PROVE EngineInv
  OBVIOUS
<1>1. loaded \in [Contexts -> Models \cup {NoModel}]
  BY DEF Init
<1>2. last \in {"none", "initialize", "run", "failed run", "release"}
  BY DEF Init
<1>3. TypeOK
  BY <1>1, <1>2 DEF Init, TypeOK
<1>4. ContextAlive /\ ReadyKeepsItsModel
  BY DEF Init, ContextAlive, ReadyKeepsItsModel
<1> QED
  BY <1>3, <1>4 DEF EngineInv

\* A load that fails in the file or in rknn_init changes the bytes only, and
\* ready_ is taken back.
LEMMA LoadFailureStep ==
    ASSUME EngineInv, InitializeFails
    PROVE  EngineInv'
<1>1. CASE FileFails
  BY <1>1 DEF EngineInv, InitializeFails, FileFails, TypeOK, ContextAlive,
              ReadyKeepsItsModel
<1>2. ASSUME NEW m \in Models, InitFails(m)
      PROVE  EngineInv'
  BY <1>2 DEF EngineInv, InitializeFails, InitFails, TypeOK, ContextAlive,
              ReadyKeepsItsModel
<1>3. ASSUME NEW m \in Models, QueryFails(m)
      PROVE  EngineInv'
  BY <1>3 DEF EngineInv, InitializeFails, QueryFails, TypeOK, ContextAlive,
              ReadyKeepsItsModel
<1> QED
  BY <1>1, <1>2, <1>3 DEF InitializeFails

LEMMA LoadSuccessStep ==
    ASSUME EngineInv, InitializeSucceeds
    PROVE  EngineInv'
<1>1. PICK m \in Models : LoadSucceeds(m)
  BY DEF InitializeSucceeds
<1>2. PICK c \in Free : loaded' = [loaded EXCEPT ![c] = m] /\ ctx' = c
  BY <1>1 DEF LoadSucceeds
<1>3. TypeOK'
  BY <1>1, <1>2 DEF EngineInv, TypeOK, InitializeSucceeds, LoadSucceeds
<1>4. loaded'[ctx'] = m /\ ctx' \in Contexts
  BY <1>2 DEF EngineInv, TypeOK
<1>5. ContextAlive' /\ ReadyKeepsItsModel'
  BY <1>1, <1>4 DEF ContextAlive, ReadyKeepsItsModel, LoadSucceeds
<1> QED
  BY <1>3, <1>5 DEF EngineInv

LEMMA EngineReleaseStep ==
    ASSUME EngineInv, ReleaseEngine
    PROVE  EngineInv'
BY DEF EngineInv, ReleaseEngine, CloseEngine, TypeOK, ContextAlive, ReadyKeepsItsModel

\* run touches neither the engine nor ready_.
LEMMA EngineRunStep ==
    ASSUME EngineInv, NEW w \in Windows \cup {EmptyWindow},
           RunFails(w) \/ TooFewLogits(w) \/ RunSucceeds(w)
    PROVE  EngineInv'
<1>1. UNCHANGED <<engine, ready>>
  BY DEF RunFails, TooFewLogits, RunSucceeds
<1>2. ContextAlive' /\ ReadyKeepsItsModel'
  BY <1>1 DEF EngineInv, ContextAlive, ReadyKeepsItsModel
<1>3. last' \in {"none", "initialize", "run", "failed run", "release"}
  BY DEF RunFails, TooFewLogits, RunSucceeds
<1>4. result' \in [window : Windows, model : Classifies] \cup {NoResult}
  <2>1. CASE RunSucceeds(w)
    <3>1. /\ w \in Windows /\ loaded[ctx] \in Classifies
          /\ result' = [window |-> w, model |-> loaded[ctx]]
      BY <2>1 DEF RunSucceeds
    <3> QED
      BY <3>1
  <2>2. CASE RunFails(w) \/ TooFewLogits(w)
    BY <2>2 DEF RunFails, TooFewLogits, EngineInv, TypeOK
  <2> QED
    BY <2>1, <2>2
<1>5. TypeOK'
  BY <1>1, <1>3, <1>4 DEF EngineInv, TypeOK
<1> QED
  BY <1>2, <1>5 DEF EngineInv

LEMMA EngineKept ==
    ASSUME EngineInv, [Next]_vars
    PROVE  EngineInv'
<1>1. CASE InitializeNull
  BY <1>1 DEF InitializeNull, EngineInv, TypeOK, ContextAlive, ReadyKeepsItsModel
<1>2. CASE UNCHANGED vars
  BY <1>2 DEF vars, EngineInv, TypeOK, ContextAlive, ReadyKeepsItsModel
<1> QED
  BY <1>1, <1>2, LoadFailureStep, LoadSuccessStep, EngineReleaseStep, EngineRunStep DEF Next

LEMMA EngineAlways == Spec => []EngineInv
<1> QED
  BY EngineInitInv, EngineKept, PTL DEF Spec

\* Every variable keeps its type; in particular a result that a run has written
\* comes from a window and from a model with a logit for every class.
THEOREM EngineTypeCorrect == Spec => []TypeOK
<1>1. EngineInv => TypeOK
  BY DEF EngineInv
<1> QED
  BY <1>1, EngineAlways, PTL

\* rknn_run and rknn_destroy are only ever called with a live context.
THEOREM ContextsAlive == Spec => []ContextAlive
<1>1. EngineInv => ContextAlive
  BY DEF EngineInv
<1> QED
  BY <1>1, EngineAlways, PTL

\* A bridge that says it is ready runs the model whose bytes it keeps.
THEOREM ReadyIsTrue == Spec => []ReadyKeepsItsModel
<1>1. EngineInv => ReadyKeepsItsModel
  BY DEF EngineInv
<1> QED
  BY <1>1, EngineAlways, PTL
-----------------------------------------------------------------------------
\* No context is lost but by initialising again over an open engine.
THEOREM NothingElseLost == Spec => LostOnlyByReload
<1> DEFINE Lost ==
        \/ Unreachable' \subseteq Unreachable
        \/ /\ initialized /\ last' = "initialize"
           /\ Unreachable' \subseteq Unreachable \cup {ctx}
<1>1. ASSUME EngineInv, [Next]_vars
      PROVE  [Lost]_vars
  <2> USE DEF Unreachable
  <2>1. CASE InitializeNull \/ UNCHANGED vars
    <3>1. UNCHANGED <<loaded, ctx>>
      BY <2>1 DEF InitializeNull, vars
    <3> QED
      BY <3>1
  <2>2. CASE InitializeFails
    <3>1. loaded' = loaded /\ ctx' \in {ctx, NoCtx}
      BY <2>2 DEF InitializeFails, FileFails, InitFails, QueryFails
    <3>2. last' = "initialize"
      BY <2>2 DEF InitializeFails
    <3>3. CASE initialized
      BY <3>1, <3>2, <3>3
    <3>4. CASE ~initialized
      BY <1>1, <3>1, <3>4 DEF EngineInv, ContextAlive, TypeOK
    <3> QED
      BY <3>3, <3>4
  <2>3. CASE InitializeSucceeds
    <3>1. PICK c \in Free, m \in Models :
              loaded' = [loaded EXCEPT ![c] = m] /\ ctx' = c
      BY <2>3 DEF InitializeSucceeds, LoadSucceeds
    <3>0. \A d \in Contexts : d # c => loaded'[d] = loaded[d]
      BY <1>1, <3>1 DEF EngineInv, TypeOK
    <3>2. Unreachable' \subseteq Unreachable \cup {ctx}
      BY <3>0, <3>1
    <3>3. last' = "initialize"
      BY <2>3 DEF InitializeSucceeds
    <3>4. CASE ~initialized
      BY <1>1, <3>0, <3>1, <3>4 DEF EngineInv, ContextAlive
    <3> QED
      BY <3>2, <3>3, <3>4
  <2>4. CASE ReleaseEngine
    BY <1>1, <2>4 DEF ReleaseEngine, CloseEngine, EngineInv, TypeOK, ContextAlive
  <2>5. ASSUME NEW w \in Windows \cup {EmptyWindow},
               RunFails(w) \/ TooFewLogits(w) \/ RunSucceeds(w)
        PROVE  Lost
    BY <2>5 DEF RunFails, TooFewLogits, RunSucceeds
  <2> QED
    BY <1>1, <2>1, <2>2, <2>3, <2>4, <2>5 DEF Next
<1> QED
  BY <1>1, EngineAlways, PTL DEF Spec, LostOnlyByReload, Lost

\* A run writes the caller's result as a whole or not at all.
THEOREM ResultsWhole == Spec => ResultFromReadyModel
<1> DEFINE Whole ==
        result' # result =>
            last' = "run" /\ ready /\ result'.model = buffer
<1>1. ASSUME EngineInv, [Next]_vars
      PROVE  [Whole]_vars
  <2>1. ASSUME NEW w \in Windows \cup {EmptyWindow}, RunSucceeds(w)
        PROVE  Whole
    BY <1>1, <2>1 DEF RunSucceeds, EngineInv, ReadyKeepsItsModel
  <2>2. CASE InitializeNull \/ InitializeFails \/ InitializeSucceeds \/ ReleaseEngine
    BY <2>2 DEF InitializeNull, InitializeFails, InitializeSucceeds, ReleaseEngine
  <2>3. ASSUME NEW w \in Windows \cup {EmptyWindow},
               RunFails(w) \/ TooFewLogits(w)
        PROVE  Whole
    BY <2>3 DEF RunFails, TooFewLogits
  <2> QED
    BY <1>1, <2>1, <2>2, <2>3 DEF Next, vars
<1> QED
  BY <1>1, EngineAlways, PTL DEF Spec, ResultFromReadyModel, Whole
=============================================================================
