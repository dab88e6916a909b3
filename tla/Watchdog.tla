------------------------------ MODULE Watchdog ------------------------------
(***************************************************************************)
(* runtime/watchdog.cpp: heartbeat reads the clock and then stores the     *)
(* reading; healthy reads the clock and the stored reading, in an order    *)
(* the compiler chooses, and compares.  Nothing holds a lock: a beat may   *)
(* come between any two of these steps, and beats may overlap.             *)
(***************************************************************************)
EXTENDS Integers

CONSTANTS
    Beaters,    \* the threads that call heartbeat
    Timeout,    \* the argument of healthy
    MaxTime     \* bound: the last value of the clock

ASSUME TimeAssumption == Timeout \in Nat /\ MaxTime \in Nat

VARIABLES
    now,        \* steady_clock, in milliseconds since the machine was booted
    lastMs,     \* last_ms_
    beat,       \* the reading each beater has yet to store, or Unread
    clockSeen,  \* the two readings of the call of healthy, or Unread
    lastSeen,
    verdict,    \* of the last call: none, healthy, stale; or it is pending
    newest,     \* history: the largest reading that was ever stored
    began,      \* history: when the call began, and newest at that time
    freshest,
    overtaken   \* history: a reading was stored over a newer one

dogVars == <<now, lastMs, beat, clockSeen, lastSeen, verdict,
             newest, began, freshest, overtaken>>

Unread == -1
Time == 0..MaxTime

DogInit ==
    /\ now \in Time
    /\ lastMs = 0
    /\ beat = [b \in Beaters |-> Unread]
    /\ clockSeen = Unread /\ lastSeen = Unread
    /\ verdict = "none"
    /\ newest = 0
    /\ began = now
    /\ freshest = 0
    /\ overtaken = FALSE
-----------------------------------------------------------------------------
Tick ==
    /\ now < MaxTime
    /\ now' = now + 1
    /\ UNCHANGED <<lastMs, beat, clockSeen, lastSeen, verdict,
                   newest, began, freshest, overtaken>>

BeatRead(b) ==
    /\ beat[b] = Unread
    /\ beat' = [beat EXCEPT ![b] = now]
    /\ UNCHANGED <<now, lastMs, clockSeen, lastSeen, verdict,
                   newest, began, freshest, overtaken>>

BeatStore(b) ==
    /\ beat[b] # Unread
    /\ lastMs' = beat[b]
    /\ beat' = [beat EXCEPT ![b] = Unread]
    /\ newest' = IF beat[b] > newest THEN beat[b] ELSE newest
    /\ overtaken' = (overtaken \/ beat[b] < newest)
    /\ UNCHANGED <<now, clockSeen, lastSeen, verdict, began, freshest>>

CallHealthy ==
    /\ verdict # "pending"
    /\ verdict' = "pending"
    /\ clockSeen' = Unread /\ lastSeen' = Unread
    /\ began' = now
    /\ freshest' = newest
    /\ UNCHANGED <<now, lastMs, beat, newest, overtaken>>

ReadClock ==
    /\ verdict = "pending" /\ clockSeen = Unread
    /\ clockSeen' = now
    /\ UNCHANGED <<now, lastMs, beat, lastSeen, verdict,
                   newest, began, freshest, overtaken>>

ReadLast ==
    /\ verdict = "pending" /\ lastSeen = Unread
    /\ lastSeen' = lastMs
    /\ UNCHANGED <<now, lastMs, beat, clockSeen, verdict,
                   newest, began, freshest, overtaken>>

\* Mutant: the distance of the two readings, as an unsigned difference is when
\* the smaller one is subtracted.
WithinMutant(clock, last) ==
    (IF clock < last THEN last - clock + Timeout ELSE clock - last) <= Timeout

\* A beat that comes in between can make the difference negative.
Within(clock, last) == clock - last <= Timeout

ReturnHealthy ==
    /\ verdict = "pending" /\ clockSeen # Unread /\ lastSeen # Unread
    /\ verdict' = IF Within(clockSeen, lastSeen) THEN "healthy" ELSE "stale"
    /\ UNCHANGED <<now, lastMs, beat, clockSeen, lastSeen,
                   newest, began, freshest, overtaken>>

DogNext ==
    \/ Tick
    \/ \E b \in Beaters : BeatRead(b) \/ BeatStore(b)
    \/ CallHealthy \/ ReadClock \/ ReadLast \/ ReturnHealthy

DogSpec == DogInit /\ [][DogNext]_dogVars
-----------------------------------------------------------------------------
(* The verdict is right about some instant of the call, whichever of the    *)
(* two is read first (watchdog.cpp:6).  Healthy: some beat, or the boot of  *)
(* the machine, lies within the timeout of the call's beginning.  Stale:    *)
(* every beat that was over when the call began is older than the timeout   *)
(* by now; the one exception is a beat whose store was overtaken by that of *)
(* an older reading.                                                        *)
VerdictTrue ==
    /\ verdict = "healthy" => newest >= began - Timeout
    /\ verdict = "stale" => overtaken \/ freshest + Timeout < now
=============================================================================
