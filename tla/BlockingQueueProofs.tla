------------------------ MODULE BlockingQueueProofs ------------------------
(***************************************************************************)
(* What holds of BlockingQueue for every finite set of threads, every set  *)
(* of items, every capacity and every choice of operations: the types and  *)
(* the bound, no lost wake-up, justified results, and the implementation   *)
(* of BoundedChannel.                                                      *)
(***************************************************************************)
EXTENDS BlockingQueue, FiniteSetTheorems, TLAPS

USE DEF At, AtLock, Goto, Return, Finish, Failure, Chan, PushReady, PopReady,
        MayProceed

-----------------------------------------------------------------------------
(* TypeOK and CallOK are inductive together.                                *)

Typing == TypeOK /\ CallOK

(* A constructed queue has the types, and nobody is in a call.              *)
LEMMA TypingInit == Init => Typing
<1> SUFFICES ASSUME Init PROVE Typing
  OBVIOUS
<1>1. queue \in Seq(Values) /\ Len(queue) <= Capacity
  BY CapacityAssumption DEF Init
<1>2. TypeOK
  BY <1>1 DEF Init, TypeOK, Places
<1>3. CallOK
  BY DEF Init, CallOK
<1> QED
  BY <1>2, <1>3 DEF Typing

(* Every step of a call, whatever the other threads do, keeps the types,    *)
(* the bound of the queue and the match of place and operation.             *)
LEMMA TypingStep == Typing /\ [Next]_vars => Typing'
<1> SUFFICES ASSUME Typing, [Next]_vars
             PROVE  Typing'
  OBVIOUS
<1> USE DEF Typing, TypeOK, CallOK, Places
<1>1. ASSUME NEW t \in Threads, NEW o \in Ops, NEW v \in Values,
             CallPush(t, o, v)
      PROVE  Typing'
  BY <1>1 DEF CallPush, Enter
<1>2. ASSUME NEW t \in Threads, NEW o \in Ops, CallOther(t, o)
      PROVE  Typing'
  BY <1>2 DEF CallOther, Enter
<1>3. ASSUME NEW t \in Threads, PushItem(t)
      PROVE  Typing'
  <2>1. Len(queue) < Capacity /\ arg[t] \in Values
    BY <1>3 DEF PushItem
  <2>2. queue' \in Seq(Values) /\ Len(queue') = Len(queue) + 1
    BY <1>3, <2>1 DEF PushItem
  <2>3. Len(queue') <= Capacity
    BY <2>1, <2>2, CapacityAssumption
  <2> QED
    BY <1>3, <2>2, <2>3 DEF PushItem, Ops, PushOps, PopOps
<1>4. ASSUME NEW t \in Threads, PushClosed(t)
      PROVE  Typing'
  BY <1>4 DEF PushClosed
<1>5. ASSUME NEW t \in Threads, PopItem(t)
      PROVE  Typing'
  <2>1. queue' \in Seq(Values) /\ Len(queue') = Len(queue) - 1
    BY <1>5 DEF PopItem
  <2>2. Len(queue') <= Capacity /\ Head(queue) \in Values
    BY <1>5, <2>1, CapacityAssumption DEF PopItem
  <2> QED
    BY <1>5, <2>1, <2>2 DEF PopItem
<1>6. ASSUME NEW t \in Threads, PopEnded(t)
      PROVE  Typing'
  BY <1>6 DEF PopEnded
<1>7. ASSUME NEW t \in Threads, GiveUp(t)
      PROVE  Typing'
  BY <1>7 DEF GiveUp
<1>8. ASSUME NEW t \in Threads, Sleep(t)
      PROVE  Typing'
  BY <1>8 DEF Sleep
<1>9. ASSUME NEW t \in Threads, SetClosed(t)
      PROVE  Typing'
  BY <1>9 DEF SetClosed, Ops
<1>10. ASSUME NEW t \in Threads, NEW s \in Threads, NotifyOne(t, s)
       PROVE  Typing'
  BY <1>10 DEF NotifyOne, Signalled, OnNotEmpty, OnNotFull, Sleepers
<1>11. ASSUME NEW t \in Threads, NotifyNobody(t)
       PROVE  Typing'
  BY <1>11 DEF NotifyNobody
<1>12. ASSUME NEW t \in Threads, NotifyAllNotEmpty(t)
       PROVE  Typing'
  BY <1>12 DEF NotifyAllNotEmpty, Broadcast, OnNotEmpty, Sleepers
<1>13. ASSUME NEW t \in Threads, NotifyAllNotFull(t)
       PROVE  Typing'
  BY <1>13 DEF NotifyAllNotFull, Broadcast, OnNotFull, Sleepers
<1>14. ASSUME NEW t \in Threads, Expire(t)
       PROVE  Typing'
  BY <1>14 DEF Expire
<1>15. ASSUME NEW t \in Threads, SpuriousWake(t)
       PROVE  Typing'
  BY <1>15 DEF SpuriousWake
<1>16. CASE UNCHANGED vars
  BY <1>16 DEF vars
<1> QED
  BY <1>1, <1>2, <1>3, <1>4, <1>5, <1>6, <1>7, <1>8, <1>9, <1>10, <1>11,
     <1>12, <1>13, <1>14, <1>15, <1>16 DEF Next, InCall

(* The queue never holds more than capacity_ items, and every variable has  *)
(* its type, under every interleaving of the calls.                         *)
THEOREM TypeCorrect == Spec => []TypeOK
<1>1. Spec => []Typing
  BY TypingInit, TypingStep, PTL DEF Spec
<1>2. Typing => TypeOK
  BY DEF Typing
<1> QED
  BY <1>1, <1>2, PTL
-----------------------------------------------------------------------------
(* Counting.  A set of threads is finite; what follows is all the           *)
(* arithmetic on cardinalities that the wake-ups need.                      *)

(* A larger set has at least as many members.                               *)
LEMMA Grows ==
  ASSUME NEW S \in SUBSET Threads, NEW T \in SUBSET Threads, S \subseteq T
  PROVE  /\ Cardinality(S) \in Nat /\ Cardinality(T) \in Nat
         /\ Cardinality(S) <= Cardinality(T)
<1>1. IsFiniteSet(T)
  BY ThreadsAssumption, FS_Subset
<1> QED
  BY <1>1, FS_Subset, FS_CardinalityType

(* One new member makes it one larger.                                      *)
LEMMA Gains ==
  ASSUME NEW S \in SUBSET Threads, NEW T \in SUBSET Threads,
         NEW t \in T, t \notin S, S \subseteq T
  PROVE  /\ Cardinality(S) \in Nat /\ Cardinality(T) \in Nat
         /\ Cardinality(S) + 1 <= Cardinality(T)
<1>1. IsFiniteSet(S)
  BY ThreadsAssumption, FS_Subset
<1>2. Cardinality(S \cup {t}) = Cardinality(S) + 1
  BY <1>1, FS_AddElement
<1>3. Cardinality(S \cup {t}) <= Cardinality(T) /\ Cardinality(T) \in Nat
  BY Grows
<1> QED
  BY <1>1, <1>2, <1>3, FS_CardinalityType

(* Without one of its members it is at most one smaller.                    *)
LEMMA Loses ==
  ASSUME NEW S \in SUBSET Threads, NEW T \in SUBSET Threads,
         NEW t, S \ {t} \subseteq T
  PROVE  /\ Cardinality(S) \in Nat /\ Cardinality(T) \in Nat
         /\ Cardinality(S) - 1 <= Cardinality(T)
<1>1. IsFiniteSet(S)
  BY ThreadsAssumption, FS_Subset
<1>2. /\ Cardinality(S) \in Nat
      /\ Cardinality(S \ {t}) =
            IF t \in S THEN Cardinality(S) - 1 ELSE Cardinality(S)
  BY <1>1, FS_RemoveElement, FS_CardinalityType
<1>3. Cardinality(S \ {t}) <= Cardinality(T) /\ Cardinality(T) \in Nat
  BY Grows
<1>4. Cardinality(S \ {t}) >= Cardinality(S) - 1
  BY <1>2
<1> QED
  BY <1>2, <1>3, <1>4

(* One member out, one other in: no smaller.                                *)
LEMMA Swaps ==
  ASSUME NEW S \in SUBSET Threads, NEW T \in SUBSET Threads,
         NEW t, NEW s \in T, s \notin S, S \ {t} \subseteq T
  PROVE  /\ Cardinality(S) \in Nat /\ Cardinality(T) \in Nat
         /\ Cardinality(S) <= Cardinality(T)
<1>1. /\ Cardinality(S) \in Nat /\ Cardinality(S \ {t}) \in Nat
      /\ Cardinality(S) - 1 <= Cardinality(S \ {t})
  BY Loses
<1>2. Cardinality(S \ {t}) + 1 <= Cardinality(T) /\ Cardinality(T) \in Nat
  BY Gains
<1> QED
  BY <1>1, <1>2
-----------------------------------------------------------------------------
(* An item in the queue of a sleeping consumer stays accounted for: the     *)
(* thread that adds an item is about to notify, a notifier hands over to    *)
(* the consumer it wakes, and a consumer leaves only with an item or when   *)
(* there is none.                                                           *)
LEMMA ItemsStep == Typing /\ ItemsClaimed /\ [Next]_vars => ItemsClaimed'
<1> SUFFICES ASSUME Typing, ItemsClaimed, [Next]_vars,
                    OnNotEmpty' # {}, ~closed'
             PROVE  Len(queue') <= Cardinality(ItemCarriers')
  BY DEF ItemsClaimed
<1> USE DEF Typing, TypeOK, CallOK, OnNotEmpty, OnNotFull, Sleepers,
            ItemCarriers, Awake, Notifying, PushOps, PopOps, TimedOps
<1>a. ItemCarriers \in SUBSET Threads /\ ItemCarriers' \in SUBSET Threads
  OBVIOUS
<1>b. Len(queue) \in Nat
  OBVIOUS
<1>q. ASSUME queue' = queue, OnNotEmpty' \subseteq OnNotEmpty,
             closed' = closed, ItemCarriers \subseteq ItemCarriers'
      PROVE  Len(queue') <= Cardinality(ItemCarriers')
  <2>1. Cardinality(ItemCarriers) <= Cardinality(ItemCarriers')
    BY <1>a, <1>q, Grows
  <2>2. Len(queue) <= Cardinality(ItemCarriers)
    BY <1>q DEF ItemsClaimed
  <2>3. /\ Cardinality(ItemCarriers) \in Nat
        /\ Cardinality(ItemCarriers') \in Nat
    BY <1>a, Grows
  <2> QED
    BY <1>b, <1>q, <2>1, <2>2, <2>3
<1>0. ASSUME Len(queue') = 0
      PROVE  Len(queue') <= Cardinality(ItemCarriers')
  BY <1>0, <1>a, Grows
<1>1. ASSUME NEW t \in Threads, NEW o \in Ops, NEW v \in Values,
             CallPush(t, o, v)
      PROVE  Len(queue') <= Cardinality(ItemCarriers')
  BY <1>1, <1>q DEF CallPush, Enter
<1>2. ASSUME NEW t \in Threads, NEW o \in Ops, CallOther(t, o)
      PROVE  Len(queue') <= Cardinality(ItemCarriers')
  BY <1>2, <1>q DEF CallOther, Enter
<1>3. ASSUME NEW t \in Threads, PushItem(t)
      PROVE  Len(queue') <= Cardinality(ItemCarriers')
  <2>1. /\ t \in ItemCarriers' /\ t \notin ItemCarriers
        /\ ItemCarriers \subseteq ItemCarriers'
    BY <1>3 DEF PushItem
  <2>2. OnNotEmpty # {} /\ ~closed
    BY <1>3 DEF PushItem
  <2>3. Len(queue') = Len(queue) + 1
    BY <1>3 DEF PushItem
  <2>4. Len(queue) <= Cardinality(ItemCarriers)
    BY <2>2 DEF ItemsClaimed
  <2>5. /\ Cardinality(ItemCarriers) \in Nat
        /\ Cardinality(ItemCarriers') \in Nat
        /\ Cardinality(ItemCarriers) + 1 <= Cardinality(ItemCarriers')
    BY <1>a, <2>1, Gains
  <2> QED
    BY <1>b, <2>3, <2>4, <2>5
<1>4. ASSUME NEW t \in Threads, PushClosed(t)
      PROVE  Len(queue') <= Cardinality(ItemCarriers')
  BY <1>4 DEF PushClosed
<1>5. ASSUME NEW t \in Threads, PopItem(t)
      PROVE  Len(queue') <= Cardinality(ItemCarriers')
  <2>1. ItemCarriers \ {t} \subseteq ItemCarriers'
    BY <1>5 DEF PopItem
  <2>2. OnNotEmpty # {} /\ ~closed
    BY <1>5 DEF PopItem
  <2>3. Len(queue') = Len(queue) - 1
    BY <1>5 DEF PopItem
  <2>4. Len(queue) <= Cardinality(ItemCarriers)
    BY <2>2 DEF ItemsClaimed
  <2>5. /\ Cardinality(ItemCarriers) \in Nat
        /\ Cardinality(ItemCarriers') \in Nat
        /\ Cardinality(ItemCarriers) - 1 <= Cardinality(ItemCarriers')
    BY <1>a, <2>1, Loses
  <2> QED
    BY <1>b, <2>3, <2>4, <2>5
<1>6. ASSUME NEW t \in Threads, PopEnded(t)
      PROVE  Len(queue') <= Cardinality(ItemCarriers')
  BY <1>6, <1>0 DEF PopEnded
<1>7. ASSUME NEW t \in Threads, GiveUp(t)
      PROVE  Len(queue') <= Cardinality(ItemCarriers')
  <2>1. CASE op[t] \in PushOps
    BY <1>7, <2>1, <1>q DEF GiveUp
  <2>2. CASE op[t] \notin PushOps
    BY <1>7, <2>2, <1>0 DEF GiveUp
  <2> QED
    BY <2>1, <2>2
<1>8. ASSUME NEW t \in Threads, Sleep(t)
      PROVE  Len(queue') <= Cardinality(ItemCarriers')
  <2>1. CASE op[t] \in PushOps
    BY <1>8, <2>1, <1>q DEF Sleep
  <2>2. CASE op[t] \notin PushOps
    BY <1>8, <2>2, <1>0 DEF Sleep
  <2> QED
    BY <2>1, <2>2
<1>9. ASSUME NEW t \in Threads, SetClosed(t)
      PROVE  Len(queue') <= Cardinality(ItemCarriers')
  BY <1>9 DEF SetClosed
<1>10. ASSUME NEW t \in Threads, NEW s \in Threads, NotifyOne(t, s)
       PROVE  Len(queue') <= Cardinality(ItemCarriers')
  <2>1. CASE op[t] \in PushOps
    <3>1. s \in ItemCarriers' /\ s \notin ItemCarriers
      BY <1>10, <2>1 DEF NotifyOne, Signalled
    <3>2. ItemCarriers \ {t} \subseteq ItemCarriers'
      BY <1>10, <2>1 DEF NotifyOne, Signalled
    <3>3. queue' = queue /\ OnNotEmpty # {} /\ ~closed
      BY <1>10, <2>1 DEF NotifyOne, Signalled
    <3>4. /\ Cardinality(ItemCarriers) \in Nat
          /\ Cardinality(ItemCarriers') \in Nat
          /\ Cardinality(ItemCarriers) <= Cardinality(ItemCarriers')
      BY <1>a, <3>1, <3>2, Swaps
    <3>5. Len(queue) <= Cardinality(ItemCarriers)
      BY <3>3 DEF ItemsClaimed
    <3> QED
      BY <1>b, <3>3, <3>4, <3>5
  <2>2. CASE op[t] \notin PushOps
    BY <1>10, <2>2, <1>q DEF NotifyOne, Signalled
  <2> QED
    BY <2>1, <2>2
<1>11. ASSUME NEW t \in Threads, NotifyNobody(t)
       PROVE  Len(queue') <= Cardinality(ItemCarriers')
  <2>1. CASE op[t] \in PushOps
    BY <1>11, <2>1 DEF NotifyNobody, Signalled
  <2>2. CASE op[t] \notin PushOps
    BY <1>11, <2>2, <1>q DEF NotifyNobody
  <2> QED
    BY <2>1, <2>2
<1>12. ASSUME NEW t \in Threads, NotifyAllNotEmpty(t)
       PROVE  Len(queue') <= Cardinality(ItemCarriers')
  BY <1>12 DEF NotifyAllNotEmpty, Broadcast
<1>13. ASSUME NEW t \in Threads, NotifyAllNotFull(t)
       PROVE  Len(queue') <= Cardinality(ItemCarriers')
  BY <1>13 DEF NotifyAllNotFull, Broadcast
<1>14. ASSUME NEW t \in Threads, Expire(t)
       PROVE  Len(queue') <= Cardinality(ItemCarriers')
  BY <1>14, <1>q DEF Expire
<1>15. ASSUME NEW t \in Threads, SpuriousWake(t)
       PROVE  Len(queue') <= Cardinality(ItemCarriers')
  BY <1>15, <1>q DEF SpuriousWake
<1>16. CASE UNCHANGED vars
  BY <1>16, <1>q DEF vars
<1> QED
  BY <1>1, <1>2, <1>3, <1>4, <1>5, <1>6, <1>7, <1>8, <1>9, <1>10, <1>11,
     <1>12, <1>13, <1>14, <1>15, <1>16 DEF Next, InCall
-----------------------------------------------------------------------------
(* The same of a free slot and a sleeping producer.                         *)
LEMMA SlotsStep == Typing /\ SlotsClaimed /\ [Next]_vars => SlotsClaimed'
<1> SUFFICES ASSUME Typing, SlotsClaimed, [Next]_vars,
                    OnNotFull' # {}, ~closed'
             PROVE  Capacity - Len(queue') <= Cardinality(SlotCarriers')
  BY DEF SlotsClaimed
<1> USE DEF Typing, TypeOK, CallOK, OnNotEmpty, OnNotFull, Sleepers,
            SlotCarriers, Awake, Notifying, PushOps, PopOps, TimedOps
<1>a. SlotCarriers \in SUBSET Threads /\ SlotCarriers' \in SUBSET Threads
  OBVIOUS
<1>b. Len(queue) \in Nat /\ Capacity \in Nat
  BY CapacityAssumption
<1>q. ASSUME queue' = queue, OnNotFull' \subseteq OnNotFull,
             closed' = closed, SlotCarriers \subseteq SlotCarriers'
      PROVE  Capacity - Len(queue') <= Cardinality(SlotCarriers')
  <2>1. Cardinality(SlotCarriers) <= Cardinality(SlotCarriers')
    BY <1>a, <1>q, Grows
  <2>2. Capacity - Len(queue) <= Cardinality(SlotCarriers)
    BY <1>q DEF SlotsClaimed
  <2>3. /\ Cardinality(SlotCarriers) \in Nat
        /\ Cardinality(SlotCarriers') \in Nat
    BY <1>a, Grows
  <2> QED
    BY <1>b, <1>q, <2>1, <2>2, <2>3
<1>0. ASSUME Len(queue') >= Capacity, Len(queue') \in Nat
      PROVE  Capacity - Len(queue') <= Cardinality(SlotCarriers')
  BY <1>0, <1>a, <1>b, Grows
<1>1. ASSUME NEW t \in Threads, NEW o \in Ops, NEW v \in Values,
             CallPush(t, o, v)
      PROVE  Capacity - Len(queue') <= Cardinality(SlotCarriers')
  BY <1>1, <1>q DEF CallPush, Enter
<1>2. ASSUME NEW t \in Threads, NEW o \in Ops, CallOther(t, o)
      PROVE  Capacity - Len(queue') <= Cardinality(SlotCarriers')
  BY <1>2, <1>q DEF CallOther, Enter
<1>3. ASSUME NEW t \in Threads, PushItem(t)
      PROVE  Capacity - Len(queue') <= Cardinality(SlotCarriers')
  <2>1. SlotCarriers \ {t} \subseteq SlotCarriers'
    BY <1>3 DEF PushItem
  <2>2. OnNotFull # {} /\ ~closed
    BY <1>3 DEF PushItem
  <2>3. Len(queue') = Len(queue) + 1
    BY <1>3 DEF PushItem
  <2>4. Capacity - Len(queue) <= Cardinality(SlotCarriers)
    BY <2>2 DEF SlotsClaimed
  <2>5. /\ Cardinality(SlotCarriers) \in Nat
        /\ Cardinality(SlotCarriers') \in Nat
        /\ Cardinality(SlotCarriers) - 1 <= Cardinality(SlotCarriers')
    BY <1>a, <2>1, Loses
  <2> QED
    BY <1>b, <2>3, <2>4, <2>5
<1>4. ASSUME NEW t \in Threads, PushClosed(t)
      PROVE  Capacity - Len(queue') <= Cardinality(SlotCarriers')
  BY <1>4 DEF PushClosed
<1>5. ASSUME NEW t \in Threads, PopItem(t)
      PROVE  Capacity - Len(queue') <= Cardinality(SlotCarriers')
  <2>1. /\ t \in SlotCarriers' /\ t \notin SlotCarriers
        /\ SlotCarriers \subseteq SlotCarriers'
    BY <1>5 DEF PopItem
  <2>2. OnNotFull # {} /\ ~closed
    BY <1>5 DEF PopItem
  <2>3. Len(queue') = Len(queue) - 1
    BY <1>5 DEF PopItem
  <2>4. Capacity - Len(queue) <= Cardinality(SlotCarriers)
    BY <2>2 DEF SlotsClaimed
  <2>5. /\ Cardinality(SlotCarriers) \in Nat
        /\ Cardinality(SlotCarriers') \in Nat
        /\ Cardinality(SlotCarriers) + 1 <= Cardinality(SlotCarriers')
    BY <1>a, <2>1, Gains
  <2> QED
    BY <1>b, <2>3, <2>4, <2>5
<1>6. ASSUME NEW t \in Threads, PopEnded(t)
      PROVE  Capacity - Len(queue') <= Cardinality(SlotCarriers')
  BY <1>6 DEF PopEnded
<1>7. ASSUME NEW t \in Threads, GiveUp(t)
      PROVE  Capacity - Len(queue') <= Cardinality(SlotCarriers')
  <2>1. CASE op[t] \notin PushOps
    BY <1>7, <2>1, <1>q DEF GiveUp
  <2>2. CASE op[t] \in PushOps
    <3>1. queue' = queue /\ ~(Len(queue) < Capacity)
      BY <1>7, <2>2 DEF GiveUp
    <3> QED
      BY <3>1, <1>b, <1>0
  <2> QED
    BY <2>1, <2>2
<1>8. ASSUME NEW t \in Threads, Sleep(t)
      PROVE  Capacity - Len(queue') <= Cardinality(SlotCarriers')
  <2>1. CASE op[t] \notin PushOps
    BY <1>8, <2>1, <1>q DEF Sleep
  <2>2. CASE op[t] \in PushOps
    <3>1. queue' = queue /\ ~(Len(queue) < Capacity)
      BY <1>8, <2>2 DEF Sleep
    <3> QED
      BY <3>1, <1>b, <1>0
  <2> QED
    BY <2>1, <2>2
<1>9. ASSUME NEW t \in Threads, SetClosed(t)
      PROVE  Capacity - Len(queue') <= Cardinality(SlotCarriers')
  BY <1>9 DEF SetClosed
<1>10. ASSUME NEW t \in Threads, NEW s \in Threads, NotifyOne(t, s)
       PROVE  Capacity - Len(queue') <= Cardinality(SlotCarriers')
  <2>1. CASE op[t] \notin PushOps
    <3>1. s \in SlotCarriers' /\ s \notin SlotCarriers
      BY <1>10, <2>1 DEF NotifyOne, Signalled
    <3>2. SlotCarriers \ {t} \subseteq SlotCarriers'
      BY <1>10, <2>1 DEF NotifyOne, Signalled
    <3>3. queue' = queue /\ OnNotFull # {} /\ ~closed
      BY <1>10, <2>1 DEF NotifyOne, Signalled
    <3>4. /\ Cardinality(SlotCarriers) \in Nat
          /\ Cardinality(SlotCarriers') \in Nat
          /\ Cardinality(SlotCarriers) <= Cardinality(SlotCarriers')
      BY <1>a, <3>1, <3>2, Swaps
    <3>5. Capacity - Len(queue) <= Cardinality(SlotCarriers)
      BY <3>3 DEF SlotsClaimed
    <3> QED
      BY <1>b, <3>3, <3>4, <3>5
  <2>2. CASE op[t] \in PushOps
    BY <1>10, <2>2, <1>q DEF NotifyOne, Signalled
  <2> QED
    BY <2>1, <2>2
<1>11. ASSUME NEW t \in Threads, NotifyNobody(t)
       PROVE  Capacity - Len(queue') <= Cardinality(SlotCarriers')
  <2>1. CASE op[t] \notin PushOps
    BY <1>11, <2>1 DEF NotifyNobody, Signalled
  <2>2. CASE op[t] \in PushOps
    BY <1>11, <2>2, <1>q DEF NotifyNobody
  <2> QED
    BY <2>1, <2>2
<1>12. ASSUME NEW t \in Threads, NotifyAllNotEmpty(t)
       PROVE  Capacity - Len(queue') <= Cardinality(SlotCarriers')
  BY <1>12 DEF NotifyAllNotEmpty, Broadcast
<1>13. ASSUME NEW t \in Threads, NotifyAllNotFull(t)
       PROVE  Capacity - Len(queue') <= Cardinality(SlotCarriers')
  BY <1>13 DEF NotifyAllNotFull, Broadcast
<1>14. ASSUME NEW t \in Threads, Expire(t)
       PROVE  Capacity - Len(queue') <= Cardinality(SlotCarriers')
  BY <1>14, <1>q DEF Expire
<1>15. ASSUME NEW t \in Threads, SpuriousWake(t)
       PROVE  Capacity - Len(queue') <= Cardinality(SlotCarriers')
  BY <1>15, <1>q DEF SpuriousWake
<1>16. CASE UNCHANGED vars
  BY <1>16, <1>q DEF vars
<1> QED
  BY <1>1, <1>2, <1>3, <1>4, <1>5, <1>6, <1>7, <1>8, <1>9, <1>10, <1>11,
     <1>12, <1>13, <1>14, <1>15, <1>16 DEF Next, InCall
-----------------------------------------------------------------------------
(* On a closed queue whoever sleeps is owed a notify_all that is under way: *)
(* nobody goes to sleep any more, and close wakes first one side, then the  *)
(* other.                                                                   *)
LEMMA BroadcastStep ==
  Typing /\ CloseBroadcasts /\ [Next]_vars => CloseBroadcasts'
<1> SUFFICES ASSUME Typing, CloseBroadcasts, [Next]_vars, closed'
             PROVE  CloseBroadcasts'
  BY DEF CloseBroadcasts
<1> USE DEF Typing, TypeOK, CallOK, OnNotEmpty, OnNotFull, Sleepers,
            PushOps, PopOps, TimedOps
<1>q. ASSUME closed' = closed,
             OnNotEmpty' \subseteq OnNotEmpty, OnNotFull' \subseteq OnNotFull,
             \A u \in Threads :
                pc[u] \in {"wake_empty", "wake_full"} => pc'[u] = pc[u]
      PROVE  CloseBroadcasts'
  BY <1>q DEF CloseBroadcasts
<1>1. ASSUME NEW t \in Threads, NEW o \in Ops, NEW v \in Values,
             CallPush(t, o, v)
      PROVE  CloseBroadcasts'
  BY <1>1, <1>q DEF CallPush, Enter
<1>2. ASSUME NEW t \in Threads, NEW o \in Ops, CallOther(t, o)
      PROVE  CloseBroadcasts'
  BY <1>2, <1>q DEF CallOther, Enter
<1>3. ASSUME NEW t \in Threads, PushItem(t)
      PROVE  CloseBroadcasts'
  BY <1>3 DEF PushItem
<1>4. ASSUME NEW t \in Threads, PushClosed(t)
      PROVE  CloseBroadcasts'
  BY <1>4, <1>q DEF PushClosed
<1>5. ASSUME NEW t \in Threads, PopItem(t)
      PROVE  CloseBroadcasts'
  BY <1>5, <1>q DEF PopItem
<1>6. ASSUME NEW t \in Threads, PopEnded(t)
      PROVE  CloseBroadcasts'
  BY <1>6, <1>q DEF PopEnded
<1>7. ASSUME NEW t \in Threads, GiveUp(t)
      PROVE  CloseBroadcasts'
  BY <1>7, <1>q DEF GiveUp
<1>8. ASSUME NEW t \in Threads, Sleep(t)
      PROVE  CloseBroadcasts'
  BY <1>8 DEF Sleep
<1>9. ASSUME NEW t \in Threads, SetClosed(t)
      PROVE  CloseBroadcasts'
  <2>1. pc'[t] = "wake_empty"
    BY <1>9 DEF SetClosed
  <2> QED
    BY <2>1 DEF CloseBroadcasts
<1>10. ASSUME NEW t \in Threads, NEW s \in Threads, NotifyOne(t, s)
       PROVE  CloseBroadcasts'
  BY <1>10, <1>q DEF NotifyOne, Signalled
<1>11. ASSUME NEW t \in Threads, NotifyNobody(t)
       PROVE  CloseBroadcasts'
  BY <1>11, <1>q DEF NotifyNobody
<1>12. ASSUME NEW t \in Threads, NotifyAllNotEmpty(t)
       PROVE  CloseBroadcasts'
  <2>1. OnNotEmpty' = {}
    BY <1>12 DEF NotifyAllNotEmpty, Broadcast
  <2>2. pc'[t] = "wake_full"
    BY <1>12 DEF NotifyAllNotEmpty, Broadcast
  <2> QED
    BY <2>1, <2>2 DEF CloseBroadcasts
<1>13. ASSUME NEW t \in Threads, NotifyAllNotFull(t)
       PROVE  CloseBroadcasts'
  <2>1. OnNotFull' = {}
    BY <1>13 DEF NotifyAllNotFull, Broadcast
  <2>2. OnNotEmpty' \subseteq OnNotEmpty /\ closed
    BY <1>13 DEF NotifyAllNotFull, Broadcast
  <2>3. \A u \in Threads : pc[u] = "wake_empty" => pc'[u] = "wake_empty"
    BY <1>13 DEF NotifyAllNotFull, Broadcast
  <2> QED
    BY <2>1, <2>2, <2>3 DEF CloseBroadcasts
<1>14. ASSUME NEW t \in Threads, Expire(t)
       PROVE  CloseBroadcasts'
  BY <1>14, <1>q DEF Expire
<1>15. ASSUME NEW t \in Threads, SpuriousWake(t)
       PROVE  CloseBroadcasts'
  BY <1>15, <1>q DEF SpuriousWake
<1>16. CASE UNCHANGED vars
  BY <1>16, <1>q DEF vars
<1> QED
  BY <1>1, <1>2, <1>3, <1>4, <1>5, <1>6, <1>7, <1>8, <1>9, <1>10, <1>11,
     <1>12, <1>13, <1>14, <1>15, <1>16 DEF Next, InCall

(* The inductive invariant holds of every behaviour.                        *)
LEMMA Inductive == Spec => []IInv
<1>1. Init => IInv
  <2>1. Init => OnNotEmpty = {} /\ OnNotFull = {}
    BY DEF Init, OnNotEmpty, OnNotFull, Sleepers
  <2> QED
    BY <2>1, TypingInit DEF IInv, Typing, NoLostWakeup, ItemsClaimed,
       SlotsClaimed, CloseBroadcasts
<1>2. IInv /\ [Next]_vars => IInv'
  BY TypingStep, ItemsStep, SlotsStep, BroadcastStep
     DEF IInv, Typing, NoLostWakeup
<1> QED
  BY <1>1, <1>2, PTL DEF Spec

(* No wake-up is lost, although notify_one comes after the unlock and may   *)
(* wake a thread that finds nothing left: for any number of producers and   *)
(* consumers, any mix of timed and untimed calls, and any capacity.         *)
THEOREM WakeupsKept == Spec => []NoLostWakeup
<1>1. IInv => NoLostWakeup
  BY DEF IInv
<1> QED
  BY <1>1, Inductive, PTL
-----------------------------------------------------------------------------
(* A closed queue stays closed and, once drained, empty: that is what keeps *)
(* ResultJustified true after the call has returned.                        *)
LEMMA ResultStep ==
  Typing /\ ResultJustified /\ [Next]_vars => ResultJustified'
<1> SUFFICES ASSUME Typing, ResultJustified, [Next]_vars
             PROVE  ResultJustified'
  OBVIOUS
<1> USE DEF Typing, TypeOK, CallOK, ResultJustified, PushOps, PopOps, TimedOps
<1>1. ASSUME NEW t \in Threads, NEW o \in Ops, NEW v \in Values,
             CallPush(t, o, v)
      PROVE  ResultJustified'
  BY <1>1 DEF CallPush, Enter
<1>2. ASSUME NEW t \in Threads, NEW o \in Ops, CallOther(t, o)
      PROVE  ResultJustified'
  BY <1>2 DEF CallOther, Enter
<1>3. ASSUME NEW t \in Threads, PushItem(t)
      PROVE  ResultJustified'
  BY <1>3 DEF PushItem
<1>4. ASSUME NEW t \in Threads, PushClosed(t)
      PROVE  ResultJustified'
  BY <1>4 DEF PushClosed
<1>5. ASSUME NEW t \in Threads, PopItem(t)
      PROVE  ResultJustified'
  <2>1. ret'[t] \in Values /\ closed' = closed
    BY <1>5 DEF PopItem
  <2>2. \A u \in Threads : u # t => ret'[u] = ret[u] /\ op'[u] = op[u]
    BY <1>5 DEF PopItem
  <2>3. queue = <<>> => queue' = <<>>
    BY <1>5 DEF PopItem
  <2>4. op'[t] \in PopOps /\ ret'[t] # "nullopt"
    BY <1>5, <2>1, ValuesAssumption DEF PopItem
  <2> QED
    BY <2>1, <2>2, <2>3, <2>4
<1>6. ASSUME NEW t \in Threads, PopEnded(t)
      PROVE  ResultJustified'
  BY <1>6 DEF PopEnded
<1>7. ASSUME NEW t \in Threads, GiveUp(t)
      PROVE  ResultJustified'
  BY <1>7 DEF GiveUp
<1>8. ASSUME NEW t \in Threads, Sleep(t)
      PROVE  ResultJustified'
  BY <1>8 DEF Sleep
<1>9. ASSUME NEW t \in Threads, SetClosed(t)
      PROVE  ResultJustified'
  BY <1>9 DEF SetClosed
<1>10. ASSUME NEW t \in Threads, NEW s \in Threads, NotifyOne(t, s)
       PROVE  ResultJustified'
  BY <1>10 DEF NotifyOne
<1>11. ASSUME NEW t \in Threads, NotifyNobody(t)
       PROVE  ResultJustified'
  BY <1>11 DEF NotifyNobody
<1>12. ASSUME NEW t \in Threads,
              NotifyAllNotEmpty(t) \/ NotifyAllNotFull(t)
       PROVE  ResultJustified'
  BY <1>12 DEF NotifyAllNotEmpty, NotifyAllNotFull, Broadcast
<1>13. ASSUME NEW t \in Threads, Expire(t)
       PROVE  ResultJustified'
  BY <1>13 DEF Expire
<1>14. ASSUME NEW t \in Threads, SpuriousWake(t)
       PROVE  ResultJustified'
  BY <1>14 DEF SpuriousWake
<1>15. CASE UNCHANGED vars
  BY <1>15 DEF vars
<1> QED
  BY <1>1, <1>2, <1>3, <1>4, <1>5, <1>6, <1>7, <1>8, <1>9, <1>10, <1>11,
     <1>12, <1>13, <1>14, <1>15 DEF Next, InCall

(* A push without a timeout fails only on a closed queue, and a pop without *)
(* a timeout returns nothing only when the queue is closed and drained,     *)
(* whatever wakes them.                                                     *)
THEOREM ResultsJustified == Spec => []ResultJustified
<1>1. Init => ResultJustified
  BY DEF Init, ResultJustified
<1>2. Typing /\ ResultJustified /\ [Next]_vars
        => Typing' /\ ResultJustified'
  BY TypingStep, ResultStep
<1> QED
  BY <1>1, <1>2, TypingInit, PTL DEF Spec
-----------------------------------------------------------------------------
(* Step by step, the queue is the channel BoundedChannel describes: the     *)
(* critical section of a call is the step in which it takes effect, and     *)
(* sleeping, waking, notifying are nothing the caller can see.              *)
LEMMA ChannelStep == Typing /\ [Next]_vars => [Promise!Next]_(Promise!vars)
<1> SUFFICES ASSUME Typing, [Next]_vars
             PROVE  Promise!Next \/ UNCHANGED <<Chan, ret>>
  BY DEF Promise!vars
<1> USE DEF Typing, TypeOK, CallOK, PushOps, PopOps, TimedOps,
            Promise!Returns, Promise!PushReady, Promise!PopReady,
            Promise!Put, Promise!Take, Promise!Ended, Promise!Shut
<1>1. ASSUME NEW t \in Threads, NEW o \in Ops, NEW v \in Values,
             CallPush(t, o, v)
      PROVE  Promise!Call(t)
  BY <1>1 DEF CallPush, Enter, Promise!Call
<1>2. ASSUME NEW t \in Threads, NEW o \in Ops, CallOther(t, o)
      PROVE  Promise!Call(t)
  BY <1>2 DEF CallOther, Enter, Promise!Call
<1>3. ASSUME NEW t \in Threads, PushItem(t)
      PROVE  arg[t] \in Values /\ Promise!Send(t, arg[t])
  BY <1>3 DEF PushItem, Promise!Send
<1>4. ASSUME NEW t \in Threads, PushClosed(t)
      PROVE  Promise!Refuse(t)
  BY <1>4 DEF PushClosed, Promise!Refuse
<1>5. ASSUME NEW t \in Threads, PopItem(t)
      PROVE  Promise!Receive(t)
  BY <1>5 DEF PopItem, Promise!Receive
<1>6. ASSUME NEW t \in Threads, PopEnded(t)
      PROVE  Promise!EndOfStream(t)
  BY <1>6 DEF PopEnded, Promise!EndOfStream
<1>7. ASSUME NEW t \in Threads, GiveUp(t)
      PROVE  Promise!SendTimeout(t) \/ Promise!ReceiveTimeout(t)
  BY <1>7 DEF GiveUp, Promise!SendTimeout, Promise!ReceiveTimeout
<1>8. ASSUME NEW t \in Threads, Sleep(t)
      PROVE  UNCHANGED <<Chan, ret>>
  BY <1>8 DEF Sleep
<1>9. ASSUME NEW t \in Threads, SetClosed(t)
      PROVE  Promise!Close
  BY <1>9 DEF SetClosed, Promise!Close
<1>10. ASSUME NEW t \in Threads, NEW s \in Threads, NotifyOne(t, s)
       PROVE  UNCHANGED <<Chan, ret>>
  BY <1>10 DEF NotifyOne
<1>11. ASSUME NEW t \in Threads, NotifyNobody(t)
       PROVE  UNCHANGED <<Chan, ret>>
  BY <1>11 DEF NotifyNobody
<1>12. ASSUME NEW t \in Threads,
              NotifyAllNotEmpty(t) \/ NotifyAllNotFull(t)
       PROVE  UNCHANGED <<Chan, ret>>
  BY <1>12 DEF NotifyAllNotEmpty, NotifyAllNotFull, Broadcast
<1>13. ASSUME NEW t \in Threads, Expire(t) \/ SpuriousWake(t)
       PROVE  UNCHANGED <<Chan, ret>>
  BY <1>13 DEF Expire, SpuriousWake
<1>14. CASE UNCHANGED vars
  BY <1>14 DEF vars
<1> QED
  BY <1>1, <1>2, <1>3, <1>4, <1>5, <1>6, <1>7, <1>8, <1>9, <1>10, <1>11,
     <1>12, <1>13, <1>14 DEF Next, InCall, Promise!Next

(* The queue implements the bounded channel its comment promises, for every *)
(* number of threads and every capacity.                                    *)
THEOREM Implements == Spec => ImplementsChannel
<1>1. Init => Promise!Init
  BY DEF Init, Promise!Init, Promise!NewChannel
<1>2. Spec => []Typing
  BY TypingInit, TypingStep, PTL DEF Spec
<1> QED
  BY <1>1, <1>2, ChannelStep, PTL DEF Spec, ImplementsChannel, Promise!Spec
=============================================================================
