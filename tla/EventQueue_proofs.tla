-------------------------- MODULE EventQueue_proofs --------------------------
(***************************************************************************)
(* For every set of waiters, every width of the counter and every bound:   *)
(* the event queue holds only the events of threads that are still inside  *)
(* wait_absolute(), each once and in the order of their deadlines; nobody  *)
(* wakes early but over a wrap of the counter; and nobody wakes late as    *)
(* long as every ready thread is run before the next tick.                 *)
(*                                                                         *)
(* IInv is the invariant of the list; WakeInv adds the deadlines, what the *)
(* semaphores count and who holds the timer; TimelyInv adds who sees to it *)
(* that the timer fires in time for the head of the list.                  *)
(***************************************************************************)
EXTENDS MCEventQueue, ListLemmas

-----------------------------------------------------------------------------
(* Arithmetic of timer_t.                                                  *)

LEMMA UnsignedRange == \A t \in Int : Unsigned(t) \in 0 .. Modulus - 1
  BY TimerAssumption DEF Unsigned

LEMMA SignedInt == \A t \in Int : Signed(t) \in Int
  BY TimerAssumption, UnsignedRange DEF Signed

LEMMA ClipInt ==
  ASSUME NEW dt \in Int
  PROVE  Clip(dt) \in Int /\ Clip(dt) % (MaxReload + 1) \in Nat
  BY TimerAssumption DEF Clip

-----------------------------------------------------------------------------
(* The list operations of the queue.                                       *)

\* add_sorted() stops at the first event that is not sooner.
LEMMA AddSortedPlace ==
  ASSUME NEW q \in Seq(Waiters), NEW w \in Waiters
  PROVE  \E at \in 1 .. Len(q) + 1 :
           /\ AddSorted(q, w) = InsertAt(q, at, w)
           /\ \A i \in 1 .. at - 1 : ~(timer_cmp(time[w], time[q[i]]) >= 0)
           /\ at <= Len(q) => timer_cmp(time[w], time[q[at]]) >= 0
<1> DEFINE I == {i \in 1 .. Len(q) : timer_cmp(time[w], time[q[i]]) >= 0}
           at == IF I = {} THEN Len(q) + 1 ELSE Min(I)
<1>0. I \subseteq Nat /\ 0 \notin I /\ Len(q) \in Nat
  BY LenProperties
<1>1. I # {} => Min(I) \in I /\ \A i \in I : Min(I) <= i
  BY <1>0, MinFact
<1>2. AddSorted(q, w) = InsertAt(q, at, w)
  <2>1. I # {} => Min(I) # 0
    BY <1>0, <1>1
  <2> QED
    BY <2>1 DEF AddSorted, SelectInSeq
<1>3. /\ at \in 1 .. Len(q) + 1
      /\ \A i \in 1 .. at - 1 : i \in 1 .. Len(q) /\ i \notin I
      /\ at <= Len(q) => at \in I
  <2>1. CASE I = {}
    BY <1>0, <2>1
  <2>2. CASE I # {}
    <3>1. at = Min(I)
      BY <2>2
    <3> HIDE DEF at
    <3>2. at \in I /\ (\A i \in I : at <= i) /\ at \in 1 .. Len(q)
      BY <1>1, <2>2, <3>1
    <3> HIDE DEF I
    <3> QED
      BY <1>0, <3>2
  <2> QED
    BY <2>1, <2>2
<1> HIDE DEF at
<1> QED
  BY <1>2, <1>3

LEMMA AddSortedFacts ==
  ASSUME NEW q \in Seq(Waiters), NEW w \in Waiters, Distinct(q), w \notin ToSet(q)
  PROVE  /\ AddSorted(q, w) \in Seq(Waiters)
         /\ Distinct(AddSorted(q, w))
         /\ ToSet(AddSorted(q, w)) = ToSet(q) \cup {w}
<1>1. PICK at \in 1 .. Len(q) + 1 : AddSorted(q, w) = InsertAt(q, at, w)
  BY AddSortedPlace
<1>2. InsertAt(q, at, w) \in Seq(Waiters)
  BY InsertAtFacts
<1>3. Distinct(InsertAt(q, at, w)) /\ ToSet(InsertAt(q, at, w)) = ToSet(q) \cup {w}
  BY InsertKeepsDistinct
<1> QED
  BY <1>1, <1>2, <1>3

-----------------------------------------------------------------------------
(* The inductive invariant: besides the type and the two properties, the   *)
(* manager holds the mutex exactly while it works on the list, which is    *)
(* why the event it has picked cannot be unlinked behind its back.         *)

MutexInv == mutex = "manager" <=> mpc \in {"loop", "unlink", "post"}

PickedInv ==
  /\ mpc = "unlink" => mevent \in Queued
  /\ mpc = "post" => mevent \in Waiters

IInv == TypeOK /\ EventsAlive /\ LinkedOnce /\ MutexInv /\ PickedInv

LEMMA InitIInv == Init => IInv
<1> SUFFICES ASSUME Init PROVE IInv
  OBVIOUS
<1>1. TypeOK
  <2>1. 0 \in 0 .. Modulus - 1 /\ 0 \in 0 .. SemMax /\ BootPeriod \in Nat
    BY TimerAssumption, EventQueueAssumption
  <2>2. TimerTypeOK
    <3>1. irq \in BOOLEAN /\ notified \in BOOLEAN
      BY DEF Init, TimerInit
    <3> QED
      BY <2>1, <3>1 DEF Init, TimerInit, TimerTypeOK
  <2>3. armer \in Waiters \cup {"manager", None}
    BY DEF Init, TimerInit
  <2>4. WaiterTypeOK
    BY <2>1 DEF Init, WaiterTypeOK, Labels
  <2>5. QueueTypeOK
    BY <2>1 DEF Init, QueueTypeOK
  <2>6. ManagerTypeOK
    BY DEF Init, ManagerTypeOK, ManagerLabels
  <2> QED
    BY <2>2, <2>3, <2>4, <2>5, <2>6 DEF TypeOK
<1>2. Queued = {}
  BY DEF Init, Queued, ToSet
<1>3. LinkedOnce /\ MutexInv /\ PickedInv /\ EventsAlive
  BY <1>2 DEF Init, LinkedOnce, MutexInv, PickedInv, EventsAlive, None
<1> QED
  BY <1>1, <1>3 DEF IInv

LEMMA TimerClaimType ==
  ASSUME TimerTypeOK, NEW self, NEW dt \in Int, TimerClaim(self, dt)
  PROVE  TimerTypeOK' /\ armer' = self
<1>1. last_dt' \in Int
  BY ClipInt DEF TimerClaim
<1> QED
  BY <1>1 DEF TimerClaim, TimerTypeOK

LEMMA TimerArmType ==
  ASSUME TimerTypeOK, NEW self, NEW dt \in Int, TimerArm(self, dt)
  PROVE  TimerTypeOK' /\ armer' = None
<1>1. reload' \in Nat /\ remain' \in Nat
  BY ClipInt DEF TimerArm
<1> QED
  BY <1>1 DEF TimerArm, TimerTypeOK

LEMMA TimerEventType ==
  ASSUME TimerTypeOK, TimerTick \/ TimerIrq \/ TimerTake
  PROVE  TimerTypeOK' /\ armer' = armer
<1>1. CASE TimerTick
  <2>1. clock' \in Nat /\ remain' \in Nat
    BY <1>1 DEF TimerTick, TimerTypeOK
  <2>2. irq' \in BOOLEAN
    BY <1>1 DEF TimerTick
  <2> QED
    BY <1>1, <2>1, <2>2 DEF TimerTick, TimerTypeOK
<1>2. CASE TimerIrq
  <2>1. irq' \in BOOLEAN /\ notified' \in BOOLEAN
    BY <1>2 DEF TimerIrq
  <2> QED
    BY <1>2, <2>1 DEF TimerIrq, TimerTypeOK
<1>3. CASE TimerTake
  BY <1>3 DEF TimerTake, TimerTypeOK
<1> QED
  BY <1>1, <1>2, <1>3

-----------------------------------------------------------------------------
(* Every step keeps the types.                                             *)

LEMMA UnchangedTypes ==
  ASSUME TypeOK
  PROVE  /\ UNCHANGED timerVars =>
              TimerTypeOK' /\ armer' \in Waiters \cup {"manager", None}
         /\ UNCHANGED waiterVars => WaiterTypeOK'
         /\ UNCHANGED queueVars => QueueTypeOK'
         /\ UNCHANGED managerVars => ManagerTypeOK'
  BY DEF TypeOK, timerVars, waiterVars, queueVars, managerVars, TimerTypeOK,
         WaiterTypeOK, QueueTypeOK, ManagerTypeOK

LEMMA TimeFacts ==
  ASSUME TimerTypeOK
  PROVE  /\ 0 \in 0 .. Modulus - 1
         /\ TimerNow \in 0 .. Modulus - 1
         /\ TimerNow \in Int
  BY TimerAssumption, UnsignedRange DEF TimerNow, TimerTypeOK

LEMMA DelayFacts ==
  ASSUME TypeOK
  PROVE  /\ \A w \in Waiters : RescheduleDelay(w) \in Int
         /\ ManagerDelay \in Int
         /\ queue # <<>> => UntilHead \in Int
<1>1. \A w \in Waiters : time[w] \in Int /\ seen[w] \in Int
  BY TimerAssumption DEF TypeOK, WaiterTypeOK
<1>2. \A w \in Waiters : RescheduleDelay(w) \in Int
  BY <1>1, SignedInt DEF RescheduleDelay
<1>3. ManagerDelay \in Int
  BY EventQueueAssumption DEF TypeOK, ManagerTypeOK, ManagerDelay
<1>4. ASSUME queue # <<>> PROVE UntilHead \in Int
  <2>1. Head(queue) \in Waiters
    BY <1>4, HeadTailProperties DEF TypeOK, QueueTypeOK
  <2> QED
    BY <1>1, <2>1, SignedInt DEF UntilHead, timer_cmp, TypeOK, ManagerTypeOK
<1> QED
  BY <1>2, <1>3, <1>4

LEMMA WaiterType ==
  ASSUME IInv, NEW w \in Waiters, Waiter(w) \/ PostElsewhere(w)
  PROVE  TypeOK'
<1>1. TypeOK /\ TimerTypeOK /\ WaiterTypeOK /\ QueueTypeOK /\ ManagerTypeOK
  BY DEF IInv, TypeOK
<1> USE <1>1, TimeFacts
<1>2. UNCHANGED <<timerVars, managerVars>>
        => TimerTypeOK' /\ armer' \in Waiters \cup {"manager", None} /\ ManagerTypeOK'
  BY UnchangedTypes
<1>3. ASSUME NEW d \in Delays, Wait(w, d) PROVE TypeOK'
  <2>1. Unsigned(TimerNow + d) \in 0 .. Modulus - 1 /\ clock + d \in Nat
    BY EventQueueAssumption, UnsignedRange DEF TimerTypeOK
  <2>2. WaiterTypeOK'
    BY <1>3, <2>1 DEF Wait, Goto, WaiterTypeOK, Labels
  <2> QED
    BY <1>2, <1>3, <2>2, UnchangedTypes DEF Wait, TypeOK
<1>4. CASE NoPointWaiting(w)
  <2>1. WaiterTypeOK'
    BY <1>4 DEF NoPointWaiting, Return, Goto, WaiterTypeOK, Labels
  <2> QED
    BY <1>2, <1>4, <2>1, UnchangedTypes DEF NoPointWaiting, TypeOK
<1>5. CASE MustWait(w)
  <2>1. WaiterTypeOK'
    BY <1>5 DEF MustWait, Goto, WaiterTypeOK, Labels
  <2> QED
    BY <1>2, <1>5, <2>1, UnchangedTypes DEF MustWait, TypeOK
<1>6. CASE Add(w)
  <2>1. WaiterTypeOK'
    BY <1>6 DEF Add, Goto, WaiterTypeOK, Labels
  <2>2. QueueTypeOK'
    <3>1. w \notin ToSet(queue)
      BY <1>6 DEF IInv, EventsAlive, Queued, Alive, Add
    <3>2. queue' \in Seq(Waiters)
      BY <1>6, <3>1, AddSortedFacts DEF IInv, LinkedOnce, Distinct, QueueTypeOK, Add
    <3> QED
      BY <1>6, <3>2 DEF Add, QueueTypeOK
  <2> QED
    BY <1>2, <1>6, <2>1, <2>2 DEF Add, TypeOK
<1>7. CASE Reschedule(w)
  <2>1. WaiterTypeOK'
    BY <1>7 DEF Reschedule, Goto, WaiterTypeOK, Labels
  <2>2. TimerTypeOK' /\ armer' \in Waiters \cup {"manager", None}
    BY <1>7, DelayFacts, TimerClaimType, UnchangedTypes DEF Reschedule, TimerSkip
  <2> QED
    BY <1>7, <2>1, <2>2, UnchangedTypes DEF Reschedule, TypeOK
<1>8. CASE Arm(w)
  <2>1. WaiterTypeOK'
    BY <1>8 DEF Arm, Goto, WaiterTypeOK, Labels
  <2>2. TimerTypeOK' /\ armer' = None
    BY <1>8, DelayFacts, TimerArmType DEF Arm
  <2> QED
    BY <1>8, <2>1, <2>2, UnchangedTypes DEF Arm, TypeOK
<1>9. CASE Block(w)
  <2>1. WaiterTypeOK' /\ QueueTypeOK'
    <3>1. "remove" \in Labels
      BY DEF Labels
    <3>2. /\ sem' = [sem EXCEPT ![w] = sem[w] - 1] /\ sem[w] > 0
          /\ pc' = [pc EXCEPT ![w] = "remove"]
          /\ UNCHANGED <<time, due, seen, queue, mutex, posts>>
      BY <1>9 DEF Block, Goto
    <3>3. sem' \in [Waiters -> 0 .. SemMax]
      BY <3>2, EventQueueAssumption DEF QueueTypeOK
    <3>4. pc' \in [Waiters -> Labels]
      BY <3>1, <3>2 DEF WaiterTypeOK
    <3> QED
      BY <3>2, <3>3, <3>4 DEF WaiterTypeOK, QueueTypeOK
  <2> QED
    BY <1>2, <1>9, <2>1 DEF Block, TypeOK
<1>10. CASE Leave(w)
  <2>1. WaiterTypeOK'
    BY <1>10 DEF Leave, Return, Goto, WaiterTypeOK, Labels
  <2>2. queue' \in Seq(Waiters)
    BY <1>10, RemoveFirstFacts DEF Leave, Unlink, QueueTypeOK, IInv, LinkedOnce, Distinct
  <2>3. QueueTypeOK'
    BY <1>10, <2>2 DEF Leave, QueueTypeOK
  <2> QED
    BY <1>2, <1>10, <2>1, <2>3 DEF Leave, TypeOK
<1>11. CASE PostElsewhere(w)
  <2>1. QueueTypeOK'
    BY <1>11, EventQueueAssumption DEF PostElsewhere, Post, QueueTypeOK
  <2> QED
    BY <1>2, <1>11, <2>1, UnchangedTypes DEF PostElsewhere, TypeOK
<1> QED
  BY <1>3, <1>4, <1>5, <1>6, <1>7, <1>8, <1>9, <1>10, <1>11 DEF Waiter

LEMMA ManagerType ==
  ASSUME IInv, Manager \/ Irq \/ Tick
  PROVE  TypeOK'
<1>1. TypeOK /\ TimerTypeOK /\ WaiterTypeOK /\ QueueTypeOK /\ ManagerTypeOK
  BY DEF IInv, TypeOK
<1> USE <1>1
<1>2. UNCHANGED <<timerVars, waiterVars>>
        => TimerTypeOK' /\ armer' \in Waiters \cup {"manager", None} /\ WaiterTypeOK'
  BY UnchangedTypes
<1>3. UNCHANGED <<queueVars, waiterVars>> => QueueTypeOK' /\ WaiterTypeOK'
  BY UnchangedTypes
<1>4. CASE ReadNow
  <2>1. ManagerTypeOK'
    BY <1>4, TimeFacts DEF ReadNow, ManagerTypeOK, ManagerLabels
  <2> QED
    BY <1>2, <1>4, <2>1, UnchangedTypes DEF ReadNow, TypeOK
<1>5. CASE LockQueue
  <2>1. ManagerTypeOK' /\ QueueTypeOK'
    BY <1>5 DEF LockQueue, ManagerTypeOK, ManagerLabels, QueueTypeOK
  <2> QED
    BY <1>2, <1>5, <2>1 DEF LockQueue, TypeOK
<1>6. CASE LeaveCheck
  <2>1. mnext' \in Int
    BY <1>6, DelayFacts DEF LeaveCheck
  <2>2. ManagerTypeOK' /\ QueueTypeOK'
    BY <1>6, <2>1 DEF LeaveCheck, ManagerTypeOK, ManagerLabels, QueueTypeOK
  <2> QED
    BY <1>2, <1>6, <2>2 DEF LeaveCheck, TypeOK
<1>7. CASE Expire
  <2>1. mevent' \in Waiters
    BY <1>7, HeadTailProperties DEF Expire, QueueTypeOK
  <2>2. ManagerTypeOK'
    BY <1>7, <2>1 DEF Expire, ManagerTypeOK, ManagerLabels
  <2> QED
    BY <1>2, <1>7, <2>2, UnchangedTypes DEF Expire, TypeOK
<1>8. CASE UnlinkExpired
  <2>1. queue' \in Seq(Waiters)
    BY <1>8, RemoveFirstFacts
       DEF UnlinkExpired, Unlink, QueueTypeOK, IInv, LinkedOnce, Distinct
  <2>2. ManagerTypeOK' /\ QueueTypeOK'
    BY <1>8, <2>1 DEF UnlinkExpired, ManagerTypeOK, ManagerLabels, QueueTypeOK
  <2> QED
    BY <1>2, <1>8, <2>2 DEF UnlinkExpired, TypeOK
<1>9. CASE PostExpired
  <2>1. mevent \in Waiters
    BY <1>9 DEF PostExpired, IInv, PickedInv
  <2>2. ManagerTypeOK' /\ QueueTypeOK'
    BY <1>9, <2>1, EventQueueAssumption
       DEF PostExpired, Post, ManagerTypeOK, ManagerLabels, QueueTypeOK
  <2> QED
    BY <1>2, <1>9, <2>2 DEF PostExpired, TypeOK
<1>10. CASE ManagerSet
  <2>1. ManagerTypeOK'
    BY <1>10 DEF ManagerSet, ManagerTypeOK, ManagerLabels
  <2>2. TimerTypeOK' /\ armer' \in Waiters \cup {"manager", None}
    BY <1>10, DelayFacts, TimerClaimType, UnchangedTypes DEF ManagerSet, TimerSkip
  <2> QED
    BY <1>3, <1>10, <2>1, <2>2 DEF ManagerSet, TypeOK
<1>11. CASE ManagerArm
  <2>1. ManagerTypeOK'
    BY <1>11 DEF ManagerArm, ManagerTypeOK, ManagerLabels
  <2>2. TimerTypeOK' /\ armer' = None
    BY <1>11, DelayFacts, TimerArmType DEF ManagerArm
  <2> QED
    BY <1>3, <1>11, <2>1, <2>2 DEF ManagerArm, TypeOK
<1>12. CASE ManagerTake
  <2>1. ManagerTypeOK'
    BY <1>12 DEF ManagerTake, ManagerTypeOK, ManagerLabels
  <2> QED
    BY <1>3, <1>12, <2>1, TimerEventType DEF ManagerTake, TypeOK
<1>13. CASE Irq \/ Tick
  BY <1>3, <1>13, TimerEventType, UnchangedTypes DEF Irq, Tick, TypeOK
<1> QED
  BY <1>4, <1>5, <1>6, <1>7, <1>8, <1>9, <1>10, <1>11, <1>12, <1>13 DEF Manager

-----------------------------------------------------------------------------
(* Every step keeps the queue's events alive.                              *)

LEMMA QueueIs ==
  ASSUME IInv
  PROVE  /\ queue \in Seq(Waiters) /\ Distinct(queue)
         /\ pc \in [Waiters -> Labels]
         /\ Queued = ToSet(queue) /\ Queued \subseteq Waiters
<1>1. queue \in Seq(Waiters) /\ pc \in [Waiters -> Labels]
  BY DEF IInv, TypeOK, QueueTypeOK, WaiterTypeOK
<1>2. DOMAIN queue = 1 .. Len(queue) /\ \A i \in 1 .. Len(queue) : queue[i] \in Waiters
  BY <1>1, LenProperties, ElementOfSeq
<1>3. Distinct(queue)
  BY DEF IInv, LinkedOnce, Distinct
<1>4. Queued = ToSet(queue)
  BY DEF Queued, ToSet
<1>5. Queued \subseteq Waiters
  BY <1>2, <1>4 DEF ToSet
<1> QED
  BY <1>1, <1>3, <1>4, <1>5

LEMMA WaiterSafe ==
  ASSUME IInv, NEW w \in Waiters, Waiter(w) \/ PostElsewhere(w)
  PROVE  EventsAlive' /\ LinkedOnce' /\ MutexInv' /\ PickedInv'
<1> USE DEF IInv, Goto, managerVars, queueVars
<1>1. /\ queue \in Seq(Waiters) /\ pc \in [Waiters -> Labels]
      /\ Distinct(queue)
      /\ Queued = ToSet(queue) /\ Queued \subseteq Waiters
  BY QueueIs DEF TypeOK
<1>2. CASE Add(w)
  <2>1. w \notin Queued
    BY <1>2 DEF Add, EventsAlive, Alive
  <2>2. Distinct(queue') /\ ToSet(queue') = Queued \cup {w}
    BY <1>1, <1>2, <2>1, AddSortedFacts DEF Add
  <2>3. \A x \in Queued' : Alive(x)'
    BY <1>1, <1>2, <2>2 DEF Add, EventsAlive, Alive, Queued
  <2> QED
    BY <1>1, <1>2, <2>2, <2>3
       DEF Add, EventsAlive, LinkedOnce, Distinct, MutexInv, PickedInv, Queued
<1>3. CASE Leave(w)
  <2>1. mpc \notin {"loop", "unlink", "post"}
    BY <1>3 DEF Leave, MutexInv, None
  <2>2. Distinct(queue') /\ ToSet(queue') = Queued \ {w}
    BY <1>1, <1>3, RemoveFirstFacts DEF Leave, Unlink
  <2>3. \A x \in Queued' : Alive(x)'
    BY <1>1, <1>3, <2>2 DEF Leave, Return, EventsAlive, Alive, Queued
  <2> QED
    BY <1>3, <2>1, <2>2, <2>3
       DEF Leave, EventsAlive, LinkedOnce, Distinct, MutexInv, PickedInv
<1>4. ASSUME queue' = queue, mutex' = mutex, mpc' = mpc, mevent' = mevent,
             \A x \in Queued : Alive(x)'
      PROVE  EventsAlive' /\ LinkedOnce' /\ MutexInv' /\ PickedInv'
  BY <1>4 DEF EventsAlive, LinkedOnce, MutexInv, PickedInv, Queued
<1>5. ASSUME NEW d \in Delays, Wait(w, d)
      PROVE  EventsAlive' /\ LinkedOnce' /\ MutexInv' /\ PickedInv'
  BY <1>1, <1>4, <1>5 DEF Wait, EventsAlive, Alive
<1>6. CASE NoPointWaiting(w) \/ MustWait(w)
  BY <1>1, <1>4, <1>6 DEF NoPointWaiting, Return, MustWait, EventsAlive, Alive
<1>7. CASE Reschedule(w) \/ Arm(w) \/ Block(w)
  BY <1>1, <1>4, <1>7 DEF Reschedule, Arm, Block, EventsAlive, Alive
<1>8. CASE PostElsewhere(w)
  BY <1>1, <1>4, <1>8 DEF PostElsewhere, waiterVars, EventsAlive, Alive
<1> QED
  BY <1>2, <1>3, <1>5, <1>6, <1>7, <1>8 DEF Waiter

LEMMA ManagerSafe ==
  ASSUME IInv, Manager \/ Irq \/ Tick
  PROVE  EventsAlive' /\ LinkedOnce' /\ MutexInv' /\ PickedInv'
<1> USE DEF IInv, waiterVars, queueVars
<1>1. /\ queue \in Seq(Waiters)
      /\ Distinct(queue)
      /\ Queued = ToSet(queue) /\ Queued \subseteq Waiters
  BY DEF TypeOK, QueueTypeOK, LinkedOnce, Distinct, Queued, ToSet
<1>2. pc' = pc
  BY DEF Manager, ReadNow, LockQueue, LeaveCheck, Expire, UnlinkExpired, PostExpired,
         ManagerSet, ManagerArm, ManagerTake, Irq, Tick
<1>3. CASE UnlinkExpired
  <2>1. Distinct(queue') /\ ToSet(queue') = Queued \ {mevent}
    BY <1>1, <1>3, RemoveFirstFacts DEF UnlinkExpired, Unlink
  <2>2. mevent' = mevent /\ mevent \in Waiters
    BY <1>1, <1>3 DEF UnlinkExpired, PickedInv
  <2> QED
    BY <1>1, <1>2, <1>3, <2>1, <2>2
       DEF UnlinkExpired, EventsAlive, Alive, Queued, LinkedOnce, Distinct, MutexInv,
           PickedInv
<1>4. CASE Expire
  <2>1. mevent' \in Queued
    BY <1>1, <1>4, HeadTailProperties, LenProperties DEF Expire, ToSet
  <2> QED
    BY <1>1, <1>2, <1>4, <2>1
       DEF Expire, EventsAlive, Alive, Queued, LinkedOnce, MutexInv, PickedInv
<1>5. ASSUME queue' = queue, mpc' \notin {"unlink", "post"}, MutexInv'
      PROVE  EventsAlive' /\ LinkedOnce' /\ MutexInv' /\ PickedInv'
  BY <1>2, <1>5 DEF EventsAlive, Alive, Queued, LinkedOnce, PickedInv
<1>6. CASE ReadNow \/ LockQueue \/ LeaveCheck \/ PostExpired
  BY <1>5, <1>6 DEF ReadNow, LockQueue, LeaveCheck, PostExpired, MutexInv, None
<1>7. CASE ManagerSet \/ ManagerArm \/ ManagerTake
  BY <1>5, <1>7 DEF ManagerSet, ManagerArm, ManagerTake, MutexInv
<1>8. CASE Irq \/ Tick
  BY <1>2, <1>8
     DEF Irq, Tick, managerVars, EventsAlive, Alive, Queued, LinkedOnce, MutexInv, PickedInv
<1> QED
  BY <1>3, <1>4, <1>6, <1>7, <1>8 DEF Manager

LEMMA StepIInv == IInv /\ [Next]_vars => IInv'
<1> SUFFICES ASSUME IInv, [Next]_vars PROVE IInv'
  OBVIOUS
<1>1. ASSUME NEW w \in Waiters, Waiter(w) \/ PostElsewhere(w) PROVE IInv'
  BY <1>1, WaiterType, WaiterSafe DEF IInv
<1>2. CASE Manager \/ Irq \/ Tick
  BY <1>2, ManagerType, ManagerSafe DEF IInv
<1>3. CASE UNCHANGED vars
  <2>1. TypeOK'
    BY <1>3, UnchangedTypes DEF IInv, vars, TypeOK
  <2> QED
    BY <1>3, <2>1
       DEF IInv, vars, waiterVars, queueVars, managerVars, EventsAlive, Alive, Queued,
           LinkedOnce, MutexInv, PickedInv
<1> QED
  BY <1>1, <1>2, <1>3 DEF Next, Step

-----------------------------------------------------------------------------
(* The order of the list.  Events are compared by counter readings, and    *)
(* sorted by the deadlines those stand for: the readings of two deadlines  *)
(* less than half a turn apart differ, as int32_t, by what the deadlines   *)
(* differ.                                                                 *)

\* A difference of less than half a turn survives the counter's wrap.
LEMMA SignedDifference ==
  ASSUME NEW a \in Int, NEW b \in Int, a - b < Half, b - a < Half
  PROVE  Signed(Unsigned(a) - Unsigned(b)) = a - b
<1> DEFINE d == a - b
<1>1. Modulus \in Nat \ {0} /\ Half \in Int /\ Half + Half <= Modulus
  BY TimerAssumption DEF Half
<1>2. Unsigned(Unsigned(a) - Unsigned(b)) = d % Modulus
  BY <1>1, ReduceFirst DEF Unsigned
<1>3. d \in Int /\ d < Half /\ -d < Half
  OBVIOUS
<1> HIDE DEF d
<1>4. d % Modulus = IF d >= 0 THEN d ELSE d + Modulus
  <2>1. CASE d >= 0
    <3>1. d \in 0 .. Modulus - 1
      BY <1>1, <1>3, <2>1
    <3> QED
      BY <1>1, <2>1, <3>1, WrapFacts
  <2>2. CASE ~(d >= 0)
    <3>1. d \in -Modulus .. -1
      BY <1>1, <1>3, <2>2
    <3> QED
      BY <1>1, <2>2, <3>1, WrapFacts
  <2> QED
    BY <2>1, <2>2
<1>5. (IF d % Modulus < Half THEN d % Modulus ELSE (d % Modulus) - Modulus) = d
  BY <1>1, <1>3, <1>4
<1> QED
  BY <1>2, <1>5 DEF Signed, d

\* time[w] is the counter's reading at the deadline of w.
Meant(w) == due[w] \in 0 .. LastCall /\ time[w] = Unsigned(Start + due[w])

TimesInv ==
  /\ clock \in 0 .. MaxClock
  /\ \A w \in Waiters : pc[w] # "idle" => Meant(w)

LEMMA Bounds ==
  /\ Modulus \in Nat \ {0} /\ Start \in Nat /\ MaxClock \in Nat
  /\ LastCall \in Nat /\ LastCall <= MaxClock /\ MaxClock < Half
  BY TimerAssumption, EventQueueAssumption

LEMMA ClockRuns ==
  ASSUME clock \in 0 .. MaxClock, [Next]_vars
  PROVE  clock' \in 0 .. MaxClock /\ clock' >= clock
<1>1. CASE TimerTick
  BY <1>1, Bounds DEF TimerTick
<1>2. CASE UNCHANGED clock
  BY <1>2
<1>3. TimerTick \/ UNCHANGED clock
  BY DEF Next, Step, Waiter, Manager, Irq, Tick, vars, timerVars, Wait, NoPointWaiting,
         MustWait, Add, Reschedule, Arm, Block, Leave, PostElsewhere, ReadNow, LockQueue,
         LeaveCheck, Expire, UnlinkExpired, PostExpired, ManagerSet, ManagerArm,
         ManagerTake, TimerSkip, TimerClaim, TimerArm, TimerIrq, TimerTake
<1> QED
  BY <1>1, <1>2, <1>3

\* Only wait() sets a deadline, and only a return clears it.
LEMMA DeadlineStep ==
  ASSUME IInv, [Next]_vars
  PROVE  \A w \in Waiters :
           \/ UNCHANGED <<time[w], due[w]>> /\ (pc'[w] # "idle" => pc[w] # "idle")
           \/ pc'[w] = "idle"
           \/ \E d \in Delays : Wait(w, d)
<1> SUFFICES ASSUME NEW w \in Waiters
             PROVE  \/ UNCHANGED <<time[w], due[w]>> /\ (pc'[w] # "idle" => pc[w] # "idle")
                    \/ pc'[w] = "idle"
                    \/ \E d \in Delays : Wait(w, d)
  OBVIOUS
<1>1. /\ pc \in [Waiters -> Labels] /\ time \in [Waiters -> 0 .. Modulus - 1]
      /\ due \in [Waiters -> Nat]
  BY DEF IInv, TypeOK, WaiterTypeOK
<1>2. ASSUME NEW v \in Waiters, NEW d \in Delays, Wait(v, d), v # w
      PROVE  UNCHANGED <<time[w], due[w], pc[w]>>
  BY <1>1, <1>2 DEF Wait, Goto
<1>3. ASSUME NEW v \in Waiters, NoPointWaiting(v) \/ Leave(v)
      PROVE  UNCHANGED <<time[w], due[w], pc[w]>> \/ pc'[w] = "idle"
  BY <1>1, <1>3 DEF NoPointWaiting, Leave, Return, Goto
<1>4. ASSUME NEW v \in Waiters,
             MustWait(v) \/ Add(v) \/ Reschedule(v) \/ Arm(v) \/ Block(v)
      PROVE  UNCHANGED <<time[w], due[w]>> /\ (pc'[w] # "idle" => pc[w] # "idle")
  BY <1>1, <1>4 DEF MustWait, Add, Reschedule, Arm, Block, Goto
<1>5. ASSUME NEW v \in Waiters, PostElsewhere(v)
      PROVE  UNCHANGED <<time[w], due[w], pc[w]>>
  BY <1>5 DEF PostElsewhere, waiterVars
<1>6. Manager \/ Irq \/ Tick \/ UNCHANGED vars => UNCHANGED <<time[w], due[w], pc[w]>>
  BY DEF Manager, ReadNow, LockQueue, LeaveCheck, Expire, UnlinkExpired, PostExpired,
         ManagerSet, ManagerArm, ManagerTake, Irq, Tick, waiterVars, vars
<1> QED
  BY <1>2, <1>3, <1>4, <1>5, <1>6 DEF Next, Step, Waiter

LEMMA TimesStep ==
  ASSUME IInv, TimesInv, [Next]_vars
  PROVE  TimesInv'
<1>1. /\ pc \in [Waiters -> Labels] /\ time \in [Waiters -> 0 .. Modulus - 1]
      /\ due \in [Waiters -> Nat]
  BY DEF IInv, TypeOK, WaiterTypeOK
<1>2. ASSUME NEW w \in Waiters, NEW d \in Delays, Wait(w, d)
      PROVE  Meant(w)'
  <2>1. /\ clock \in Int /\ clock >= 0 /\ d \in Nat /\ clock + d <= LastCall
        /\ due'[w] = clock + d /\ time'[w] = Unsigned(TimerNow + d)
    BY <1>1, <1>2, Bounds, EventQueueAssumption DEF TimesInv, Wait
  <2>2. Unsigned(TimerNow + d) = Unsigned(Start + (clock + d))
    <3>1. Start + clock \in Int /\ d \in Int /\ (Start + clock) + d = Start + (clock + d)
      BY <2>1, Bounds
    <3>2. (((Start + clock) % Modulus) + d) % Modulus = ((Start + clock) + d) % Modulus
      BY <3>1, Bounds, ReduceFirst
    <3> QED
      BY <3>1, <3>2 DEF Unsigned, TimerNow
  <2> QED
    BY <2>1, <2>2, Bounds DEF Meant
<1>3. \A w \in Waiters : pc'[w] # "idle" => Meant(w)'
  <2> SUFFICES ASSUME NEW w \in Waiters, pc'[w] # "idle"
               PROVE  Meant(w)'
    OBVIOUS
  <2>1. CASE UNCHANGED <<time[w], due[w]>> /\ pc[w] # "idle"
    BY <2>1 DEF TimesInv, Meant
  <2>2. CASE \E d \in Delays : Wait(w, d)
    BY <1>2, <2>2
  <2> QED
    BY <2>1, <2>2, DeadlineStep
<1> QED
  BY <1>3, ClockRuns DEF TimesInv

\* The comparison of two events that wait is that of their deadlines.
LEMMA ComparesDeadlines ==
  ASSUME NEW w \in Waiters, NEW x \in Waiters, Meant(w), Meant(x)
  PROVE  /\ timer_cmp(time[w], time[x]) = due[x] - due[w]
         /\ due[x] \in Nat /\ due[w] \in Nat
<1> DEFINE a == Start + due[x]
           b == Start + due[w]
<1>1. /\ a \in Int /\ b \in Int /\ a - b = due[x] - due[w]
      /\ a - b < Half /\ b - a < Half
    <2>1. Half \in Int
      BY TimerAssumption DEF Half
    <2> QED
      BY <2>1, Bounds DEF Meant
<1>2. time[x] = Unsigned(a) /\ time[w] = Unsigned(b)
  BY DEF Meant
<1> HIDE DEF a, b
<1>3. Signed(Unsigned(a) - Unsigned(b)) = a - b
  BY <1>1, SignedDifference
<1>4. timer_cmp(time[w], time[x]) = due[x] - due[w]
  BY <1>1, <1>2, <1>3 DEF timer_cmp
<1> QED
  BY <1>4, Bounds DEF Meant

LEMMA AddSortedSorts ==
  ASSUME NEW q \in Seq(Waiters), NEW w \in Waiters, Meant(w),
         \A x \in ToSet(q) : Meant(x),
         \A i, j \in DOMAIN q : i < j => due[q[i]] <= due[q[j]]
  PROVE  \A i, j \in DOMAIN AddSorted(q, w) :
           i < j => due[AddSorted(q, w)[i]] <= due[AddSorted(q, w)[j]]
<1> DEFINE r == AddSorted(q, w)
           n == Len(q)
<1>1. n \in Nat /\ DOMAIN q = 1 .. n /\ \A i \in 1 .. n : q[i] \in Waiters /\ q[i] \in ToSet(q)
  BY LenProperties, ElementOfSeq DEF ToSet
<1>2. PICK at \in 1 .. n + 1 :
        /\ r = InsertAt(q, at, w)
        /\ \A i \in 1 .. at - 1 : ~(timer_cmp(time[w], time[q[i]]) >= 0)
        /\ at <= n => timer_cmp(time[w], time[q[at]]) >= 0
  BY AddSortedPlace
<1>3. /\ r \in Seq(Waiters) /\ Len(r) = n + 1
      /\ \A j \in 1 .. n + 1 : r[j] = IF j < at THEN q[j] ELSE IF j = at THEN w ELSE q[j - 1]
  <2> DEFINE t == InsertAt(q, at, w)
  <2>1. /\ t \in Seq(Waiters) /\ Len(t) = n + 1
        /\ \A j \in 1 .. n + 1 : t[j] = IF j < at THEN q[j] ELSE IF j = at THEN w ELSE q[j - 1]
    BY InsertAtFacts
  <2>2. r = t
    BY <1>2
  <2> HIDE DEF t, r
  <2> QED
    BY <2>1, <2>2
<1>4. DOMAIN r = 1 .. n + 1
  BY <1>1, <1>3, LenProperties
<1>5. /\ \A i \in 1 .. n : due[q[i]] \in Nat /\ due[w] \in Nat
      /\ \A i \in 1 .. n : timer_cmp(time[w], time[q[i]]) = due[q[i]] - due[w]
  BY <1>1, ComparesDeadlines
<1>6. /\ \A i \in 1 .. at - 1 : due[q[i]] <= due[w]
      /\ \A i \in at .. n : due[w] <= due[q[i]]
  <2>1. \A i \in 1 .. at - 1 : due[q[i]] <= due[w]
    BY <1>1, <1>2, <1>5
  <2>2. at <= n => due[w] <= due[q[at]]
    BY <1>1, <1>2, <1>5
  <2>3. \A i \in at .. n : at < i => due[q[at]] <= due[q[i]]
    BY <1>1
  <2> QED
    BY <1>1, <1>5, <2>1, <2>2, <2>3
<1> HIDE DEF r, n
<1> SUFFICES ASSUME NEW i \in 1 .. n + 1, NEW j \in 1 .. n + 1, i < j
             PROVE  due[r[i]] <= due[r[j]]
  BY <1>4 DEF r
<1>7. CASE i = at
  <2>1. j - 1 \in at .. n /\ r[j] = q[j - 1] /\ r[i] = w
    BY <1>1, <1>3, <1>7
  <2> QED
    BY <1>6, <2>1
<1>8. CASE j = at
  <2>1. i \in 1 .. at - 1 /\ r[i] = q[i] /\ r[j] = w
    BY <1>1, <1>3, <1>8
  <2> QED
    BY <1>6, <2>1
<1>9. CASE i # at /\ j # at
  <2>1. PICK k \in 1 .. n, l \in 1 .. n : k < l /\ r[i] = q[k] /\ r[j] = q[l]
    <3>1. /\ (IF i < at THEN i ELSE i - 1) \in 1 .. n
          /\ (IF j < at THEN j ELSE j - 1) \in 1 .. n
          /\ (IF i < at THEN i ELSE i - 1) < (IF j < at THEN j ELSE j - 1)
      BY <1>1, <1>9
    <3> QED
      BY <1>3, <1>9, <3>1
  <2> QED
    BY <1>1, <2>1
<1> QED
  BY <1>7, <1>8, <1>9

\* An event that is out of the list cannot be there while its deadline changes.
LEMMA OrderStep ==
  ASSUME IInv, TimesInv, SoonestFirst, [Next]_vars
  PROVE  SoonestFirst'
<1>1. /\ queue \in Seq(Waiters) /\ Distinct(queue)
      /\ pc \in [Waiters -> Labels] /\ due \in [Waiters -> Nat]
      /\ \A x \in ToSet(queue) : x \in Waiters /\ Alive(x) /\ Meant(x)
  <2>1. queue \in Seq(Waiters) /\ Distinct(queue) /\ pc \in [Waiters -> Labels] /\ due \in [Waiters -> Nat]
    BY DEF IInv, TypeOK, QueueTypeOK, WaiterTypeOK, LinkedOnce, Distinct
  <2>2. \A x \in ToSet(queue) : x \in Waiters /\ Alive(x)
    BY <2>1 DEF IInv, EventsAlive, Queued, ToSet
  <2> QED
    BY <2>1, <2>2 DEF TimesInv, Alive
<1>2. ASSUME NEW w \in Waiters, Add(w)
      PROVE  SoonestFirst'
  <2>1. due' = due /\ queue' = AddSorted(queue, w) /\ Meant(w)
    BY <1>2 DEF Add, TimesInv
  <2>2. \A i, j \in DOMAIN queue : i < j => due[queue[i]] <= due[queue[j]]
    BY DEF SoonestFirst
  <2>3. \A i, j \in DOMAIN AddSorted(queue, w) :
          i < j => due[AddSorted(queue, w)[i]] <= due[AddSorted(queue, w)[j]]
    BY <1>1, <2>1, <2>2, AddSortedSorts
  <2> QED
    BY <2>1, <2>3 DEF SoonestFirst
<1>3. ASSUME NEW w, queue' = Unlink(queue, w),
             \A x \in Queued : x # w => due'[x] = due[x]
      PROVE  SoonestFirst'
  <2>1. /\ ToSet(queue') = Queued \ {w}
        /\ \A i, j \in DOMAIN queue' : i < j =>
             \E k, l \in DOMAIN queue : k < l /\ queue'[i] = queue[k] /\ queue'[j] = queue[l]
    BY <1>1, <1>3, RemoveFirstFacts DEF Unlink, Queued
  <2>2. \A i \in DOMAIN queue' : queue'[i] \in Queued \ {w}
    <3>1. \A i \in DOMAIN queue' : queue'[i] \in ToSet(queue')
      BY DEF ToSet
    <3> QED
      BY <2>1, <3>1
  <2> QED
    BY <1>3, <2>1, <2>2 DEF SoonestFirst
<1>4. ASSUME queue' = queue, \A x \in Queued : due'[x] = due[x]
      PROVE  SoonestFirst'
  <2>1. \A i \in DOMAIN queue : queue[i] \in Queued
    BY DEF Queued, ToSet
  <2> QED
    BY <1>4, <2>1 DEF SoonestFirst
<1>5. ASSUME NEW w \in Waiters, Leave(w)
      PROVE  SoonestFirst'
  BY <1>1, <1>3, <1>5 DEF Leave, Return, Queued
<1>6. CASE UnlinkExpired
  BY <1>3, <1>6 DEF UnlinkExpired, waiterVars
<1>7. ASSUME NEW w \in Waiters,
             \/ \E d \in Delays : Wait(w, d)
             \/ NoPointWaiting(w)
      PROVE  SoonestFirst'
  <2>1. w \notin Queued
    BY <1>1, <1>7 DEF Wait, NoPointWaiting, Alive, Queued
  <2>2. queue' = queue /\ \A x \in Queued : due'[x] = due[x]
    BY <1>1, <1>7, <2>1 DEF Wait, NoPointWaiting, Return, queueVars, Queued
  <2> QED
    BY <1>4, <2>2
<1>8. ASSUME NEW w \in Waiters,
             MustWait(w) \/ Reschedule(w) \/ Arm(w) \/ Block(w) \/ PostElsewhere(w)
      PROVE  SoonestFirst'
  BY <1>4, <1>8
     DEF MustWait, Reschedule, Arm, Block, PostElsewhere, queueVars, waiterVars
<1>9. CASE ReadNow \/ LockQueue \/ LeaveCheck \/ Expire \/ PostExpired
  BY <1>4, <1>9 DEF ReadNow, LockQueue, LeaveCheck, Expire, PostExpired, queueVars, waiterVars
<1>10. CASE \/ ManagerSet \/ ManagerArm \/ ManagerTake
            \/ Irq \/ Tick \/ UNCHANGED vars
  BY <1>4, <1>10
     DEF ManagerSet, ManagerArm, ManagerTake, Irq, Tick, vars, queueVars, waiterVars
<1> QED
  BY <1>2, <1>5, <1>6, <1>7, <1>8, <1>9, <1>10 DEF Next, Step, Waiter, Manager

-----------------------------------------------------------------------------
(* Waking.  check() compares with a reading of the counter that it took    *)
(* before it had the mutex (ReadInv); as long as nobody else posts, what a *)
(* semaphore counts is the one post of the manager, made past the deadline *)
(* and after the event was unlinked (PostedInv).                           *)

ReadInv ==
  /\ mpc \in {"lock", "loop", "unlink", "post"} =>
       \E c \in 0 .. clock : mnow = Unsigned(Start + c)
  /\ mpc = "unlink" => due[mevent] <= clock

Blocking(w) == pc[w] \in {"reschedule", "arm", "block"}
Expired(w) == Blocking(w) /\ w \notin Queued /\ due[w] <= clock

PostedInv ==
  posts = 0 =>
    /\ \A w \in Waiters : sem[w] > 0 => sem[w] = 1 /\ Expired(w)
    /\ \A w \in Waiters : pc[w] = "remove" => w \notin Queued
    /\ mpc = "post" => sem[mevent] = 0 /\ Expired(mevent)

LEMMA DeadlineKept ==
  ASSUME IInv, [Next]_vars, NEW w \in Waiters, pc'[w] \notin {"idle", "absolute"}
  PROVE  due'[w] = due[w]
<1>1. ASSUME NEW d \in Delays, Wait(w, d)
      PROVE  FALSE
  BY <1>1 DEF Wait, Goto, IInv, TypeOK, WaiterTypeOK
<1> QED
  BY <1>1, DeadlineStep

\* How far an earlier reading of the clock is from the head's deadline.
LEMMA UntilHeadFacts ==
  ASSUME IInv, TimesInv, queue # <<>>, NEW c \in 0 .. clock, mnow = Unsigned(Start + c)
  PROVE  /\ Head(queue) \in Waiters /\ Head(queue) \in Queued
         /\ UntilHead = due[Head(queue)] - c
<1> DEFINE h == Head(queue)
<1>1. h \in Waiters /\ h \in Queued
  BY HeadTailProperties, LenProperties DEF IInv, TypeOK, QueueTypeOK, Queued, ToSet
<1>2. Meant(h)
  BY <1>1 DEF IInv, EventsAlive, Alive, TimesInv
<1> HIDE DEF h
<1> DEFINE a == Start + due[h]
           b == Start + c
<1>3. a \in Int /\ b \in Int /\ a - b = due[h] - c /\ a - b < Half /\ b - a < Half
  <2>1. Half \in Int
    BY TimerAssumption DEF Half
  <2> QED
    BY <1>2, <2>1, Bounds DEF Meant, TimesInv
<1>4. time[h] = Unsigned(a) /\ mnow = Unsigned(b)
  BY <1>2 DEF Meant
<1> HIDE DEF a, b
<1>5. Signed(Unsigned(a) - Unsigned(b)) = a - b
  BY <1>3, SignedDifference
<1>6. UntilHead = due[h] - c
  BY <1>3, <1>4, <1>5 DEF UntilHead, timer_cmp, h
<1> QED
  BY <1>1, <1>6 DEF h

LEMMA ReadStep ==
  ASSUME IInv, IInv', TimesInv, ReadInv, [Next]_vars
  PROVE  ReadInv'
<1>1. clock \in Nat /\ clock' \in Nat /\ clock' >= clock
  BY ClockRuns, Bounds DEF TimesInv
<1>2. CASE mpc' = mpc /\ mnow' = mnow /\ mevent' = mevent
  <2>1. ASSUME mpc' = "unlink" PROVE due'[mevent'] <= clock'
    <3>1. PICK m \in Waiters : m = mevent /\ m = mevent' /\ Alive(m)'
      <4>1. mevent' \in Queued' /\ (\A w \in Queued' : Alive(w)')
        BY <2>1 DEF IInv, EventsAlive
      <4>2. Queued' \subseteq Waiters
        BY DEF IInv, Queued, ToSet, TypeOK, QueueTypeOK
      <4> QED
        BY <1>2, <4>1, <4>2
    <3>2. due'[m] = due[m] /\ due[m] \in Nat
      BY <3>1, DeadlineKept DEF Alive, IInv, TypeOK, WaiterTypeOK
    <3>3. due[m] <= clock
      BY <1>2, <2>1, <3>1 DEF ReadInv
    <3> QED
      BY <1>1, <3>1, <3>2, <3>3
  <2>2. \A c \in 0 .. clock : c \in 0 .. clock'
    BY <1>1
  <2> QED
    BY <1>2, <2>1, <2>2 DEF ReadInv
<1>3. CASE ReadNow
  <2>1. mnow' = Unsigned(Start + clock) /\ clock \in 0 .. clock' /\ mpc' = "lock"
    BY <1>1, <1>3 DEF ReadNow, TimerNow
  <2> QED
    BY <2>1 DEF ReadInv
<1>4. CASE Expire
  <2>0. PICK c \in 0 .. clock : mnow = Unsigned(Start + c)
    BY <1>4 DEF Expire, ReadInv
  <2>1. UntilHead = due[Head(queue)] - c /\ Head(queue) \in Waiters
    BY <1>4, <2>0, UntilHeadFacts DEF Expire
  <2>2. due[Head(queue)] \in Nat
    BY <2>1 DEF IInv, TypeOK, WaiterTypeOK
  <2>3. due[Head(queue)] <= clock
    BY <1>1, <1>4, <2>1, <2>2 DEF Expire
  <2>4. mpc' = "unlink" /\ mevent' = Head(queue) /\ UNCHANGED <<clock, mnow, due>> /\ mpc = "loop"
    BY <1>4 DEF Expire, timerVars, waiterVars
  <2> QED
    BY <2>3, <2>4 DEF ReadInv
<1>5. CASE LockQueue \/ UnlinkExpired \/ PostExpired
  <2>1. UNCHANGED <<clock, mnow>> /\ mpc' \in {"loop", "post"} /\ mpc \in {"lock", "unlink", "post"}
    BY <1>5 DEF LockQueue, UnlinkExpired, PostExpired, timerVars
  <2> QED
    BY <2>1 DEF ReadInv
<1>6. CASE LeaveCheck \/ ManagerSet \/ ManagerArm \/ ManagerTake
  <2>1. mpc' \in {"set", "take", "arm", "check"}
    BY <1>6 DEF LeaveCheck, ManagerSet, ManagerArm, ManagerTake
  <2> QED
    BY <2>1 DEF ReadInv
<1>7. CASE (\E w \in Waiters : Waiter(w) \/ PostElsewhere(w)) \/ Irq \/ Tick \/ UNCHANGED vars
  BY <1>2, <1>7
     DEF Waiter, Wait, NoPointWaiting, MustWait, Add, Reschedule, Arm, Block, Leave,
         PostElsewhere, Irq, Tick, vars, managerVars
<1> QED
  BY <1>3, <1>4, <1>5, <1>6, <1>7 DEF Next, Step, Manager

LEMMA PostedStep ==
  ASSUME IInv, IInv', TimesInv, ReadInv, PostedInv, [Next]_vars
  PROVE  PostedInv'
<1>1. clock \in Nat /\ clock' \in Nat /\ clock' >= clock
  BY ClockRuns, Bounds DEF TimesInv
<1>2. /\ queue \in Seq(Waiters) /\ Distinct(queue)
      /\ pc \in [Waiters -> Labels] /\ due \in [Waiters -> Nat]
      /\ sem \in [Waiters -> 0 .. SemMax] /\ posts \in Nat /\ Queued \subseteq Waiters
  BY QueueIs DEF IInv, TypeOK, QueueTypeOK, WaiterTypeOK
<1>3. posts' = 0 => posts = 0 /\ ~\E w \in Waiters : PostElsewhere(w)
  <2>1. ASSUME NEW w \in Waiters, PostElsewhere(w) PROVE posts' = posts + 1
    BY <2>1 DEF PostElsewhere
  <2>2. (\E w \in Waiters : PostElsewhere(w)) \/ posts' = posts
    BY DEF Next, Step, Waiter, Manager, Irq, Tick, vars, queueVars, Wait, NoPointWaiting,
           MustWait, Add, Reschedule, Arm, Block, Leave, ReadNow, LockQueue, LeaveCheck,
           Expire, UnlinkExpired, PostExpired, ManagerSet, ManagerArm, ManagerTake
  <2> QED
    BY <1>2, <2>1, <2>2
<1> SUFFICES ASSUME posts' = 0
             PROVE  /\ \A w \in Waiters : sem'[w] > 0 => sem'[w] = 1 /\ Expired(w)'
                    /\ \A w \in Waiters : pc'[w] = "remove" => w \notin Queued'
                    /\ mpc' = "post" => sem'[mevent'] = 0 /\ Expired(mevent)'
  BY DEF PostedInv
<1>4. /\ \A w \in Waiters : sem[w] > 0 => sem[w] = 1 /\ Expired(w)
      /\ \A w \in Waiters : pc[w] = "remove" => w \notin Queued
      /\ mpc = "post" => sem[mevent] = 0 /\ Expired(mevent) /\ mevent \in Waiters
  BY <1>3 DEF PostedInv, IInv, PickedInv
\* What was expired, and stays out of the list and on its way, is still expired.
<1>5. ASSUME NEW w \in Waiters, Expired(w), pc'[w] = pc[w] \/ Blocking(w)', w \notin Queued'
      PROVE  Expired(w)'
  <2>1. Blocking(w)' /\ due'[w] = due[w]
    BY <1>5, DeadlineKept DEF Expired, Blocking
  <2> QED
    BY <1>1, <1>2, <1>5, <2>1 DEF Expired
<1>6. ASSUME queue' = queue, sem' = sem, mpc' = "post" => mpc = "post" /\ mevent' = mevent,
             \A x \in Waiters :
               \/ pc'[x] = pc[x]
               \/ Blocking(x) /\ Blocking(x)'
               \/ ~Blocking(x) /\ pc'[x] # "remove"
      PROVE  /\ \A x \in Waiters : sem'[x] > 0 => sem'[x] = 1 /\ Expired(x)'
             /\ \A x \in Waiters : pc'[x] = "remove" => x \notin Queued'
             /\ mpc' = "post" => sem'[mevent'] = 0 /\ Expired(mevent)'
  <2>1. Queued' = Queued
    BY <1>6 DEF Queued
  <2>2. ASSUME NEW x \in Waiters, Expired(x) PROVE Expired(x)'
    <3>1. pc'[x] = pc[x] \/ Blocking(x)'
      BY <1>6, <2>2 DEF Expired
    <3>2. x \notin Queued'
      BY <2>1, <2>2 DEF Expired
    <3> QED
      BY <1>5, <2>2, <3>1, <3>2
  <2>3. \A x \in Waiters : pc'[x] = "remove" => x \notin Queued'
    <3>1. \A x \in Waiters : pc'[x] = "remove" => pc[x] = "remove"
      BY <1>6 DEF Blocking
    <3> QED
      BY <1>4, <2>1, <3>1
  <2>4. \A x \in Waiters : sem'[x] > 0 => sem'[x] = 1 /\ Expired(x)'
    BY <1>4, <1>6, <2>2
  <2>5. mpc' = "post" => sem'[mevent'] = 0 /\ Expired(mevent)'
    <3> SUFFICES ASSUME mpc' = "post" PROVE sem'[mevent'] = 0 /\ Expired(mevent)'
      OBVIOUS
    <3>1. PICK m \in Waiters : m = mevent /\ m = mevent'
      BY <1>4, <1>6
    <3>2. sem[m] = 0 /\ Expired(m)
      BY <1>4, <1>6, <3>1 DEF Expired, Blocking
    <3>3. Expired(m)'
      BY <2>2, <3>2
    <3> QED
      BY <1>6, <3>1, <3>2, <3>3 DEF Expired, Blocking
  <2> QED
    BY <2>3, <2>4, <2>5
<1> DEFINE Goal == /\ \A w \in Waiters : sem'[w] > 0 => sem'[w] = 1 /\ Expired(w)'
                   /\ \A w \in Waiters : pc'[w] = "remove" => w \notin Queued'
                   /\ mpc' = "post" => sem'[mevent'] = 0 /\ Expired(mevent)'
<1>7. ASSUME NEW w \in Waiters,
             \/ \E d \in Delays : Wait(w, d)
             \/ NoPointWaiting(w) \/ MustWait(w) \/ Reschedule(w) \/ Arm(w)
      PROVE  Goal
  <2>1. queue' = queue /\ sem' = sem /\ mpc' = mpc /\ mevent' = mevent
    BY <1>7 DEF Wait, NoPointWaiting, MustWait, Reschedule, Arm, queueVars, managerVars
  <2>2. \A x \in Waiters : \/ pc'[x] = pc[x]
                           \/ Blocking(x) /\ Blocking(x)'
                           \/ ~Blocking(x) /\ pc'[x] # "remove"
    BY <1>2, <1>7
       DEF Wait, NoPointWaiting, Return, MustWait, Reschedule, Arm, Goto, Blocking
  <2> QED
    BY <1>6, <2>1, <2>2
<1>8. CASE \/ ReadNow \/ LockQueue \/ LeaveCheck \/ Expire \/ ManagerSet \/ ManagerArm
           \/ ManagerTake \/ Irq \/ Tick \/ UNCHANGED vars
  <2>1. queue' = queue /\ sem' = sem /\ pc' = pc /\ (mpc' = "post" => mpc = "post" /\ mevent' = mevent)
    BY <1>8
       DEF ReadNow, LockQueue, LeaveCheck, Expire, ManagerSet, ManagerArm, ManagerTake,
           Irq, Tick, vars, queueVars, waiterVars, managerVars
  <2> QED
    BY <1>6, <2>1
<1>9. ASSUME NEW w \in Waiters, Add(w)
      PROVE  Goal
  <2>1. /\ sem' = sem /\ mpc' = mpc /\ mevent' = mevent /\ pc[w] = "add"
        /\ pc' = [pc EXCEPT ![w] = pc'[w]] /\ pc'[w] \in {"reschedule", "block"}
    BY <1>2, <1>9 DEF Add, Goto, managerVars
  <2>2. Queued' = Queued \cup {w}
    BY <1>2, <1>9, AddSortedFacts DEF Add, Queued, IInv, EventsAlive, Alive
  <2>3. ASSUME NEW x \in Waiters, Expired(x) PROVE Expired(x)' /\ x # w
    <3>1. x # w /\ pc'[x] = pc[x] /\ x \notin Queued'
      BY <1>2, <2>1, <2>2, <2>3 DEF Expired, Blocking
    <3> QED
      BY <1>5, <2>3, <3>1
  <2>4. \A x \in Waiters : pc'[x] = "remove" => x \notin Queued'
    BY <1>2, <1>4, <2>1, <2>2
  <2>5. \A x \in Waiters : sem'[x] > 0 => sem'[x] = 1 /\ Expired(x)'
    BY <1>4, <2>1, <2>3
  <2>6. mpc' = "post" => sem'[mevent'] = 0 /\ Expired(mevent)'
    <3> SUFFICES ASSUME mpc' = "post" PROVE sem'[mevent'] = 0 /\ Expired(mevent)'
      OBVIOUS
    <3>1. PICK m \in Waiters : m = mevent /\ m = mevent'
      BY <1>4, <2>1
    <3>2. sem[m] = 0 /\ Expired(m)
      BY <1>4, <2>1, <3>1 DEF Expired, Blocking
    <3>3. Expired(m)'
      BY <2>3, <3>2
    <3> QED
      BY <2>1, <3>1, <3>2, <3>3 DEF Expired, Blocking
  <2> QED
    BY <2>4, <2>5, <2>6
<1>10. ASSUME NEW w \in Waiters, Block(w)
       PROVE  Goal
  <2>1. /\ sem[w] = 1 /\ Expired(w)
        /\ sem' = [sem EXCEPT ![w] = 0] /\ pc' = [pc EXCEPT ![w] = "remove"]
        /\ mpc' = mpc /\ mevent' = mevent /\ Queued' = Queued
    <3>1. sem[w] > 0 /\ sem' = [sem EXCEPT ![w] = sem[w] - 1] /\ pc' = [pc EXCEPT ![w] = "remove"]
      BY <1>10 DEF Block, Goto
    <3>2. sem[w] = 1 /\ Expired(w)
      BY <1>4, <3>1
    <3>3. mpc' = mpc /\ mevent' = mevent /\ Queued' = Queued
      BY <1>10 DEF Block, managerVars, Queued
    <3> QED
      BY <3>1, <3>2, <3>3
  <2>2. ASSUME NEW x \in Waiters, x # w, Expired(x) PROVE Expired(x)'
    <3>1. pc'[x] = pc[x] /\ x \notin Queued'
      BY <1>2, <2>1, <2>2 DEF Expired
    <3> QED
      BY <1>5, <2>2, <3>1
  <2>3. \A x \in Waiters : pc'[x] = "remove" => x \notin Queued'
    BY <1>2, <1>4, <2>1 DEF Expired
  <2>4. \A x \in Waiters : sem'[x] > 0 => sem'[x] = 1 /\ Expired(x)'
    <3>1. \A x \in Waiters : sem'[x] > 0 => x # w /\ sem'[x] = sem[x]
      BY <1>2, <2>1
    <3> QED
      BY <1>4, <2>2, <3>1
  <2>5. mpc' = "post" => sem'[mevent'] = 0 /\ Expired(mevent)'
    <3> SUFFICES ASSUME mpc' = "post" PROVE sem'[mevent'] = 0 /\ Expired(mevent)'
      OBVIOUS
    <3>1. PICK m \in Waiters : m = mevent /\ m = mevent'
      BY <1>4, <2>1
    <3>2. sem[m] = 0 /\ Expired(m) /\ m # w
      BY <1>4, <2>1, <3>1 DEF Expired, Blocking
    <3>3. Expired(m)' /\ sem'[m] = 0
      BY <1>2, <2>1, <2>2, <3>2
    <3> QED
      BY <3>1, <3>3 DEF Expired, Blocking
  <2> QED
    BY <2>3, <2>4, <2>5
<1>11. ASSUME NEW w \in Waiters, Leave(w)
       PROVE  Goal
  <2>1. /\ pc[w] = "remove" /\ sem' = sem /\ pc' = [pc EXCEPT ![w] = "idle"]
        /\ mpc' = mpc /\ mevent' = mevent /\ Queued' = Queued \ {w}
    BY <1>2, <1>11, RemoveFirstFacts DEF Leave, Return, Goto, Unlink, managerVars, Queued
  <2>2. ASSUME NEW x \in Waiters, Expired(x) PROVE Expired(x)'
    <3>1. pc'[x] = pc[x] /\ x \notin Queued'
      BY <1>2, <2>1, <2>2 DEF Expired, Blocking
    <3> QED
      BY <1>5, <2>2, <3>1
  <2>3. \A x \in Waiters : pc'[x] = "remove" => x \notin Queued'
    BY <1>2, <1>4, <2>1
  <2>4. \A x \in Waiters : sem'[x] > 0 => sem'[x] = 1 /\ Expired(x)'
    BY <1>4, <2>1, <2>2
  <2>5. mpc' = "post" => sem'[mevent'] = 0 /\ Expired(mevent)'
    <3> SUFFICES ASSUME mpc' = "post" PROVE sem'[mevent'] = 0 /\ Expired(mevent)'
      OBVIOUS
    <3>1. PICK m \in Waiters : m = mevent /\ m = mevent'
      BY <1>4, <2>1
    <3>2. sem[m] = 0 /\ Expired(m)
      BY <1>4, <2>1, <3>1 DEF Expired, Blocking
    <3>3. Expired(m)'
      BY <2>2, <3>2
    <3> QED
      BY <2>1, <3>1, <3>2, <3>3 DEF Expired, Blocking
  <2> QED
    BY <2>3, <2>4, <2>5
<1>12. CASE UnlinkExpired
  <2>1. PICK m \in Waiters : m = mevent /\ m = mevent' /\ m \in Queued
    BY <1>2, <1>12 DEF UnlinkExpired, IInv, PickedInv
  <2>2. /\ mpc' = "post" /\ sem' = sem /\ pc' = pc /\ due' = due /\ clock' = clock
        /\ Queued' = Queued \ {m}
    BY <1>2, <1>12, <2>1, RemoveFirstFacts
       DEF UnlinkExpired, Unlink, Queued, waiterVars, timerVars
  <2>3. ASSUME NEW x \in Waiters, Expired(x) PROVE Expired(x)'
    <3>1. pc'[x] = pc[x] /\ x \notin Queued'
      BY <2>2, <2>3 DEF Expired
    <3> QED
      BY <1>5, <2>3, <3>1
  <2>4. sem[m] = 0
    <3>1. ~(sem[m] > 0)
      BY <1>4, <2>1 DEF Expired
    <3>2. sem[m] \in Nat
      BY <1>2, EventQueueAssumption
    <3> QED
      BY <3>1, <3>2
  <2>5. Expired(m)'
    <3>1. Blocking(m)
      <4>1. Alive(m) /\ pc[m] # "remove"
        BY <1>4, <2>1 DEF IInv, EventsAlive
      <4> QED
        BY <4>1 DEF Alive, Blocking
    <3>2. due[m] <= clock
      BY <1>12, <2>1 DEF UnlinkExpired, ReadInv
    <3> QED
      BY <2>2, <3>1, <3>2 DEF Expired, Blocking
  <2>6. \A x \in Waiters : pc'[x] = "remove" => x \notin Queued'
    BY <1>4, <2>2
  <2>7. \A x \in Waiters : sem'[x] > 0 => sem'[x] = 1 /\ Expired(x)'
    BY <1>4, <2>2, <2>3
  <2>8. sem'[mevent'] = 0 /\ Expired(mevent)'
    BY <2>1, <2>2, <2>4, <2>5 DEF Expired, Blocking
  <2> QED
    BY <2>6, <2>7, <2>8
<1>13. CASE PostExpired
  <2>1. PICK m \in Waiters : m = mevent /\ sem[m] = 0 /\ Expired(m)
    <3>1. mevent \in Waiters /\ sem[mevent] = 0 /\ Expired(mevent)
      BY <1>4, <1>13 DEF PostExpired
    <3> QED
      BY <3>1
  <2>2. /\ mpc' = "loop" /\ pc' = pc /\ Queued' = Queued
        /\ sem' = [sem EXCEPT ![m] = IF sem[m] < SemMax THEN sem[m] + 1 ELSE sem[m]]
    BY <1>13, <2>1 DEF PostExpired, Post, waiterVars, Queued
  <2>3. \A x \in Waiters : sem'[x] = IF x = m THEN 1 ELSE sem[x]
    BY <1>2, <2>1, <2>2, EventQueueAssumption
  <2>4. ASSUME NEW x \in Waiters, Expired(x) PROVE Expired(x)'
    <3>1. pc'[x] = pc[x] /\ x \notin Queued'
      BY <2>2, <2>4 DEF Expired
    <3> QED
      BY <1>5, <2>4, <3>1
  <2>5. \A x \in Waiters : sem'[x] > 0 => sem'[x] = 1 /\ Expired(x)'
    BY <1>4, <2>1, <2>3, <2>4
  <2>6. \A x \in Waiters : pc'[x] = "remove" => x \notin Queued'
    BY <1>4, <2>2
  <2> QED
    BY <2>2, <2>5, <2>6
<1> QED
  BY <1>3, <1>7, <1>8, <1>9, <1>10, <1>11, <1>12, <1>13 DEF Next, Step, Waiter, Manager

-----------------------------------------------------------------------------
(* The timer.  Whoever has claimed timer_mutex has told last_dt the delay  *)
(* it is about to arm, and a timer whose last_dt is set runs with that     *)
(* delay; only an interrupt, which clears last_dt, comes in between.       *)

ArmInv ==
  /\ \A w \in Waiters : armer = w <=> pc[w] = "arm"
  /\ armer = "manager" <=> mpc = "arm"
  /\ \A w \in Waiters : armer = w => last_dt \in {0, Clip(RescheduleDelay(w))}
  /\ armer = "manager" => last_dt \in {0, Clip(ManagerDelay)}
  /\ armer = None /\ last_dt > 0 => reload = last_dt /\ remain <= last_dt

LEMMA ClipFacts ==
  ASSUME NEW dt \in Int
  PROVE  /\ Clip(dt) \in Int /\ Clip(dt) <= dt
         /\ Clip(dt) > 0 => Clip(dt) % (MaxReload + 1) = Clip(dt)
<1>1. Clip(dt) \in Int /\ Clip(dt) <= dt /\ Clip(dt) <= MaxReload /\ MaxReload \in Nat
  BY TimerAssumption DEF Clip
<1> DEFINE c == Clip(dt)
<1>2. ASSUME c > 0 PROVE c % (MaxReload + 1) = c
  <2>1. MaxReload + 1 \in Nat \ {0} /\ c \in 0 .. (MaxReload + 1) - 1
    BY <1>1, <1>2
  <2> HIDE DEF c
  <2> QED
    BY <2>1, WrapFacts
<1> QED
  BY <1>1, <1>2

\* The delay a caller of timer_set() asks for does not change during the call.
LEMMA DelayKept ==
  ASSUME IInv, [Next]_vars
  PROVE  /\ \A w \in Waiters : pc'[w] = "arm" => RescheduleDelay(w)' = RescheduleDelay(w)
         /\ mpc' = "arm" => ManagerDelay' = ManagerDelay
<1>1. /\ pc \in [Waiters -> Labels] /\ time \in [Waiters -> 0 .. Modulus - 1]
      /\ seen \in [Waiters -> 0 .. Modulus - 1]
  BY DEF IInv, TypeOK, WaiterTypeOK
<1>2. ASSUME NEW w \in Waiters, pc'[w] = "arm"
      PROVE  time'[w] = time[w] /\ seen'[w] = seen[w]
  <2>1. ASSUME NEW v \in Waiters, Waiter(v) \/ PostElsewhere(v)
        PROVE  time'[w] = time[w] /\ seen'[w] = seen[w]
    <3>1. CASE PostElsewhere(v)
      BY <3>1 DEF PostElsewhere, waiterVars
    <3>2. CASE (\E d \in Delays : Wait(v, d)) \/ NoPointWaiting(v) \/ Leave(v) \/ MustWait(v)
      BY <1>1, <1>2, <3>2 DEF Wait, NoPointWaiting, Leave, MustWait, Return, Goto
    <3>3. CASE Add(v) \/ Reschedule(v) \/ Arm(v) \/ Block(v)
      BY <3>3 DEF Add, Reschedule, Arm, Block
    <3> QED
      BY <2>1, <3>1, <3>2, <3>3 DEF Waiter
  <2>2. Manager \/ Irq \/ Tick \/ UNCHANGED vars => UNCHANGED <<time, seen>>
    BY DEF Manager, ReadNow, LockQueue, LeaveCheck, Expire, UnlinkExpired, PostExpired,
           ManagerSet, ManagerArm, ManagerTake, Irq, Tick, waiterVars, vars
  <2> QED
    BY <2>1, <2>2 DEF Next, Step
<1>3. mpc' = "arm" => mnext' = mnext
  BY DEF Next, Step, Waiter, Manager, Irq, Tick, vars, managerVars, Wait, NoPointWaiting,
         MustWait, Add, Reschedule, Arm, Block, Leave, PostElsewhere, ReadNow, LockQueue,
         LeaveCheck, Expire, UnlinkExpired, PostExpired, ManagerSet, ManagerArm, ManagerTake
<1> QED
  BY <1>2, <1>3 DEF RescheduleDelay, ManagerDelay

\* An armed timer that ticks fires within last_dt.
LEMMA RemainStep ==
  ASSUME TimerTypeOK, TimerTick, last_dt > 0, reload = last_dt, remain <= last_dt
  PROVE  reload' = last_dt' /\ remain' <= last_dt'
  BY DEF TimerTypeOK, TimerTick

LEMMA ArmStep ==
  ASSUME IInv, ArmInv, [Next]_vars
  PROVE  ArmInv'
<1>1. /\ TimerTypeOK /\ pc \in [Waiters -> Labels]
      /\ None \notin Waiters /\ "manager" \notin Waiters /\ None # "manager"
      /\ \A w \in Waiters : RescheduleDelay(w) \in Int
      /\ ManagerDelay \in Int
  BY EventQueueAssumption, DelayFacts DEF IInv, TypeOK, WaiterTypeOK, None
\* A step that leaves the timer, and who is arming it, alone.
<1>2. ASSUME \A w \in Waiters : pc'[w] = "arm" <=> pc[w] = "arm",
             mpc' = "arm" <=> mpc = "arm",
             armer' = armer, last_dt' \in {0, last_dt},
             armer = None /\ last_dt' > 0 => reload' = last_dt' /\ remain' <= last_dt'
      PROVE  ArmInv'
  <2>1. (\A w \in Waiters : armer' = w <=> pc'[w] = "arm") /\ (armer' = "manager" <=> mpc' = "arm")
    BY <1>2 DEF ArmInv
  <2>2. ASSUME NEW w \in Waiters, armer' = w
        PROVE  last_dt' \in {0, Clip(RescheduleDelay(w))'}
    <3>1. last_dt \in {0, Clip(RescheduleDelay(w))} /\ RescheduleDelay(w)' = RescheduleDelay(w)
      BY <1>2, <2>1, <2>2, DelayKept DEF ArmInv
    <3> QED
      BY <1>2, <3>1 DEF Clip
  <2>3. ASSUME armer' = "manager"
        PROVE  last_dt' \in {0, Clip(ManagerDelay)'}
    <3>1. last_dt \in {0, Clip(ManagerDelay)} /\ ManagerDelay' = ManagerDelay
      BY <1>2, <2>1, <2>3, DelayKept DEF ArmInv
    <3> QED
      BY <1>2, <3>1 DEF Clip
  <2> QED
    BY <1>2, <2>1, <2>2, <2>3 DEF ArmInv
<1>3. UNCHANGED timerVars =>
        /\ armer' = armer /\ last_dt' \in {0, last_dt}
        /\ armer = None /\ last_dt' > 0 => reload' = last_dt' /\ remain' <= last_dt'
  BY DEF timerVars, ArmInv
<1>4. ASSUME NEW w \in Waiters,
             \/ \E d \in Delays : Wait(w, d)
             \/ NoPointWaiting(w) \/ MustWait(w) \/ Add(w) \/ Block(w) \/ Leave(w)
             \/ PostElsewhere(w)
      PROVE  ArmInv'
  <2>1. UNCHANGED timerVars /\ mpc' = mpc
    BY <1>4 DEF Wait, NoPointWaiting, MustWait, Add, Block, Leave, PostElsewhere, managerVars
  <2>2. \A x \in Waiters : pc'[x] = "arm" <=> pc[x] = "arm"
    BY <1>1, <1>4
       DEF Wait, NoPointWaiting, MustWait, Add, Block, Leave, Return, PostElsewhere, Goto,
           waiterVars
  <2> QED
    BY <1>2, <1>3, <2>1, <2>2
<1>5. CASE ReadNow \/ LockQueue \/ LeaveCheck \/ Expire \/ UnlinkExpired \/ PostExpired \/ UNCHANGED vars
  <2>1. UNCHANGED timerVars /\ pc' = pc /\ (mpc' = "arm" <=> mpc = "arm")
    BY <1>5 DEF ReadNow, LockQueue, LeaveCheck, Expire, UnlinkExpired, PostExpired, vars,
                waiterVars, managerVars
  <2> QED
    BY <1>2, <1>3, <2>1
<1>6. CASE ManagerTake \/ Irq \/ Tick
  <2>1. pc' = pc /\ (mpc' = "arm" <=> mpc = "arm") /\ armer' = armer
    BY <1>6 DEF ManagerTake, Irq, Tick, waiterVars, managerVars, TimerTake, TimerIrq, TimerTick
  <2>2. last_dt' \in {0, last_dt}
    BY <1>6 DEF ManagerTake, Irq, Tick, TimerTake, TimerIrq, TimerTick
  <2>3. ASSUME armer = None, last_dt' > 0
        PROVE  reload' = last_dt' /\ remain' <= last_dt'
    <3>1. last_dt' = last_dt /\ reload = last_dt /\ remain <= last_dt
      BY <2>2, <2>3 DEF ArmInv
    <3>2. CASE TimerTick
      BY <1>1, <2>3, <3>1, <3>2, RemainStep
    <3>3. CASE UNCHANGED <<reload, remain>>
      BY <3>1, <3>3
    <3> QED
      BY <1>6, <3>2, <3>3 DEF ManagerTake, Irq, Tick, TimerTake, TimerIrq
  <2> QED
    BY <1>2, <2>1, <2>2, <2>3
<1>7. ASSUME NEW w \in Waiters, Reschedule(w)
      PROVE  ArmInv'
  <2>1. CASE TimerSkip(RescheduleDelay(w)) /\ Goto(w, "block")
    <3>1. UNCHANGED timerVars /\ mpc' = mpc /\ pc[w] = "reschedule"
      BY <1>7, <2>1 DEF Reschedule, TimerSkip, managerVars
    <3>2. \A x \in Waiters : pc'[x] = "arm" <=> pc[x] = "arm"
      BY <1>1, <2>1, <3>1 DEF Goto
    <3> QED
      BY <1>2, <1>3, <3>1, <3>2
  <2>2. CASE TimerClaim(w, RescheduleDelay(w)) /\ Goto(w, "arm")
    <3>1. /\ armer = None /\ armer' = w /\ last_dt' = Clip(RescheduleDelay(w))
          /\ pc' = [pc EXCEPT ![w] = "arm"] /\ mpc' = mpc
      BY <1>7, <2>2 DEF Reschedule, TimerClaim, Goto, managerVars
    <3>2. (\A x \in Waiters : armer' = x <=> pc'[x] = "arm") /\ ~(armer' = "manager") /\ mpc' # "arm"
      BY <1>1, <3>1 DEF ArmInv
    <3>3. RescheduleDelay(w)' = RescheduleDelay(w)
      BY <3>1, <1>1, DelayKept
    <3> QED
      BY <1>1, <3>1, <3>2, <3>3 DEF ArmInv, Clip
  <2> QED
    BY <1>7, <2>1, <2>2 DEF Reschedule
<1>8. CASE ManagerSet
  <2>1. CASE TimerSkip(ManagerDelay) /\ mpc' = "take"
    <3>1. UNCHANGED timerVars /\ pc' = pc /\ mpc = "set"
      BY <1>8, <2>1 DEF ManagerSet, TimerSkip, waiterVars
    <3> QED
      BY <1>2, <1>3, <2>1, <3>1
  <2>2. CASE TimerClaim("manager", ManagerDelay) /\ mpc' = "arm"
    <3>1. /\ armer = None /\ armer' = "manager" /\ last_dt' = Clip(ManagerDelay)
          /\ mpc' = "arm" /\ pc' = pc
      BY <1>8, <2>2 DEF ManagerSet, TimerClaim, waiterVars
    <3>2. \A x \in Waiters : armer' # x /\ pc'[x] # "arm"
      BY <1>1, <3>1 DEF ArmInv
    <3>3. ManagerDelay' = ManagerDelay
      BY <3>1, DelayKept
    <3> QED
      BY <1>1, <3>1, <3>2, <3>3 DEF ArmInv, Clip
  <2> QED
    BY <1>8, <2>1, <2>2 DEF ManagerSet
\* The delay that is armed is the one last_dt tells of.
<1>9. ASSUME NEW dt \in Int, NEW self, TimerArm(self, dt), last_dt \in {0, Clip(dt)}, last_dt > 0
      PROVE  reload' = last_dt' /\ remain' <= last_dt'
  <2>1. Clip(dt) % (MaxReload + 1) = last_dt /\ last_dt \in Int
    BY <1>9, ClipFacts
  <2> QED
    BY <1>9, <2>1 DEF TimerArm
<1>10. ASSUME NEW w \in Waiters, Arm(w)
       PROVE  ArmInv'
  <2>1. /\ armer = w /\ armer' = None /\ last_dt' = last_dt
        /\ pc' = [pc EXCEPT ![w] = "block"] /\ mpc' = mpc
    BY <1>10 DEF Arm, TimerArm, Goto, managerVars
  <2>2. (\A x \in Waiters : armer' # x /\ pc'[x] # "arm") /\ armer' # "manager" /\ mpc' # "arm"
    BY <1>1, <2>1 DEF ArmInv
  <2>3. last_dt' > 0 => reload' = last_dt' /\ remain' <= last_dt'
    BY <1>1, <1>9, <1>10, <2>1 DEF Arm, ArmInv
  <2> QED
    BY <2>1, <2>2, <2>3 DEF ArmInv
<1>11. CASE ManagerArm
  <2>1. armer = "manager" /\ armer' = None /\ last_dt' = last_dt /\ mpc' = "take" /\ pc' = pc
    BY <1>11 DEF ManagerArm, TimerArm, waiterVars
  <2>2. (\A x \in Waiters : armer' # x /\ pc'[x] # "arm") /\ armer' # "manager"
    BY <1>1, <2>1 DEF ArmInv
  <2>3. last_dt' > 0 => reload' = last_dt' /\ remain' <= last_dt'
    BY <1>1, <1>9, <1>11, <2>1 DEF ManagerArm, ArmInv
  <2> QED
    BY <2>1, <2>2, <2>3 DEF ArmInv
<1> QED
  BY <1>4, <1>5, <1>6, <1>7, <1>8, <1>10, <1>11 DEF Next, Step, Waiter, Manager

-----------------------------------------------------------------------------
(* Every variable keeps its type, and no semaphore counts past its limit,  *)
(* in every behaviour of the event queue and its timer.                    *)
THEOREM TypeCorrect == Spec => []TypeOK
<1>1. IInv => TypeOK
  BY DEF IInv
<1> QED
  BY <1>1, InitIInv, StepIInv, PTL DEF Spec

(* The list never links the event of a thread that has left wait_absolute, *)
(* and the event check() has picked is still linked when it unlinks it.    *)
THEOREM NoStaleEvent == Spec => []EventsAlive
<1>1. IInv => EventsAlive
  BY DEF IInv
<1> QED
  BY <1>1, InitIInv, StepIInv, PTL DEF Spec

-----------------------------------------------------------------------------
(* The whole invariant of the order of the list and of the waking.         *)

WakeInv ==
  /\ IInv /\ TimesInv /\ SoonestFirst
  /\ ReadInv /\ PostedInv /\ ArmInv

LEMMA InitWakeInv == Init => WakeInv
<1> SUFFICES ASSUME Init PROVE WakeInv
  OBVIOUS
<1>1. queue = <<>> /\ clock = 0 /\ last_dt = 0 /\ armer = None /\ mpc = "check"
  BY DEF Init, TimerInit
<1>2. \A w \in Waiters : pc[w] = "idle" /\ sem[w] = 0
  BY DEF Init
<1>3. TimesInv /\ SoonestFirst
  BY <1>1, <1>2, Bounds DEF TimesInv, SoonestFirst
<1>4. ReadInv /\ PostedInv
  BY <1>1, <1>2 DEF ReadInv, PostedInv
<1>5. ArmInv
  BY <1>1, <1>2, EventQueueAssumption DEF ArmInv, None
<1> QED
  BY <1>3, <1>4, <1>5, InitIInv DEF WakeInv

LEMMA StepWakeInv == WakeInv /\ [Next]_vars => WakeInv'
<1> SUFFICES ASSUME WakeInv, [Next]_vars PROVE WakeInv'
  OBVIOUS
<1>1. IInv /\ TimesInv /\ SoonestFirst /\ ReadInv /\ PostedInv /\ ArmInv
  BY DEF WakeInv
<1>2. IInv'
  BY <1>1, StepIInv
<1> QED
  BY <1>1, <1>2, TimesStep, OrderStep, ReadStep, PostedStep, ArmStep DEF WakeInv

(* No event is linked twice, and the list is in the order of the real      *)
(* deadlines, for every width of the counter and wherever it wraps, as     *)
(* long as no deadline is half a turn away (event.cpp:14-20 and the cast   *)
(* of timer_cmp).                                                          *)
THEOREM ListInOrder == Spec => []LinkedInOrder
<1>1. WakeInv => LinkedInOrder
  BY DEF WakeInv, IInv, LinkedInOrder
<1> QED
  BY <1>1, InitWakeInv, StepWakeInv, PTL DEF Spec

\* The timer is left alone only when it fires soon enough.
LEMMA SkipStep ==
  ASSUME WakeInv, [Next]_vars, last_dt > 0
  PROVE  /\ \A w \in Waiters :
              (pc[w] = "reschedule" /\ pc'[w] = "block") => remain <= RescheduleDelay(w)
         /\ (mpc = "set" /\ mpc' = "take") => remain <= ManagerDelay
<1>1. /\ ArmInv /\ TimerTypeOK /\ pc \in [Waiters -> Labels]
      /\ \A w \in Waiters : RescheduleDelay(w) \in Int
      /\ ManagerDelay \in Int
  BY DelayFacts DEF WakeInv, IInv, TypeOK, WaiterTypeOK
<1>2. ASSUME NEW dt \in Int, TimerSkip(dt)
      PROVE  remain <= dt
  <2>1. /\ remain \in Nat /\ last_dt \in Int /\ remain <= last_dt
        /\ last_dt < Clip(dt) /\ Clip(dt) \in Int /\ Clip(dt) <= dt
    BY <1>1, <1>2, ClipFacts DEF ArmInv, TimerTypeOK, TimerSkip, Imminent
  <2> QED
    BY <2>1
<1>3. ASSUME NEW w \in Waiters, pc[w] = "reschedule", pc'[w] = "block"
      PROVE  TimerSkip(RescheduleDelay(w))
  <2>1. ASSUME NEW v \in Waiters, Waiter(v) \/ PostElsewhere(v)
        PROVE  TimerSkip(RescheduleDelay(w))
    <3>1. CASE Reschedule(v)
      <4>1. v = w
        BY <1>1, <1>3, <3>1 DEF Reschedule, Goto
      <4> QED
        BY <1>1, <1>3, <3>1, <4>1 DEF Reschedule, Goto
    <3>2. CASE PostElsewhere(v)
      BY <1>3, <3>2 DEF PostElsewhere, waiterVars
    <3>3. CASE ~Reschedule(v) /\ Waiter(v)
      BY <1>1, <1>3, <3>3
         DEF Waiter, Wait, NoPointWaiting, MustWait, Add, Arm, Block, Leave, Return, Goto
    <3> QED
      BY <2>1, <3>1, <3>2, <3>3
  <2>2. Manager \/ Irq \/ Tick \/ UNCHANGED vars => pc' = pc
    BY DEF Manager, ReadNow, LockQueue, LeaveCheck, Expire, UnlinkExpired, PostExpired,
           ManagerSet, ManagerArm, ManagerTake, Irq, Tick, waiterVars, vars
  <2> QED
    BY <1>3, <2>1, <2>2 DEF Next, Step
<1>4. ASSUME mpc = "set", mpc' = "take"
      PROVE  TimerSkip(ManagerDelay)
  BY <1>4
     DEF Next, Step, Waiter, Manager, Irq, Tick, vars, managerVars, Wait, NoPointWaiting,
         MustWait, Add, Reschedule, Arm, Block, Leave, PostElsewhere, ReadNow, LockQueue,
         LeaveCheck, Expire, UnlinkExpired, PostExpired, ManagerSet, ManagerArm, ManagerTake
<1> QED
  BY <1>1, <1>2, <1>3, <1>4

LEMMA WakeStep ==
  ASSUME WakeInv, NEW w \in Waiters
  PROVE  Block(w) /\ posts = 0 => clock >= due[w]
  BY Bounds DEF WakeInv, IInv, TypeOK, WaiterTypeOK, TimesInv, PostedInv, Expired, Block

\* Within one turn of the counter its readings compare as the times do.
LEMMA GiveUpStep ==
  ASSUME WakeInv, NEW w \in Waiters, NoPointWaiting(w), SamePass(w)
  PROVE  clock >= due[w]
<1> DEFINE a == Start + clock
           b == Start + due[w]
<1>1. /\ Meant(w) /\ clock \in Int /\ due[w] \in Int /\ Modulus \in Nat \ {0}
      /\ a \in Int /\ b \in Int
  BY Bounds DEF WakeInv, TimesInv, NoPointWaiting, Meant
<1>2. a % Modulus >= b % Modulus /\ a \div Modulus = b \div Modulus
  BY <1>1 DEF NoPointWaiting, SamePass, TimerNow, Unsigned, Meant
<1>3. a >= b
  <2> HIDE DEF a, b
  <2>1. /\ a = Modulus * (a \div Modulus) + (a % Modulus)
        /\ b = Modulus * (b \div Modulus) + (b % Modulus)
        /\ a % Modulus \in Int /\ b % Modulus \in Int /\ a \div Modulus \in Int
    BY <1>1, DivMod
  <2>2. PICK k \in Int : k = Modulus * (a \div Modulus)
    BY <1>1, <2>1
  <2> QED
    BY <1>2, <2>1, <2>2
<1> QED
  BY <1>1, <1>3, Bounds

(* As long as nobody else posts its semaphore, a thread that blocks wakes  *)
(* no earlier than its deadline; wait_absolute() gives up early only over  *)
(* a wrap of the counter; and timer_set() leaves the timer alone only when *)
(* it fires soon enough (event.cpp:167, 209-222, timer.cpp:171-204).       *)
THEOREM WakesRight == Spec => WakesAreRight
<1>1. WakeInv /\ [Next]_vars =>
        [last_dt > 0 =>
           /\ \A w \in Waiters :
                (pc[w] = "reschedule" /\ pc'[w] = "block") => remain <= RescheduleDelay(w)
           /\ (mpc = "set" /\ mpc' = "take") => remain <= ManagerDelay]_vars
  BY SkipStep
<1>2. WakeInv /\ [Next]_vars =>
        [\A w \in Waiters : Block(w) /\ posts = 0 => clock >= due[w]]_vars
  BY WakeStep
<1>3. WakeInv /\ [Next]_vars =>
        [\A w \in Waiters : NoPointWaiting(w) /\ SamePass(w) => clock >= due[w]]_vars
  BY GiveUpStep
<1> QED
  BY <1>1, <1>2, <1>3, InitWakeInv, StepWakeInv, PTL
     DEF Spec, WakesAreRight, SkipIsSound, WakesNotEarly, GivesUpInPass

-----------------------------------------------------------------------------
(* Nobody wakes late.  As long as every ready thread is run before the     *)
(* next tick, time stands still while anybody but the clock can move       *)
(* (FrozenInv), so all readings of the counter and all delays are exact.   *)
(* For the head of the list there is then always one who sees to it that   *)
(* the timer fires in time (Covered): the manager, which is awake or has   *)
(* to arm the timer for it; a thread that asks for no longer delay; or the *)
(* timer itself, when nobody can set it to more than last_dt, or nobody    *)
(* sets it at all.                                                         *)

Checking == irq \/ notified \/ mpc \in {"check", "lock", "loop", "unlink", "post"}
Left(w) == due[w] - clock
Requests(w) == pc[w] \in {"reschedule", "arm"}
Settled == mpc = "take" /\ \A w \in Waiters : ~Requests(w)

Covered(t) ==
  \/ Checking
  \/ mpc \in {"set", "arm"} /\ mnext # 0 /\ mnext <= t
  \/ \E w \in Waiters : Requests(w) /\ Left(w) <= t
  \/ last_dt \in 1 .. t /\ (armer = None => remain <= t)
  \/ Settled /\ remain <= t

FrozenInv ==
  /\ \A w \in Waiters : pc[w] \in {"absolute", "add", "reschedule", "arm"} => due[w] > clock
  /\ \A w \in Waiters : pc[w] \in {"add", "reschedule", "arm"} => seen[w] = TimerNow
  /\ \A w \in Waiters : Requests(w) => w \in Queued
  /\ mpc \in {"lock", "loop", "unlink", "post"} => mnow = TimerNow
  /\ last_dt >= 0 /\ remain >= 1 /\ reload >= 1 /\ mnext >= 0

\* An interrupt while the timer is being armed clears last_dt, and the manager
\* checks once more.
ClearInv ==
  /\ \A w \in Waiters : armer = w /\ last_dt = 0 =>
       Checking \/ (mpc = "set" /\ mnext # 0 /\ mnext <= Left(w))
  /\ armer = "manager" /\ last_dt = 0 => notified

HeadCovered == queue # <<>> => Covered(Left(Head(queue)))
OnTime == \A w \in Queued : clock <= due[w]

TimelyInv == FrozenInv /\ ClearInv /\ HeadCovered /\ OnTime

LEMMA TimelyTypes ==
  ASSUME WakeInv
  PROVE  /\ clock \in Nat /\ last_dt \in Int /\ remain \in Nat /\ reload \in Nat
         /\ mnext \in Int /\ IdleWait >= 1 /\ IdleWait \in Nat
         /\ due \in [Waiters -> Nat] /\ pc \in [Waiters -> Labels]
         /\ queue \in Seq(Waiters) /\ Queued \subseteq Waiters /\ Distinct(queue)
         /\ None \notin Waiters /\ "manager" \notin Waiters /\ None # "manager"
<1>1. clock \in Nat /\ last_dt \in Int /\ remain \in Nat /\ reload \in Nat /\ mnext \in Int
  BY DEF WakeInv, IInv, TypeOK, TimerTypeOK, ManagerTypeOK
<1>2. due \in [Waiters -> Nat] /\ pc \in [Waiters -> Labels]
  BY DEF WakeInv, IInv, TypeOK, WaiterTypeOK
<1>3. queue \in Seq(Waiters) /\ Queued \subseteq Waiters /\ Distinct(queue)
  BY DEF WakeInv, IInv, TypeOK, QueueTypeOK, Queued, ToSet, LinkedOnce, Distinct
<1>4. None \notin Waiters /\ "manager" \notin Waiters /\ None # "manager"
      /\ IdleWait >= 1 /\ IdleWait \in Nat
  BY EventQueueAssumption DEF None
<1> QED
  BY <1>1, <1>2, <1>3, <1>4

\* The delays asked for are those that are left.
LEMMA RequestFacts ==
  ASSUME WakeInv, FrozenInv, NEW w \in Waiters, Requests(w)
  PROVE  RescheduleDelay(w) = Left(w) /\ Left(w) \in Nat /\ Left(w) >= 1
<1>1. /\ Meant(w) /\ seen[w] = Unsigned(Start + clock) /\ due[w] > clock
      /\ clock \in Nat /\ due[w] \in Nat
  BY TimelyTypes, Bounds DEF WakeInv, TimesInv, FrozenInv, Requests, TimerNow, Meant
<1> DEFINE a == Start + due[w]
           b == Start + clock
<1>2. a \in Int /\ b \in Int /\ a - b = Left(w) /\ a - b < Half /\ b - a < Half
  <2>1. Half \in Int
    BY TimerAssumption DEF Half
  <2> QED
    BY <1>1, <2>1, Bounds DEF Meant, Left
<1>3. time[w] = Unsigned(a) /\ seen[w] = Unsigned(b)
  BY <1>1 DEF Meant
<1> HIDE DEF a, b
<1>4. Signed(Unsigned(a) - Unsigned(b)) = a - b
  BY <1>2, SignedDifference
<1>5. RescheduleDelay(w) = Left(w)
  BY <1>2, <1>3, <1>4 DEF RescheduleDelay
<1> QED
  BY <1>1, <1>5 DEF Left

LEMMA HeadLeft ==
  ASSUME WakeInv, FrozenInv, mpc = "loop", queue # <<>>
  PROVE  UntilHead = Left(Head(queue))
<1>1. clock \in 0 .. clock /\ mnow = Unsigned(Start + clock)
  BY TimelyTypes DEF FrozenInv, TimerNow
<1> QED
  BY <1>1, UntilHeadFacts DEF WakeInv, Left

\* No event of the list is sooner than its head.
LEMMA HeadFirst ==
  ASSUME WakeInv, NEW w \in Queued
  PROVE  /\ queue # <<>> /\ Head(queue) \in Queued /\ Head(queue) \in Waiters
         /\ Left(Head(queue)) \in Int /\ Left(w) \in Int
         /\ Left(Head(queue)) <= Left(w)
<1>1. PICK i \in DOMAIN queue : queue[i] = w
  BY DEF Queued, ToSet
<1>2. queue # <<>> /\ Head(queue) = queue[1] /\ 1 \in DOMAIN queue /\ i >= 1
  BY <1>1, TimelyTypes, LenProperties, HeadTailProperties
<1>3. Head(queue) \in Queued /\ Head(queue) \in Waiters /\ w \in Waiters
  BY <1>2, TimelyTypes DEF Queued, ToSet
<1>4. due[Head(queue)] <= due[w]
  <2>1. CASE i = 1
    BY <1>1, <1>2, <1>3, <2>1, TimelyTypes
  <2>2. CASE i # 1
    <3>1. 1 < i
      BY <1>1, <1>2, <2>2, TimelyTypes, LenProperties
    <3> QED
      BY <1>1, <1>2, <3>1 DEF WakeInv, SoonestFirst
  <2> QED
    BY <2>1, <2>2
<1> QED
  BY <1>2, <1>3, <1>4, TimelyTypes DEF Left

LEMMA CoveredMore ==
  ASSUME WakeInv, NEW t \in Int, NEW u \in Int, t <= u, Covered(t)
  PROVE  Covered(u)
<1>1. last_dt \in Int /\ remain \in Int /\ mnext \in Int /\ \A w \in Waiters : Left(w) \in Int
  BY TimelyTypes DEF Left
<1>2. CASE mpc \in {"set", "arm"} /\ mnext # 0 /\ mnext <= t
  BY <1>1, <1>2 DEF Covered
<1>3. CASE \E w \in Waiters : Requests(w) /\ Left(w) <= t
  BY <1>1, <1>3 DEF Covered
<1>4. CASE last_dt \in 1 .. t /\ (armer = None => remain <= t)
  <2>1. last_dt \in 1 .. u /\ (armer = None => remain <= u)
    BY <1>1, <1>4
  <2> QED
    BY <2>1 DEF Covered
<1>5. CASE Settled /\ remain <= t
  BY <1>1, <1>5 DEF Covered
<1> QED
  BY <1>2, <1>3, <1>4, <1>5 DEF Covered

\* A delay that timer_set() is given, and what it makes of it.
LEMMA ClipPositive ==
  ASSUME NEW dt \in Int, dt >= 1
  PROVE  Clip(dt) \in Nat /\ Clip(dt) >= 1 /\ Clip(dt) <= dt
         /\ Clip(dt) % (MaxReload + 1) = Clip(dt)
<1>1. Clip(dt) \in Nat /\ Clip(dt) >= 1 /\ Clip(dt) <= dt
  BY TimerAssumption DEF Clip
<1> QED
  BY <1>1, ClipFacts

LEMMA TimeStands ==
  ASSUME WakeInv, Step \/ UNCHANGED vars
  PROVE  clock' = clock /\ TimerNow' = TimerNow /\ [Next]_vars
<1>1. clock' = clock
  BY DEF Step, Waiter, Manager, Irq, vars, timerVars, Wait, NoPointWaiting,
         MustWait, Add, Reschedule, Arm, Block, Leave, PostElsewhere, ReadNow, LockQueue,
         LeaveCheck, Expire, UnlinkExpired, PostExpired, ManagerSet, ManagerArm,
         ManagerTake, TimerSkip, TimerClaim, TimerArm, TimerIrq, TimerTake
<1> QED
  BY <1>1 DEF TimerNow, Next

\* What a step does to the list, as a set.
LEMMA QueueStep ==
  ASSUME WakeInv, Step \/ UNCHANGED vars
  PROVE  \/ queue' = queue
         \/ \E w \in Waiters : Add(w) /\ Queued' = Queued \cup {w}
         \/ \E w \in Waiters : Leave(w) /\ Queued' = Queued \ {w}
         \/ UnlinkExpired /\ Queued' = Queued \ {mevent}
<1>1. queue \in Seq(Waiters) /\ Distinct(queue)
  BY TimelyTypes
<1>2. ASSUME NEW w \in Waiters, Add(w) PROVE Queued' = Queued \cup {w}
  <2>1. w \notin ToSet(queue)
    BY <1>2 DEF Add, WakeInv, IInv, EventsAlive, Queued, Alive
  <2> QED
    BY <1>1, <1>2, <2>1, AddSortedFacts DEF Add, Queued
<1>3. ASSUME NEW w \in Waiters, Leave(w) PROVE Queued' = Queued \ {w}
  BY <1>1, <1>3, RemoveFirstFacts DEF Leave, Unlink, Queued
<1>4. UnlinkExpired => Queued' = Queued \ {mevent}
  BY <1>1, RemoveFirstFacts DEF UnlinkExpired, Unlink, Queued
<1>5. \/ queue' = queue \/ UnlinkExpired
      \/ \E w \in Waiters : Add(w) \/ Leave(w)
  BY DEF Step, Waiter, Manager, Irq, vars, queueVars, Wait, NoPointWaiting,
         MustWait, Reschedule, Arm, Block, PostElsewhere, ReadNow, LockQueue,
         LeaveCheck, Expire, PostExpired, ManagerSet, ManagerArm, ManagerTake
<1> QED
  BY <1>2, <1>3, <1>4, <1>5

\* What a step does to the timer, and who asked for it.
LEMMA TimerStep ==
  ASSUME WakeInv, FrozenInv, Step \/ UNCHANGED vars
  PROVE  \/ UNCHANGED timerVars
         \/ Irq
         \/ ManagerTake
         \/ \E w \in Waiters :
              /\ Requests(w)
              /\ (Reschedule(w) /\ TimerClaim(w, Left(w))) \/ (Arm(w) /\ TimerArm(w, Left(w)))
         \/ /\ ManagerDelay \in Nat /\ ManagerDelay >= 1
            /\ \/ ManagerSet /\ TimerClaim("manager", ManagerDelay)
               \/ ManagerArm /\ TimerArm("manager", ManagerDelay)
<1>1. ManagerDelay \in Nat /\ ManagerDelay >= 1
  BY TimelyTypes DEF ManagerDelay, FrozenInv
<1>2. ASSUME NEW w \in Waiters, Reschedule(w) \/ Arm(w)
      PROVE  Requests(w) /\ RescheduleDelay(w) = Left(w)
  <2>1. Requests(w)
    <3>1. Arm(w) => armer = w
      BY DEF Arm, TimerArm
    <3> QED
      BY <1>2, <3>1 DEF Reschedule, Arm, Requests
  <2> QED
    BY <2>1, RequestFacts
<1>3. ASSUME NEW w \in Waiters, Reschedule(w)
      PROVE  UNCHANGED timerVars \/ TimerClaim(w, Left(w))
  BY <1>2, <1>3 DEF Reschedule, TimerSkip
<1>4. ASSUME NEW w \in Waiters, Arm(w)
      PROVE  TimerArm(w, Left(w))
  BY <1>2, <1>4 DEF Arm
<1>5. ASSUME NEW w \in Waiters, Waiter(w) \/ PostElsewhere(w), ~Reschedule(w), ~Arm(w)
      PROVE  UNCHANGED timerVars
  BY <1>5 DEF Waiter, Wait, NoPointWaiting, MustWait, Add, Block, Leave, PostElsewhere
<1>6. ASSUME Manager, ~ManagerSet, ~ManagerArm, ~ManagerTake
      PROVE  UNCHANGED timerVars
  BY <1>6 DEF Manager, ReadNow, LockQueue, LeaveCheck, Expire, UnlinkExpired, PostExpired
<1>7. ManagerSet => UNCHANGED timerVars \/ TimerClaim("manager", ManagerDelay)
  BY DEF ManagerSet, TimerSkip
<1>8. ManagerArm => TimerArm("manager", ManagerDelay)
  BY DEF ManagerArm
<1>9. ASSUME NEW w \in Waiters, Waiter(w) \/ PostElsewhere(w)
      PROVE  \/ UNCHANGED timerVars
             \/ /\ Requests(w)
                /\ (Reschedule(w) /\ TimerClaim(w, Left(w))) \/ (Arm(w) /\ TimerArm(w, Left(w)))
  BY <1>2, <1>3, <1>4, <1>5, <1>9
<1>10. UNCHANGED vars => UNCHANGED timerVars
  BY DEF vars
<1> QED
  BY <1>1, <1>6, <1>7, <1>8, <1>9, <1>10 DEF Step

LEMMA FrozenStep ==
  ASSUME WakeInv, FrozenInv, Step \/ UNCHANGED vars
  PROVE  FrozenInv'
<1>1. clock' = clock /\ TimerNow' = TimerNow /\ [Next]_vars
  BY TimeStands
<1>2. WakeInv'
  BY <1>1, StepWakeInv
<1>3. /\ pc \in [Waiters -> Labels] /\ due \in [Waiters -> Nat]
      /\ seen \in [Waiters -> 0 .. Modulus - 1] /\ clock \in Nat
  BY TimelyTypes DEF WakeInv, IInv, TypeOK, WaiterTypeOK
<1> DEFINE Busy == {"absolute", "add", "reschedule", "arm"}
\* A waiter that makes no step keeps its place and its locals.
<1>4. ASSUME NEW v \in Waiters, NEW w \in Waiters, v # w, Waiter(v) \/ PostElsewhere(v)
      PROVE  pc'[w] = pc[w] /\ due'[w] = due[w] /\ seen'[w] = seen[w]
  <2>1. CASE PostElsewhere(v)
    BY <2>1 DEF PostElsewhere, waiterVars
  <2>2. CASE (\E d \in Delays : Wait(v, d)) \/ NoPointWaiting(v) \/ Leave(v) \/ MustWait(v)
    BY <1>3, <1>4, <2>2 DEF Wait, NoPointWaiting, Leave, MustWait, Return, Goto
  <2>3. CASE Add(v) \/ Reschedule(v) \/ Arm(v) \/ Block(v)
    BY <1>3, <1>4, <2>3 DEF Add, Reschedule, Arm, Block, Goto
  <2> QED
    BY <1>4, <2>1, <2>2, <2>3 DEF Waiter
<1>5. Manager \/ Irq \/ UNCHANGED vars => UNCHANGED <<pc, due, seen>>
  BY DEF Manager, ReadNow, LockQueue, LeaveCheck, Expire, UnlinkExpired, PostExpired,
         ManagerSet, ManagerArm, ManagerTake, Irq, waiterVars, vars
<1>6. ASSUME NEW w \in Waiters, Waiter(w) \/ PostElsewhere(w)
      PROVE  /\ pc'[w] \in Busy => due'[w] > clock
             /\ pc'[w] \in Busy \ {"absolute"} => seen'[w] = TimerNow
  <2>1. ASSUME NEW d \in Delays, Wait(w, d)
        PROVE  due'[w] > clock /\ pc'[w] = "absolute"
    <3>1. d \in Nat /\ d > 0 /\ due'[w] = clock + d
      BY <1>3, <2>1, EventQueueAssumption DEF Wait
    <3> QED
      BY <1>3, <2>1, <3>1 DEF Wait, Goto
  <2>2. CASE NoPointWaiting(w) \/ Leave(w) \/ Block(w) \/ Arm(w)
    BY <1>3, <2>2 DEF NoPointWaiting, Leave, Block, Arm, Return, Goto
  <2>3. CASE MustWait(w)
    <3>1. due'[w] = due[w] /\ pc[w] = "absolute" /\ seen'[w] = TimerNow /\ pc'[w] = "add"
      BY <1>3, <2>3 DEF MustWait, Goto
    <3> QED
      BY <3>1 DEF FrozenInv
  <2>4. CASE Add(w) \/ Reschedule(w)
    <3>1. due'[w] = due[w] /\ seen'[w] = seen[w] /\ pc[w] \in {"add", "reschedule"}
      BY <2>4 DEF Add, Reschedule
    <3> QED
      BY <3>1 DEF FrozenInv
  <2>5. CASE PostElsewhere(w)
    <3>1. due'[w] = due[w] /\ seen'[w] = seen[w] /\ pc'[w] = pc[w]
      BY <2>5 DEF PostElsewhere, waiterVars
    <3> QED
      BY <3>1 DEF FrozenInv
  <2> QED
    BY <1>6, <2>1, <2>2, <2>3, <2>4, <2>5 DEF Waiter
<1>7. ASSUME NEW w \in Waiters
      PROVE  /\ pc'[w] \in Busy => due'[w] > clock'
             /\ pc'[w] \in Busy \ {"absolute"} => seen'[w] = TimerNow'
  <2>1. CASE Waiter(w) \/ PostElsewhere(w)
    BY <1>1, <1>6, <2>1
  <2>2. CASE pc'[w] = pc[w] /\ due'[w] = due[w] /\ seen'[w] = seen[w]
    BY <1>1, <2>2 DEF FrozenInv
  <2> QED
    BY <1>4, <1>5, <2>1, <2>2 DEF Step
<1>8. ASSUME NEW w \in Waiters, Requests(w)'
      PROVE  w \in Queued'
  <2>1. CASE Add(w)
    <3>1. Queued' = Queued \cup {w}
      <4>1. w \notin ToSet(queue)
        BY <2>1 DEF Add, WakeInv, IInv, EventsAlive, Queued, Alive
      <4> QED
        BY <2>1, <4>1, TimelyTypes, AddSortedFacts DEF Add, Queued
    <3> QED
      BY <3>1
  <2>2. CASE Requests(w)
    <3>1. w \in Queued
      BY <2>2 DEF FrozenInv
    <3>2. ~Leave(w)
      BY <2>2 DEF Leave, Requests
    <3>3. UnlinkExpired => w # mevent
      BY <1>3, <2>2 DEF UnlinkExpired, WakeInv, ReadInv, FrozenInv, Requests
    <3>4. w \in Queued \/ queue' # queue
      BY <3>1
    <3> QED
      BY <3>1, <3>2, <3>3, QueueStep DEF Queued
  <2>3. Add(w) \/ Requests(w)
    <3>1. ASSUME Waiter(w) \/ PostElsewhere(w), ~Add(w)
          PROVE  Requests(w)
      BY <1>3, <1>8, <3>1
         DEF Waiter, Wait, NoPointWaiting, MustWait, Reschedule, Arm, Block, Leave, Return,
             PostElsewhere, waiterVars, Goto, Requests
    <3>2. pc'[w] = pc[w] => Requests(w)
      BY <1>8 DEF Requests
    <3> QED
      BY <1>4, <1>5, <3>1, <3>2 DEF Step
  <2> QED
    BY <2>1, <2>2, <2>3
<1>9. mpc' \in {"lock", "loop", "unlink", "post"} => mnow' = TimerNow'
  <2>1. CASE ReadNow
    BY <1>1, <2>1 DEF ReadNow
  <2>2. CASE LockQueue \/ Expire \/ UnlinkExpired \/ PostExpired
    BY <1>1, <2>2 DEF LockQueue, Expire, UnlinkExpired, PostExpired, FrozenInv
  <2>3. CASE LeaveCheck \/ ManagerSet \/ ManagerArm \/ ManagerTake
    BY <2>3 DEF LeaveCheck, ManagerSet, ManagerArm, ManagerTake
  <2>4. CASE UNCHANGED managerVars
    BY <1>1, <2>4 DEF managerVars, FrozenInv
  <2>5. ASSUME NEW w \in Waiters, Waiter(w) \/ PostElsewhere(w)
        PROVE  UNCHANGED managerVars
    BY <2>5 DEF Waiter, Wait, NoPointWaiting, MustWait, Add, Reschedule, Arm, Block, Leave,
                PostElsewhere
  <2> QED
    BY <2>1, <2>2, <2>3, <2>4, <2>5 DEF Step, Manager, Irq, vars
<1>10. last_dt' >= 0 /\ remain' >= 1 /\ reload' >= 1
  <2>1. CASE UNCHANGED timerVars
    BY <2>1 DEF timerVars, FrozenInv
  <2>2. CASE Irq \/ ManagerTake
    BY <2>2 DEF Irq, TimerIrq, ManagerTake, TimerTake, FrozenInv
  <2>3. ASSUME NEW self, NEW dt \in Nat, dt >= 1, TimerClaim(self, dt) \/ TimerArm(self, dt)
        PROVE  last_dt' >= 0 /\ remain' >= 1 /\ reload' >= 1
    <3>1. Clip(dt) \in Nat /\ Clip(dt) >= 1 /\ Clip(dt) % (MaxReload + 1) = Clip(dt)
      BY <2>3, ClipPositive
    <3> QED
      BY <2>3, <3>1 DEF TimerClaim, TimerArm, FrozenInv
  <2>4. \A w \in Waiters : Requests(w) => Left(w) \in Nat /\ Left(w) >= 1
    BY RequestFacts
  <2> QED
    BY <2>1, <2>2, <2>3, <2>4, TimerStep
<1>11. mnext' >= 0
  <2>1. CASE LeaveCheck
    BY <2>1, DelayFacts DEF LeaveCheck, WakeInv, IInv
  <2>2. mnext' = mnext \/ mnext' = 0 \/ LeaveCheck
    BY DEF Step, Waiter, Manager, Irq, vars, managerVars, Wait, NoPointWaiting,
           MustWait, Add, Reschedule, Arm, Block, Leave, PostElsewhere, ReadNow, LockQueue,
           Expire, UnlinkExpired, PostExpired, ManagerSet, ManagerArm, ManagerTake
  <2> QED
    BY <2>1, <2>2 DEF FrozenInv
<1> QED
  BY <1>7, <1>8, <1>9, <1>10, <1>11 DEF FrozenInv

LEMMA OnTimeStep ==
  ASSUME WakeInv, TimelyInv, FrozenInv', Step \/ UNCHANGED vars
  PROVE  OnTime'
<1>1. clock' = clock /\ [Next]_vars
  BY TimeStands
<1>2. WakeInv' /\ Queued' \subseteq Waiters
  BY <1>1, StepWakeInv, TimelyTypes DEF WakeInv, IInv, TypeOK, QueueTypeOK, Queued, ToSet
<1> SUFFICES ASSUME NEW w \in Queued' PROVE clock' <= due'[w]
  BY DEF OnTime
<1>3. w \in Waiters /\ Alive(w)'
  BY <1>2 DEF WakeInv, IInv, EventsAlive
<1>4. due'[w] = due[w]
  BY <1>1, <1>3, DeadlineKept DEF WakeInv, Alive
<1>5. w \in Queued \/ Add(w)
  BY QueueStep DEF Queued
<1>6. ASSUME Add(w) PROVE clock <= due[w]
  <2>1. due[w] > clock /\ due[w] \in Nat /\ clock \in Nat
    BY <1>3, <1>6, TimelyTypes DEF Add, TimelyInv, FrozenInv
  <2> QED
    BY <2>1
<1> QED
  BY <1>1, <1>4, <1>5, <1>6 DEF TimelyInv, OnTime

\* Of the requests under way, each keeps its deadline.
LEMMA RequestKept ==
  ASSUME WakeInv, Step \/ UNCHANGED vars, NEW w \in Waiters, Requests(w)'
  PROVE  Left(w)' = Left(w)
  BY TimeStands, DeadlineKept DEF WakeInv, Left, Requests

LEMMA ClearStep ==
  ASSUME WakeInv, TimelyInv, Step \/ UNCHANGED vars
  PROVE  ClearInv'
<1>1. [Next]_vars /\ clock' = clock
  BY TimeStands
<1>2. WakeInv' /\ ArmInv' /\ ArmInv /\ FrozenInv /\ ClearInv
  BY <1>1, StepWakeInv DEF WakeInv, TimelyInv
<1>3. ASSUME NEW self, NEW dt \in Nat, dt >= 1, TimerClaim(self, dt)
      PROVE  last_dt' # 0
  BY <1>3, ClipPositive DEF TimerClaim
<1>4. ASSUME NEW self, NEW dt, TimerArm(self, dt)
      PROVE  armer' = None
  BY <1>4 DEF TimerArm
<1>5. ASSUME NEW w \in Waiters, armer' = w, last_dt' = 0
      PROVE  Checking' \/ (mpc' = "set" /\ mnext' # 0 /\ mnext' <= Left(w)')
  <2>1. Requests(w)' /\ pc'[w] = "arm"
    BY <1>2, <1>5 DEF ArmInv, Requests
  <2>2. Left(w)' = Left(w)
    BY <2>1, RequestKept
  <2>3. CASE Irq \/ ManagerTake
    BY <2>3 DEF Irq, TimerIrq, ManagerTake, Checking
  <2>4. CASE UNCHANGED timerVars
    <3>1. /\ armer = w /\ last_dt = 0 /\ irq' = irq /\ notified' = notified
          /\ Checking \/ (mpc = "set" /\ mnext # 0 /\ mnext <= Left(w))
      BY <1>2, <1>5, <2>4 DEF timerVars, ClearInv
    <3>2. CASE LeaveCheck
      <4>1. w \in Queued
        BY <1>2, <3>1 DEF ArmInv, FrozenInv, Requests
      <4>2. queue # <<>> /\ Left(Head(queue)) <= Left(w)
        BY <4>1, HeadFirst
      <4>3. UntilHead = Left(Head(queue)) /\ UntilHead \in Int
        BY <1>2, <3>2, <4>2, HeadLeft, DelayFacts DEF LeaveCheck, WakeInv, IInv
      <4> QED
        BY <2>2, <3>2, <4>2, <4>3 DEF LeaveCheck
    <3>3. CASE ReadNow \/ LockQueue \/ Expire \/ UnlinkExpired \/ PostExpired
      BY <3>3 DEF ReadNow, LockQueue, Expire, UnlinkExpired, PostExpired, Checking
    <3>4. CASE ManagerSet \/ ManagerArm
      <4>1. armer = None \/ armer = "manager"
        BY <3>4 DEF ManagerSet, ManagerArm, TimerSkip, TimerClaim, TimerArm
      <4> QED
        BY <3>1, <4>1, TimelyTypes
    <3>5. CASE ManagerTake \/ Irq
      BY <2>3, <3>5
    <3>6. CASE UNCHANGED <<mpc, mnext>>
      BY <2>2, <3>1, <3>6 DEF Checking
    <3>7. ASSUME NEW v \in Waiters, Waiter(v) \/ PostElsewhere(v)
          PROVE  UNCHANGED <<mpc, mnext>>
      BY <3>7 DEF Waiter, Wait, NoPointWaiting, MustWait, Add, Reschedule, Arm, Block,
                  Leave, PostElsewhere, managerVars
    <3> QED
      BY <3>2, <3>3, <3>4, <3>5, <3>6, <3>7 DEF Step, Manager, vars, managerVars
  <2>5. ASSUME NEW v \in Waiters, Requests(v)
        PROVE  /\ ~TimerClaim(v, Left(v))
               /\ ~TimerArm(v, Left(v))
    <3>1. Left(v) \in Nat /\ Left(v) >= 1
      BY <1>2, <2>5, RequestFacts
    <3> QED
      BY <1>3, <1>4, <1>5, <3>1, TimelyTypes
  <2>6. ManagerDelay \in Nat /\ ManagerDelay >= 1 =>
          ~TimerClaim("manager", ManagerDelay) /\ ~TimerArm("manager", ManagerDelay)
    BY <1>3, <1>4, <1>5, TimelyTypes
  <2> QED
    BY <1>2, <2>3, <2>4, <2>5, <2>6, TimerStep
<1>6. ASSUME armer' = "manager", last_dt' = 0
      PROVE  notified'
  <2>1. CASE Irq
    BY <2>1 DEF Irq, TimerIrq
  <2>2. CASE UNCHANGED timerVars
    BY <1>2, <1>6, <2>2 DEF timerVars, ClearInv
  <2>3. CASE ManagerTake
    <3>1. mpc' = "check"
      BY <2>3 DEF ManagerTake
    <3> QED
      BY <1>2, <1>6, <3>1 DEF ArmInv
  <2>4. ASSUME NEW v \in Waiters, Requests(v)
        PROVE  /\ ~TimerClaim(v, Left(v))
               /\ ~TimerArm(v, Left(v))
    <3>1. Left(v) \in Nat /\ Left(v) >= 1
      BY <1>2, <2>4, RequestFacts
    <3> QED
      BY <1>3, <1>4, <1>6, <3>1, TimelyTypes
  <2>5. ManagerDelay \in Nat /\ ManagerDelay >= 1 =>
          ~TimerClaim("manager", ManagerDelay) /\ ~TimerArm("manager", ManagerDelay)
    BY <1>3, <1>4, <1>6, TimelyTypes
  <2> QED
    BY <1>2, <2>1, <2>2, <2>3, <2>4, <2>5, TimerStep
<1> QED
  BY <1>5, <1>6 DEF ClearInv

-----------------------------------------------------------------------------
(* Each step hands over: for a time t within which somebody saw to it that *)
(* the timer fires, somebody still does after the step.                    *)

\* The head is new, or it was covered before.
LEMMA HeadStep ==
  ASSUME WakeInv, TimelyInv, Step \/ UNCHANGED vars, queue' # <<>>
  PROVE  \E t \in Int :
           /\ t = Left(Head(queue))'
           /\ \/ Covered(t) /\ queue # <<>> /\ Left(Head(queue)) <= t
              \/ \E w \in Waiters : Requests(w)' /\ Left(w)' <= t
           /\ queue' = queue => t = Left(Head(queue))
<1>1. [Next]_vars /\ clock' = clock
  BY TimeStands
<1>2. WakeInv'
  BY <1>1, StepWakeInv
<1>3. PICK h \in Waiters : h = Head(queue') /\ h \in Queued'
  <2>1. queue' \in Seq(Waiters)
    BY <1>2 DEF WakeInv, IInv, TypeOK, QueueTypeOK
  <2> QED
    BY <2>1, HeadTailProperties, LenProperties DEF Queued, ToSet
<1>4. Alive(h)' /\ due'[h] = due[h] /\ Left(h)' = Left(h) /\ Left(h) \in Int
  <2>1. Alive(h)'
    BY <1>2, <1>3 DEF WakeInv, IInv, EventsAlive
  <2>2. due'[h] = due[h]
    BY <1>1, <2>1, DeadlineKept DEF WakeInv, Alive
  <2> QED
    BY <1>1, <2>1, <2>2, TimelyTypes DEF Left
<1>5. Left(Head(queue))' = Left(h)
  BY <1>3, <1>4 DEF Left
<1>6. CASE h \in Queued
  <2>1. queue # <<>> /\ Left(Head(queue)) <= Left(h) /\ Left(Head(queue)) \in Int
    BY <1>6, HeadFirst
  <2>2. Covered(Left(h))
    <3>1. PICK u \in Int : u = Left(Head(queue))
      BY <2>1
    <3>2. Covered(u)
      BY <2>1, <3>1 DEF TimelyInv, HeadCovered
    <3>3. PICK t \in Int : t = Left(h)
      BY <1>4
    <3> QED
      BY <2>1, <3>1, <3>2, <3>3, CoveredMore
  <2>3. queue' = queue => Left(h) = Left(Head(queue))
    BY <1>3
  <2> QED
    BY <1>4, <1>5, <2>1, <2>2, <2>3
<1>7. CASE h \notin Queued
  <2>1. Add(h) /\ queue' # queue
    BY <1>3, <1>7, QueueStep DEF Queued
  <2>2. pc'[h] = "reschedule"
    BY <1>3, <2>1, TimelyTypes DEF Add, Goto
  <2>3. Requests(h)' /\ Left(h)' <= Left(h)
    BY <1>4, <2>2 DEF Requests
  <2> QED
    BY <1>4, <1>5, <2>1, <2>3
<1> QED
  BY <1>6, <1>7

\* A step that leaves the timer and the manager alone, and no request unanswered.
LEMMA CoverKept ==
  ASSUME WakeInv, NEW t \in Int, Covered(t), UNCHANGED <<timerVars, mpc, mnext>>,
         Step \/ UNCHANGED vars,
         \A w \in Waiters : Requests(w)' <=> Requests(w)
  PROVE  Covered(t)'
<1>1. Checking' <=> Checking
  BY DEF Checking, timerVars
<1>2. Settled' <=> Settled
  BY DEF Settled
<1>3. \A w \in Waiters : Requests(w) => Left(w)' = Left(w)
  BY RequestKept
<1>4. last_dt' = last_dt /\ remain' = remain /\ armer' = armer
  BY DEF timerVars
<1> QED
  BY <1>1, <1>2, <1>3, <1>4 DEF Covered

LEMMA RequestCovers ==
  ASSUME WakeInv, TimelyInv, Step \/ UNCHANGED vars, NEW t \in Int, Covered(t),
         NEW w \in Waiters, Reschedule(w) \/ Arm(w)
  PROVE  Covered(t)'
<1>1. /\ Requests(w) /\ mpc' = mpc /\ mnext' = mnext
      /\ pc[w] = "arm" <=> Arm(w)
  <2>1. Arm(w) => armer = w
    BY DEF Arm, TimerArm
  <2> QED
    BY <2>1 DEF WakeInv, ArmInv, Reschedule, Arm, Requests, managerVars
<1>2. Left(w) \in Nat /\ Left(w) >= 1 /\ RescheduleDelay(w) = Left(w) /\ ArmInv
  BY <1>1, RequestFacts DEF TimelyInv, WakeInv
<1> DEFINE c == Clip(Left(w))
<1>3. c \in Nat /\ c >= 1 /\ c <= Left(w) /\ c % (MaxReload + 1) = c
  BY <1>2, ClipPositive
<1>4. last_dt \in Int /\ remain \in Nat /\ mnext \in Int
      /\ \A x \in Waiters : Left(x) \in Int
  BY TimelyTypes DEF Left
<1>5. last_dt >= 0 /\ ~Settled
  BY <1>1 DEF TimelyInv, FrozenInv, Settled
<1>6. \A x \in Waiters : Requests(x) /\ x # w => Requests(x)' /\ Left(x)' = Left(x)
  <2>1. \A x \in Waiters : x # w => pc'[x] = pc[x]
    BY TimelyTypes DEF Reschedule, Arm, Goto
  <2> QED
    BY <2>1, RequestKept DEF Requests
\* What does not depend on the timer stays.
<1>7. CASE \/ irq \/ notified \/ mpc \in {"check", "lock", "loop", "unlink", "post"}
           \/ mpc \in {"set", "arm"} /\ mnext # 0 /\ mnext <= t
           \/ \E x \in Waiters : x # w /\ Requests(x) /\ Left(x) <= t
  <2>1. irq' = irq /\ notified' = notified
    BY DEF Reschedule, Arm, TimerSkip, TimerClaim, TimerArm, timerVars
  <2> QED
    BY <1>1, <1>6, <1>7, <2>1 DEF Covered, Checking
<1>8. CASE Reschedule(w) /\ (Left(w) <= t \/ (last_dt \in 1 .. t /\ (armer = None => remain <= t)))
  <2>1. CASE TimerSkip(Left(w)) /\ Goto(w, "block")
    <3>1. last_dt < c /\ last_dt # 0 /\ armer = None /\ UNCHANGED timerVars /\ remain <= last_dt
      BY <1>2, <1>4, <1>5, <2>1 DEF TimerSkip, Imminent, ArmInv
    <3>2. last_dt' \in 1 .. t /\ remain' <= t
      BY <1>2, <1>3, <1>4, <1>5, <1>8, <3>1 DEF timerVars
    <3> QED
      BY <3>2 DEF Covered
  <2>2. CASE TimerClaim(w, Left(w)) /\ Goto(w, "arm")
    <3>1. /\ last_dt' = c /\ armer' # None /\ Requests(w)'
          /\ last_dt = 0 \/ last_dt >= c
      BY <1>3, <1>4, <2>2, TimelyTypes DEF TimerClaim, Imminent, Goto, Requests
    <3>2. Left(w)' = Left(w)
      BY <3>1, RequestKept
    <3>3. CASE Left(w) <= t
      BY <3>1, <3>2, <3>3 DEF Covered
    <3>4. CASE last_dt \in 1 .. t
      <4>1. last_dt' \in 1 .. t
        BY <1>3, <1>4, <3>1, <3>4
      <4> QED
        BY <3>1, <4>1 DEF Covered
    <3> QED
      BY <1>8, <3>3, <3>4
  <2> QED
    BY <1>2, <1>8, <2>1, <2>2 DEF Reschedule
<1>9. CASE /\ Arm(w) /\ ~Checking
           /\ Left(w) <= t \/ (last_dt \in 1 .. t /\ (armer = None => remain <= t))
  <2>1. armer = w /\ TimerArm(w, Left(w)) /\ last_dt \in {0, c} /\ remain' = c /\ last_dt' = last_dt
    BY <1>2, <1>3, <1>9 DEF Arm, TimerArm, ArmInv
  <2>2. CASE last_dt = 0
    <3>1. mpc = "set" /\ mnext # 0 /\ mnext <= Left(w) /\ Left(w) <= t
      BY <1>9, <2>1, <2>2 DEF TimelyInv, ClearInv
    <3>2. mpc' = "set" /\ mnext' # 0 /\ mnext' <= t
      BY <1>1, <1>2, <1>4, <3>1
    <3> QED
      BY <3>2 DEF Covered
  <2>3. CASE last_dt = c
    <3>1. last_dt' \in 1 .. t /\ remain' <= t
      BY <1>2, <1>3, <1>9, <2>1, <2>3
    <3> QED
      BY <3>1 DEF Covered
  <2> QED
    BY <2>1, <2>2, <2>3
<1> HIDE DEF c
<1>10. \/ Checking
       \/ mpc \in {"set", "arm"} /\ mnext # 0 /\ mnext <= t
       \/ \E x \in Waiters : x # w /\ Requests(x) /\ Left(x) <= t
       \/ Left(w) <= t
       \/ last_dt \in 1 .. t /\ (armer = None => remain <= t)
  BY <1>5 DEF Covered
<1> QED
  BY <1>7, <1>8, <1>9, <1>10 DEF Checking

LEMMA ManagerCovers ==
  ASSUME WakeInv, TimelyInv, Step \/ UNCHANGED vars, NEW t \in Int, Covered(t),
         ManagerSet \/ ManagerArm
  PROVE  Covered(t)'
<1>1. /\ irq' = irq /\ notified' = notified /\ pc' = pc /\ mpc \in {"set", "arm"}
      /\ ~Settled
  BY DEF ManagerSet, ManagerArm, TimerSkip, TimerClaim, TimerArm, timerVars, waiterVars,
         Settled
<1>2. ManagerDelay \in Nat /\ ManagerDelay >= 1 /\ (mnext # 0 => ManagerDelay = mnext)
      /\ ArmInv
  BY TimelyTypes DEF ManagerDelay, TimelyInv, FrozenInv, WakeInv
<1> DEFINE c == Clip(ManagerDelay)
<1>3. c \in Nat /\ c >= 1 /\ c <= ManagerDelay /\ c % (MaxReload + 1) = c
  BY <1>2, ClipPositive
<1>4. last_dt \in Int /\ remain \in Nat /\ mnext \in Int /\ last_dt >= 0
  BY TimelyTypes DEF TimelyInv, FrozenInv
<1>5. CASE irq \/ notified
  BY <1>1, <1>5 DEF Covered, Checking
<1>6. CASE \E x \in Waiters : Requests(x) /\ Left(x) <= t
  <2>1. \A x \in Waiters : Requests(x) => Requests(x)' /\ Left(x)' = Left(x)
    BY <1>1, RequestKept DEF Requests
  <2> QED
    BY <1>6, <2>1 DEF Covered
<1>7. CASE /\ ManagerSet
           /\ \/ mnext # 0 /\ mnext <= t
              \/ last_dt \in 1 .. t /\ (armer = None => remain <= t)
  <2>1. CASE TimerSkip(ManagerDelay)
    <3>1. last_dt < c /\ last_dt # 0 /\ armer = None /\ UNCHANGED timerVars /\ remain <= last_dt
      BY <1>2, <1>4, <2>1 DEF TimerSkip, Imminent, ArmInv
    <3>2. last_dt' \in 1 .. t /\ remain' <= t
      BY <1>2, <1>3, <1>4, <1>7, <3>1 DEF timerVars
    <3> QED
      BY <3>2 DEF Covered
  <2>2. CASE TimerClaim("manager", ManagerDelay) /\ mpc' = "arm" /\ mnext' = mnext
    <3>1. last_dt' = c /\ armer' # None /\ (last_dt = 0 \/ last_dt >= c)
      BY <1>3, <1>4, <2>2, TimelyTypes DEF TimerClaim, Imminent
    <3>2. CASE mnext # 0 /\ mnext <= t
      BY <2>2, <3>2 DEF Covered
    <3>3. CASE last_dt \in 1 .. t
      <4>1. last_dt' \in 1 .. t
        BY <1>3, <1>4, <3>1, <3>3
      <4> QED
        BY <3>1, <4>1 DEF Covered
    <3> QED
      BY <1>7, <3>2, <3>3
  <2> QED
    BY <1>7, <2>1, <2>2 DEF ManagerSet
<1>8. CASE /\ ManagerArm /\ ~notified
           /\ \/ mnext # 0 /\ mnext <= t
              \/ last_dt \in 1 .. t /\ (armer = None => remain <= t)
  <2>1. /\ armer = "manager" /\ last_dt \in {0, c} /\ remain' = c /\ last_dt' = last_dt
    BY <1>2, <1>3, <1>8 DEF ManagerArm, TimerArm, ArmInv
  <2>2. last_dt = c
    BY <1>8, <2>1 DEF TimelyInv, ClearInv
  <2>3. last_dt' \in 1 .. t /\ remain' <= t
    BY <1>2, <1>3, <1>4, <1>8, <2>1, <2>2
  <2> QED
    BY <2>3 DEF Covered
<1> HIDE DEF c
<1>9. \/ irq \/ notified
      \/ mnext # 0 /\ mnext <= t
      \/ \E x \in Waiters : Requests(x) /\ Left(x) <= t
      \/ last_dt \in 1 .. t /\ (armer = None => remain <= t)
  BY <1>1 DEF Covered, Checking
<1> QED
  BY <1>5, <1>6, <1>7, <1>8, <1>9

LEMMA CoverStep ==
  ASSUME WakeInv, TimelyInv, Step \/ UNCHANGED vars
  PROVE  HeadCovered'
<1> SUFFICES ASSUME queue' # <<>> PROVE Covered(Left(Head(queue)))'
  BY DEF HeadCovered
<1>1. PICK t \in Int :
        /\ t = Left(Head(queue))'
        /\ \/ Covered(t) /\ queue # <<>> /\ Left(Head(queue)) <= t
           \/ \E w \in Waiters : Requests(w)' /\ Left(w)' <= t
        /\ queue' = queue => t = Left(Head(queue))
  BY HeadStep
<1> SUFFICES Covered(t)'
  BY <1>1 DEF Covered
<1>2. CASE \E w \in Waiters : Requests(w)' /\ Left(w)' <= t
  BY <1>2 DEF Covered
<1> SUFFICES ASSUME Covered(t), queue # <<>> PROVE Covered(t)'
  BY <1>1, <1>2
<1>3. ASSUME NEW w \in Waiters, Reschedule(w) \/ Arm(w) PROVE Covered(t)'
  BY <1>3, RequestCovers
<1>4. CASE ManagerSet \/ ManagerArm
  BY <1>4, ManagerCovers
<1>5. CASE \/ ReadNow \/ LockQueue \/ Expire \/ UnlinkExpired \/ PostExpired
           \/ ManagerTake \/ Irq
  <2>1. Checking'
    BY <1>5 DEF ReadNow, LockQueue, Expire, UnlinkExpired, PostExpired, ManagerTake, Irq,
                TimerIrq, Checking
  <2> QED
    BY <2>1 DEF Covered
<1>6. CASE LeaveCheck
  <2>1. UntilHead = Left(Head(queue)) /\ UntilHead \in Int
    BY <1>6, HeadLeft, DelayFacts DEF LeaveCheck, WakeInv, IInv, TimelyInv
  <2>2. mpc' = "set" /\ mnext' = UntilHead /\ UntilHead > 0 /\ queue' = queue
    BY <1>6 DEF LeaveCheck
  <2>3. mnext' # 0 /\ mnext' <= t
    BY <1>1, <2>1, <2>2
  <2> QED
    BY <2>2, <2>3 DEF Covered
<1>7. ASSUME NEW w \in Waiters,
             \/ \E d \in Delays : Wait(w, d)
             \/ NoPointWaiting(w) \/ MustWait(w) \/ Block(w) \/ Leave(w)
             \/ PostElsewhere(w)
      PROVE  Covered(t)'
  <2>1. UNCHANGED <<timerVars, mpc, mnext>>
    BY <1>7 DEF Wait, NoPointWaiting, MustWait, Block, Leave, PostElsewhere, managerVars
  <2>2. \A x \in Waiters : Requests(x)' <=> Requests(x)
    BY <1>7, TimelyTypes
       DEF Wait, NoPointWaiting, MustWait, Block, Leave, PostElsewhere, Return, Goto,
           waiterVars, Requests
  <2> QED
    BY <2>1, <2>2, CoverKept
<1>8. ASSUME NEW w \in Waiters, Add(w)
      PROVE  Covered(t)'
  <2>1. UNCHANGED <<timerVars, mpc, mnext>> /\ pc[w] = "add" /\ pc' = [pc EXCEPT ![w] = pc'[w]]
    BY <1>8, TimelyTypes DEF Add, managerVars, Goto
  <2>2. CASE pc'[w] = "block"
    <3>1. \A x \in Waiters : Requests(x)' <=> Requests(x)
      BY <2>1, <2>2, TimelyTypes DEF Requests
    <3> QED
      BY <2>1, <3>1, CoverKept
  <2>3. CASE Head(queue') = w /\ pc'[w] = "reschedule"
    <3>1. Requests(w)' /\ Left(w)' <= t
      <4>1. Left(w)' = t
        BY <1>1, <2>3 DEF Left
      <4> QED
        BY <2>3, <4>1 DEF Requests
    <3> QED
      BY <3>1 DEF Covered
  <2> QED
    BY <1>8, <2>2, <2>3, TimelyTypes DEF Add, Goto
<1>9. CASE UNCHANGED vars
  <2>1. UNCHANGED <<timerVars, mpc, mnext>> /\ \A x \in Waiters : Requests(x)' <=> Requests(x)
    BY <1>9 DEF vars, managerVars, waiterVars, Requests
  <2> QED
    BY <2>1, CoverKept
<1> QED
  BY <1>3, <1>4, <1>5, <1>6, <1>7, <1>8, <1>9 DEF Step, Waiter, Manager

\* A tick that finds everybody waiting: the timer runs for the head.
LEMMA TickStep ==
  ASSUME WakeInv, TimelyInv, Tick, Quiet
  PROVE  TimelyInv'
<1>1. /\ \A w \in Waiters : pc[w] \in {"idle", "block"}
      /\ mpc = "take" /\ ~notified /\ ~irq
      /\ UNCHANGED <<queue, pc, due, seen, mpc, mnext, last_dt, reload, notified, armer>>
      /\ clock' \in {clock, clock + 1}
      /\ irq' = (remain <= 1)
      /\ remain' = IF remain <= 1 THEN reload ELSE remain - 1
  BY DEF Quiet, Tick, TimerTick, queueVars, waiterVars, managerVars
<1>2. /\ clock \in Nat /\ last_dt \in Int /\ remain \in Nat /\ reload \in Nat /\ mnext \in Int
      /\ due \in [Waiters -> Nat]
      /\ last_dt >= 0 /\ remain >= 1 /\ reload >= 1 /\ mnext >= 0
  BY TimelyTypes DEF TimelyInv, FrozenInv
<1>3. ~Checking /\ (\A w \in Waiters : ~Requests(w)) /\ armer = None
  <2>1. ~Checking /\ (\A w \in Waiters : ~Requests(w))
    BY <1>1 DEF Checking, Requests
  <2>2. armer \in Waiters \cup {"manager", None}
    BY DEF WakeInv, IInv, TypeOK
  <2>3. (\A w \in Waiters : armer # w) /\ armer # "manager"
    BY <1>1 DEF WakeInv, ArmInv
  <2> QED
    BY <2>1, <2>2, <2>3
<1>4. ASSUME NEW w \in Queued
      PROVE  remain <= Left(w) /\ Left(w) \in Int /\ w \in Waiters
  <2>1. /\ queue # <<>> /\ Left(Head(queue)) \in Int /\ Left(w) \in Int
        /\ Left(Head(queue)) <= Left(w) /\ w \in Waiters
    BY HeadFirst, TimelyTypes
  <2>2. PICK t \in Int : t = Left(Head(queue))
    BY <2>1
  <2>3. Covered(t)
    BY <2>1, <2>2 DEF TimelyInv, HeadCovered
  <2>4. remain <= t
    BY <1>1, <1>3, <2>3 DEF Covered
  <2> QED
    BY <1>2, <2>1, <2>2, <2>4
<1>5. FrozenInv'
  <2>1. remain' >= 1
    BY <1>1, <1>2
  <2> QED
    BY <1>1, <1>2, <2>1 DEF FrozenInv, Requests
<1>6. OnTime'
  <2> SUFFICES ASSUME NEW w \in Queued PROVE clock' <= due'[w]
    BY <1>1 DEF OnTime, Queued
  <2>1. due[w] - clock >= 1 /\ due[w] \in Nat
    BY <1>2, <1>4 DEF Left
  <2> QED
    BY <1>1, <1>2, <2>1
<1>7. ClearInv'
  BY <1>1, <1>3, TimelyTypes DEF ClearInv
<1>8. HeadCovered'
  <2> SUFFICES ASSUME queue # <<>> PROVE Covered(Left(Head(queue)))'
    BY <1>1 DEF HeadCovered
  <2>1. PICK h \in Queued : h = Head(queue)
    BY HeadTailProperties, LenProperties, TimelyTypes DEF Queued, ToSet
  <2>2. CASE remain <= 1
    BY <1>1, <2>2 DEF Covered, Checking
  <2>3. CASE ~(remain <= 1)
    <3>1. Settled'
      BY <1>1, <1>3 DEF Settled, Requests
    <3>2. PICK t \in Int : t = Left(h)' /\ remain' <= t
      <4>1. Left(h)' \in Int /\ remain' <= Left(h)'
        BY <1>1, <1>2, <1>4, <2>3 DEF Left
      <4> QED
        BY <4>1
    <3>3. Left(Head(queue))' = t
      BY <1>1, <2>1, <3>2 DEF Left
    <3> QED
      BY <3>1, <3>2, <3>3 DEF Covered
  <2> QED
    BY <2>2, <2>3
<1> QED
  BY <1>5, <1>6, <1>7, <1>8 DEF TimelyInv

MCInv == WakeInv /\ late \in BOOLEAN /\ (~late => TimelyInv)

LEMMA InitMCInv == MCInit => MCInv
<1> SUFFICES ASSUME MCInit PROVE MCInv
  OBVIOUS
<1>1. WakeInv /\ late = FALSE
  BY InitWakeInv DEF MCInit
<1>2. /\ queue = <<>> /\ mpc = "check" /\ last_dt = 0 /\ armer = None
      /\ remain = BootPeriod /\ reload = BootPeriod /\ mnext = 0
      /\ \A w \in Waiters : pc[w] = "idle"
  BY DEF MCInit, Init, TimerInit
<1>3. FrozenInv
  <2>1. BootPeriod >= 1
    BY TimerAssumption
  <2> QED
    BY <1>2, <2>1 DEF FrozenInv, Requests
<1>4. ClearInv
  BY <1>2, TimelyTypes, <1>1 DEF ClearInv
<1>5. HeadCovered /\ OnTime
  BY <1>2 DEF HeadCovered, OnTime, Queued, ToSet
<1> QED
  BY <1>1, <1>3, <1>4, <1>5 DEF MCInv, TimelyInv

LEMMA StepMCInv == MCInv /\ [MCNext]_<<vars, late>> => MCInv'
<1> SUFFICES ASSUME MCInv, [MCNext]_<<vars, late>> PROVE MCInv'
  OBVIOUS
<1>1. CASE (Step \/ UNCHANGED vars) /\ late' = late
  <2>1. WakeInv'
    BY <1>1, StepWakeInv DEF MCInv, Next
  <2>2. late = FALSE => TimelyInv'
    BY <1>1, FrozenStep, ClearStep, CoverStep, OnTimeStep DEF MCInv, TimelyInv
  <2> QED
    BY <1>1, <2>1, <2>2 DEF MCInv
<1>2. CASE Tick /\ late' = (late \/ ~Quiet)
  <2>1. WakeInv'
    BY <1>2, StepWakeInv DEF MCInv, Next
  <2>2. late' \in BOOLEAN
    BY <1>2
  <2>3. ~late' => ~late /\ Quiet
    BY <1>2
  <2>4. ~late' => TimelyInv'
    BY <1>2, <2>3, TickStep DEF MCInv
  <2> QED
    BY <2>1, <2>2, <2>4 DEF MCInv
<1> QED
  BY <1>1, <1>2 DEF MCNext

(* Nobody wakes late: as long as every ready thread is run before the next *)
(* tick, no event stays queued past its deadline, whatever order the       *)
(* threads and the manager arm the timer in, though it clips long delays   *)
(* and leaves a more imminent one alone (timer.cpp:171-204,                *)
(* event.cpp:86-222).                                                      *)
THEOREM NobodyLate == MCSpec => []Punctual
<1>1. MCInv => Punctual
  BY DEF MCInv, TimelyInv, OnTime, Punctual
<1> QED
  BY <1>1, InitMCInv, StepMCInv, PTL DEF MCSpec
=============================================================================
