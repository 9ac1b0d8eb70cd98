----------------------------- MODULE EventQueue -----------------------------
(***************************************************************************)
(* EventQueue (src/event.cpp, src/panglos/event.h): threads that wait on a *)
(* semaphore with a timeout, and the manager task that posts the semaphore *)
(* of every event whose time has come.                                     *)
(*                                                                         *)
(* An Event lives on the stack of the thread inside wait_absolute(), so it *)
(* is named by that thread: the queue is a sequence of Waiters.  A local   *)
(* that is not read again is set back to its initial value.                *)
(***************************************************************************)
EXTENDS Timer, SequencesExt

CONSTANTS
  Waiters,     \* the threads that call EventQueue::wait(), each on its semaphore
  Delays,      \* the values of wait()'s d_time
  LastCall,    \* bound: no deadline is later than this
  IdleWait,    \* the 10000 of EventQueue::run()
  SemMax,      \* a semaphore at this count drops a post (1: FreeRTOS binary)
  MaxPosts     \* bound: posts of a waiter's semaphore made by other code

ASSUME EventQueueAssumption ==
  /\ None \notin Waiters /\ "manager" \notin Waiters
  /\ Delays \subseteq Nat
  /\ LastCall \in 0 .. MaxClock
  /\ MaxClock < Half
  /\ IdleWait \in Nat \ {0}
  /\ SemMax \in Nat \ {0}
  /\ MaxPosts \in Nat

VARIABLES
  queue,   \* events: the list of queued events, soonest first
  mutex,   \* the holder of EventQueue::mutex across steps: "manager" or None
  time,    \* Event::time of each waiter's event
  due,     \* the deadline its caller meant, on the real clock
  seen,    \* wait_absolute()'s local now
  sem,     \* the count of each waiter's semaphore
  pc,      \* where each waiter is
  posts,   \* posts of a waiter's semaphore made elsewhere, so far
  mpc,     \* where the manager is
  mnow,    \* check()'s local now
  mnext,   \* run()'s local next
  mevent   \* check()'s local event, or None

waiterVars == <<time, due, seen, pc>>
managerVars == <<mpc, mnow, mnext, mevent>>
queueVars == <<queue, mutex, sem, posts>>
vars == <<timerVars, queueVars, waiterVars, managerVars>>

\* Faulty: compares the counter readings without the wrap.
timer_cmp_NoWrap(t1, t2) == t2 - t1

timer_cmp(t1, t2) == Signed(t2 - t1)

Init ==
  /\ TimerInit
  /\ queue = <<>>
  /\ mutex = None
  /\ time = [w \in Waiters |-> 0]
  /\ due = [w \in Waiters |-> 0]
  /\ seen = [w \in Waiters |-> 0]
  /\ sem = [w \in Waiters |-> 0]
  /\ pc = [w \in Waiters |-> "idle"]
  /\ posts = 0
  /\ mpc = "check"
  /\ mnow = 0
  /\ mnext = 0
  /\ mevent = None

-----------------------------------------------------------------------------
(* The list.                                                               *)

\* List::add_sorted with event_cmp: before the first event that is not sooner.
AddSorted(q, w) ==
  LET at == SelectInSeq(q, LAMBDA x : timer_cmp(time[w], time[x]) >= 0)
  IN  InsertAt(q, IF at = 0 THEN Len(q) + 1 ELSE at, w)

\* List::remove; a no-op when the event is not linked.
Unlink(q, w) == RemoveFirst(q, w)

\* Faulty: counts past the semaphore's limit.
Post_Unlimited(w) == sem' = [sem EXCEPT ![w] = @ + 1]

Post(w) == sem' = [sem EXCEPT ![w] = IF @ < SemMax THEN @ + 1 ELSE @]

-----------------------------------------------------------------------------
(* A thread in EventQueue::wait() and wait_absolute().                     *)

Goto(w, label) == pc' = [pc EXCEPT ![w] = label]

Return(w) ==
  /\ Goto(w, "idle")
  /\ time' = [time EXCEPT ![w] = 0]
  /\ due' = [due EXCEPT ![w] = 0]
  /\ seen' = [seen EXCEPT ![w] = 0]

\* wait(): a zero delay returns at once and is no step.
Wait(w, d) ==
  /\ pc[w] = "idle"
  /\ d > 0
  /\ clock + d <= LastCall
  /\ time' = [time EXCEPT ![w] = Unsigned(TimerNow + d)]
  /\ due' = [due EXCEPT ![w] = clock + d]
  /\ Goto(w, "absolute")
  /\ UNCHANGED <<timerVars, queueVars, seen, managerVars>>

\* Faulty: gives up one tick before the deadline.
NoPointWaiting_Early(w) ==
  /\ pc[w] = "absolute"
  /\ TimerNow + 1 >= time[w]
  /\ Return(w)
  /\ UNCHANGED <<timerVars, queueVars, managerVars>>

\* The test at the head of wait_absolute() compares unsigned readings.
NoPointWaiting(w) ==
  /\ pc[w] = "absolute"
  /\ TimerNow >= time[w]
  /\ Return(w)
  /\ UNCHANGED <<timerVars, queueVars, managerVars>>

MustWait(w) ==
  /\ pc[w] = "absolute"
  /\ TimerNow < time[w]
  /\ seen' = [seen EXCEPT ![w] = TimerNow]
  /\ Goto(w, "add")
  /\ UNCHANGED <<timerVars, queueVars, time, due, managerVars>>

Add(w) ==
  /\ pc[w] = "add"
  /\ mutex = None
  /\ queue' = AddSorted(queue, w)
  /\ Goto(w, IF Head(queue') = w THEN "reschedule" ELSE "block")
  /\ UNCHANGED <<timerVars, mutex, sem, posts, time, due, seen, managerVars>>

\* reschedule(d_timer_t(time - now)).  The board's Rescheduler is not in the
\* repository; what it has to do is timer_set(dt).
RescheduleDelay(w) == Signed(time[w] - seen[w])

Reschedule(w) ==
  /\ pc[w] = "reschedule"
  /\ \/ TimerSkip(RescheduleDelay(w)) /\ Goto(w, "block")
     \/ TimerClaim(w, RescheduleDelay(w)) /\ Goto(w, "arm")
  /\ UNCHANGED <<queueVars, time, due, seen, managerVars>>

Arm(w) ==
  /\ pc[w] = "arm"
  /\ TimerArm(w, RescheduleDelay(w))
  /\ Goto(w, "block")
  /\ UNCHANGED <<queueVars, time, due, seen, managerVars>>

Block(w) ==
  /\ pc[w] = "block"
  /\ sem[w] > 0
  /\ sem' = [sem EXCEPT ![w] = @ - 1]
  /\ Goto(w, "remove")
  /\ UNCHANGED <<timerVars, queue, mutex, posts, time, due, seen, managerVars>>

\* Faulty: unlinks the event without taking the queue's mutex.
Leave_Unlocked(w) ==
  /\ pc[w] = "remove"
  /\ queue' = Unlink(queue, w)
  /\ Return(w)
  /\ UNCHANGED <<timerVars, mutex, sem, posts, managerVars>>

\* Faulty: trusts the manager to have unlinked the event.
Leave_Linked(w) ==
  /\ pc[w] = "remove"
  /\ mutex = None
  /\ Return(w)
  /\ UNCHANGED <<timerVars, queueVars, managerVars>>

\* The event leaves the queue, if it is still there, and goes out of scope.
Leave(w) ==
  /\ pc[w] = "remove"
  /\ mutex = None
  /\ queue' = Unlink(queue, w)
  /\ Return(w)
  /\ UNCHANGED <<timerVars, mutex, sem, posts, managerVars>>

\* Other code signals the semaphore: RingBuffer::add() does, from an interrupt.
PostElsewhere(w) ==
  /\ posts < MaxPosts
  /\ posts' = posts + 1
  /\ Post(w)
  /\ UNCHANGED <<timerVars, queue, mutex, waiterVars, managerVars>>

Waiter(w) ==
  \/ \E d \in Delays : Wait(w, d)
  \/ NoPointWaiting(w) \/ MustWait(w) \/ Add(w) \/ Reschedule(w) \/ Arm(w)
  \/ Block(w) \/ Leave(w)

-----------------------------------------------------------------------------
(* The manager: EventQueue::run() calling check() and timer_wait().        *)

ReadNow ==
  /\ mpc = "check"
  /\ mnow' = TimerNow
  /\ mpc' = "lock"
  /\ UNCHANGED <<timerVars, queueVars, waiterVars, mnext, mevent>>

LockQueue ==
  /\ mpc = "lock"
  /\ mutex = None
  /\ mutex' = "manager"
  /\ mpc' = "loop"
  /\ UNCHANGED <<timerVars, queue, sem, posts, waiterVars, mnow, mnext, mevent>>

\* Faulty: an event is due one tick early.
UntilHead_Early == timer_cmp(mnow, time[Head(queue)]) - 1

UntilHead == timer_cmp(mnow, time[Head(queue)])

\* check() returns: 0 if the queue is empty, or the time until its head.
LeaveCheck ==
  /\ mpc = "loop"
  /\ \/ queue = <<>> /\ mnext' = 0
     \/ queue # <<>> /\ UntilHead > 0 /\ mnext' = UntilHead
  /\ mnow' = 0
  /\ mutex' = None
  /\ mpc' = "set"
  /\ UNCHANGED <<timerVars, queue, sem, posts, waiterVars, mevent>>

Expire ==
  /\ mpc = "loop"
  /\ queue # <<>>
  /\ UntilHead <= 0
  /\ mevent' = Head(queue)
  /\ mpc' = "unlink"
  /\ UNCHANGED <<timerVars, queueVars, waiterVars, mnow, mnext>>

\* Faulty: unlinks the rest of the list with its head.
UnlinkExpired_Tail ==
  /\ mpc = "unlink"
  /\ queue' = <<>>
  /\ mpc' = "post"
  /\ UNCHANGED <<timerVars, mutex, sem, posts, waiterVars, mnow, mnext, mevent>>

UnlinkExpired ==
  /\ mpc = "unlink"
  /\ queue' = Unlink(queue, mevent)
  /\ mpc' = "post"
  /\ UNCHANGED <<timerVars, mutex, sem, posts, waiterVars, mnow, mnext, mevent>>

PostExpired ==
  /\ mpc = "post"
  /\ Post(mevent)
  /\ mevent' = None
  /\ mpc' = "loop"
  /\ UNCHANGED <<timerVars, queue, mutex, posts, waiterVars, mnow, mnext>>

ManagerDelay == IF mnext = 0 THEN IdleWait ELSE mnext

ManagerSet ==
  /\ mpc = "set"
  /\ \/ TimerSkip(ManagerDelay) /\ mpc' = "take" /\ mnext' = 0
     \/ TimerClaim("manager", ManagerDelay) /\ mpc' = "arm" /\ UNCHANGED mnext
  /\ UNCHANGED <<queueVars, waiterVars, mnow, mevent>>

ManagerArm ==
  /\ mpc = "arm"
  /\ TimerArm("manager", ManagerDelay)
  /\ mpc' = "take"
  /\ mnext' = 0
  /\ UNCHANGED <<queueVars, waiterVars, mnow, mevent>>

ManagerTake ==
  /\ mpc = "take"
  /\ TimerTake
  /\ mpc' = "check"
  /\ UNCHANGED <<queueVars, waiterVars, mnow, mnext, mevent>>

Manager ==
  \/ ReadNow \/ LockQueue \/ LeaveCheck \/ Expire \/ UnlinkExpired \/ PostExpired
  \/ ManagerSet \/ ManagerArm \/ ManagerTake

-----------------------------------------------------------------------------
Irq == TimerIrq /\ UNCHANGED <<queueVars, waiterVars, managerVars>>

Tick == TimerTick /\ UNCHANGED <<queueVars, waiterVars, managerVars>>

Step ==
  \/ \E w \in Waiters : Waiter(w) \/ PostElsewhere(w)
  \/ Manager \/ Irq

Next == Step \/ Tick

Spec == Init /\ [][Next]_vars

\* The scheduler runs every ready thread, a waiter also when the manager keeps
\* taking the mutex it is after, and time goes on; nobody has to call wait() or
\* to post a semaphore.
WaiterStep(w) ==
  \/ NoPointWaiting(w) \/ MustWait(w) \/ Add(w) \/ Reschedule(w) \/ Arm(w)
  \/ Block(w) \/ Leave(w)

Fairness ==
  /\ \A w \in Waiters : SF_vars(WaiterStep(w))
  /\ WF_vars(Manager) /\ WF_vars(Irq) /\ WF_vars(Tick)
-----------------------------------------------------------------------------
(* Properties.                                                             *)

Labels == {"idle", "absolute", "add", "reschedule", "arm", "block", "remove"}
ManagerLabels == {"check", "lock", "loop", "unlink", "post", "set", "arm", "take"}

WaiterTypeOK ==
  /\ time \in [Waiters -> 0 .. Modulus - 1]
  /\ due \in [Waiters -> Nat]
  /\ seen \in [Waiters -> 0 .. Modulus - 1]
  /\ pc \in [Waiters -> Labels]

QueueTypeOK ==
  /\ queue \in Seq(Waiters)
  /\ mutex \in {"manager", None}
  /\ sem \in [Waiters -> 0 .. SemMax]
  /\ posts \in Nat

ManagerTypeOK ==
  /\ mpc \in ManagerLabels
  /\ mnow \in Int
  /\ mnext \in Int
  /\ mevent \in Waiters \cup {None}

\* Every variable of the timer, the queue, the waiters and the manager has its
\* type; a semaphore never counts past its limit (the members of timer.h and
\* event.h, and the locals of check() and run()).
TypeOK ==
  /\ TimerTypeOK /\ armer \in Waiters \cup {"manager", None}
  /\ WaiterTypeOK /\ QueueTypeOK /\ ManagerTypeOK

Queued == ToSet(queue)

\* The event of w is on the stack of a call that has passed add().
Alive(w) == pc[w] \in {"reschedule", "arm", "block", "remove"}

\* The list links only events whose wait_absolute() has not returned, and the
\* event check() has picked is still one of them when it is unlinked: nobody
\* follows a pointer into the stack of a thread that went on (event.cpp:147-151).
EventsAlive ==
  /\ \A w \in Queued : Alive(w)
  /\ mpc = "unlink" => mevent \in Queued

\* No event is linked twice: add_sorted() on a linked event would lose the tail
\* of the list or tie it into a loop.
LinkedOnce == \A i, j \in DOMAIN queue : queue[i] = queue[j] => i = j

\* The list is in the order of the real deadlines, though events are compared by
\* counter readings that may have wrapped in between (event.cpp:14-20).
SoonestFirst ==
  \A i, j \in DOMAIN queue : i < j => due[queue[i]] <= due[queue[j]]

\* The list as check() relies on it: each event once, the soonest first.
LinkedInOrder == LinkedOnce /\ SoonestFirst

\* As long as nobody posts a semaphore elsewhere, a thread that did block wakes
\* no earlier than its deadline.
WakesNotEarly ==
  [][\A w \in Waiters :
       Block(w) /\ posts = 0 => clock >= due[w]]_vars

\* wait_absolute() gives up before queueing only if the deadline has come:
\* "no point in waiting" (event.cpp:169).
GivesUpWhenDue ==
  [][\A w \in Waiters : NoPointWaiting(w) => clock >= due[w]]_vars

\* The counter does not wrap between now and the deadline of w.
SamePass(w) == (Start + clock) \div Modulus = (Start + due[w]) \div Modulus

\* The same for a deadline the counter reaches without a wrap; wait_absolute()
\* compares the readings without regard to it (event.cpp:167).
GivesUpInPass ==
  [][\A w \in Waiters : NoPointWaiting(w) /\ SamePass(w) => clock >= due[w]]_vars

\* When timer_set() leaves the timer alone because it is "already waiting for a
\* more imminent event" (timer.cpp:187), the timer does fire soon enough for
\* this request too, unless reschedule() was asked for a delay already past.
SkipIsSound ==
  [][last_dt > 0 =>
       /\ \A w \in Waiters :
            (pc[w] = "reschedule" /\ pc'[w] = "block") => remain <= RescheduleDelay(w)
       /\ (mpc = "set" /\ mpc' = "take") => remain <= ManagerDelay]_vars

\* No thread gives up or wakes before its deadline, and the timer is left alone only
\* if it fires soon enough (event.cpp:167, timer.cpp:187).
WakesAreRight == SkipIsSound /\ WakesNotEarly /\ GivesUpInPass

\* Every wait() returns, with or without posts from elsewhere: as the bound
\* LastCall ends the calls, all threads are out of it from some time on.
WaitReturns == <>[](\A w \in Waiters : pc[w] = "idle")
=============================================================================
