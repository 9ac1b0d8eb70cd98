----------------------------- MODULE LinuxQueue -----------------------------
(***************************************************************************)
(* Linux_Queue (src/linux/queue.cpp): a ring of Slots messages between two *)
(* semaphores.  The mutex is the creator's and may be null, in which case  *)
(* Lock does nothing and the steps of put() and get() interleave.          *)
(***************************************************************************)
EXTENDS Integers, Sequences, FiniteSets

CONSTANTS
  Producers,   \* the threads that call put()
  Consumers,   \* the threads that call get()
  Messages,
  Slots,       \* num
  Permits,     \* how often the constructor posts sem_put_wait: size - 1
  HasMutex,    \* Queue::create() was given a mutex
  MaxPuts      \* bound: calls of put()

None == "none"
Threads == Producers \cup Consumers

ASSUME LinuxQueueAssumption ==
  /\ Producers \cap Consumers = {} /\ IsFiniteSet(Threads)
  /\ None \notin Threads \cup Messages
  /\ Slots \in Nat \ {0}
  /\ Permits \in Nat
  /\ HasMutex \in BOOLEAN
  /\ MaxPuts \in Nat

VARIABLES
  data,    \* the slots
  in, out, count,
  semGet,  \* the count of sem_get_wait
  semPut,  \* the count of sem_put_wait
  mutex,   \* the holder of the mutex, or None
  pc,      \* where each thread is in put() or get()
  next,    \* put()'s and get()'s local next
  msg,     \* a producer's message; the caller's buffer of a consumer
  puts     \* calls of put() so far

ringVars == <<data, in, out, count>>
semVars == <<semGet, semPut>>
vars == <<ringVars, semVars, mutex, pc, next, msg, puts>>

Init ==
  /\ data = [i \in 0 .. Slots - 1 |-> None]
  /\ in = 0 /\ out = 0 /\ count = 0
  /\ semGet = 0
  /\ semPut = Permits
  /\ mutex = None
  /\ pc = [t \in Threads |-> "idle"]
  /\ next = [t \in Threads |-> 0]
  /\ msg = [t \in Threads |-> None]
  /\ puts = 0

Goto(t, label) == pc' = [pc EXCEPT ![t] = label]

Acquire(t) == mutex = None /\ mutex' = IF HasMutex THEN t ELSE None

-----------------------------------------------------------------------------
(* put()                                                                   *)

Put(p, m) ==
  /\ pc[p] = "idle"
  /\ puts < MaxPuts
  /\ puts' = puts + 1
  /\ msg' = [msg EXCEPT ![p] = m]
  /\ Goto(p, "put")
  /\ UNCHANGED <<ringVars, semVars, mutex, next>>

\* Faulty: the index of the next slot does not wrap.
PutLock_NoWrap(p) ==
  /\ pc[p] = "put"
  /\ Acquire(p)
  /\ next' = [next EXCEPT ![p] = in + 1]
  /\ Goto(p, "space")
  /\ UNCHANGED <<ringVars, semVars, msg, puts>>

PutLock(p) ==
  /\ pc[p] = "put"
  /\ Acquire(p)
  /\ next' = [next EXCEPT ![p] = (in + 1) % Slots]
  /\ Goto(p, "space")
  /\ UNCHANGED <<ringVars, semVars, msg, puts>>

\* Faulty: fills the last slot too, which makes a full ring look empty.
PutSpace_Full(p) ==
  /\ pc[p] = "space"
  /\ Goto(p, "write")
  /\ UNCHANGED <<ringVars, semVars, mutex, next, msg, puts>>

PutSpace(p) ==
  /\ pc[p] = "space"
  /\ \/ next[p] # out /\ Goto(p, "write") /\ UNCHANGED mutex
     \/ next[p] = out /\ Goto(p, "full") /\ mutex' = None
  /\ UNCHANGED <<ringVars, semVars, next, msg, puts>>

PutWrite(p) ==
  /\ pc[p] = "write"
  /\ data' = [data EXCEPT ![in] = msg[p]]
  /\ Goto(p, "advance")
  /\ UNCHANGED <<in, out, count, semVars, mutex, next, msg, puts>>

PutAdvance(p) ==
  /\ pc[p] = "advance"
  /\ in' = next[p]
  /\ Goto(p, "post")
  /\ UNCHANGED <<data, out, count, semVars, mutex, next, msg, puts>>

\* count, the post and the release of the mutex; put() returns.
PutPost(p) ==
  /\ pc[p] = "post"
  /\ count' = count + 1
  /\ semGet' = semGet + 1
  /\ mutex' = None
  /\ msg' = [msg EXCEPT ![p] = None]
  /\ next' = [next EXCEPT ![p] = 0]
  /\ Goto(p, "idle")
  /\ UNCHANGED <<data, in, out, semPut, puts>>

\* sem_put_wait->wait(), and round the loop.
PutWait(p) ==
  /\ pc[p] = "full"
  /\ semPut > 0
  /\ semPut' = semPut - 1
  /\ next' = [next EXCEPT ![p] = 0]
  /\ Goto(p, "put")
  /\ UNCHANGED <<ringVars, semGet, mutex, msg, puts>>

-----------------------------------------------------------------------------
(* get()                                                                   *)

Get(c) ==
  /\ pc[c] = "idle"
  /\ msg' = [msg EXCEPT ![c] = None]
  /\ Goto(c, "get")
  /\ UNCHANGED <<ringVars, semVars, mutex, next, puts>>

\* The timeout is ignored.
GetWait(c) ==
  /\ pc[c] = "get"
  /\ semGet > 0
  /\ semGet' = semGet - 1
  /\ Goto(c, "lock")
  /\ UNCHANGED <<ringVars, semPut, mutex, next, msg, puts>>

\* Faulty: get() does not take the mutex.
GetLock_None(c) ==
  /\ pc[c] = "lock"
  /\ Goto(c, "test")
  /\ UNCHANGED <<ringVars, semVars, mutex, next, msg, puts>>

GetLock(c) ==
  /\ pc[c] = "lock"
  /\ Acquire(c)
  /\ Goto(c, "test")
  /\ UNCHANGED <<ringVars, semVars, next, msg, puts>>

\* Faulty: reads the slot after the oldest message.
GetTest_Next(c) ==
  /\ pc[c] = "test"
  /\ IF in = out
       THEN mutex' = None /\ Goto(c, "idle") /\ UNCHANGED <<next, msg>>
       ELSE /\ next' = [next EXCEPT ![c] = (out + 1) % Slots]
            /\ msg' = [msg EXCEPT ![c] = data[next'[c]]]
            /\ Goto(c, "remove")
            /\ UNCHANGED mutex
  /\ UNCHANGED <<ringVars, semVars, puts>>

\* get() returns false, which only threads that share a queue without a mutex
\* bring about; or it reads the oldest message.
GetTest(c) ==
  /\ pc[c] = "test"
  /\ IF in = out
       THEN mutex' = None /\ Goto(c, "idle") /\ UNCHANGED <<next, msg>>
       ELSE /\ next' = [next EXCEPT ![c] = (out + 1) % Slots]
            /\ msg' = [msg EXCEPT ![c] = data[out]]
            /\ Goto(c, "remove")
            /\ UNCHANGED mutex
  /\ UNCHANGED <<ringVars, semVars, puts>>

GetAdvance(c) ==
  /\ pc[c] = "remove"
  /\ out' = next[c]
  /\ Goto(c, "post")
  /\ UNCHANGED <<data, in, count, semVars, mutex, next, msg, puts>>

\* Faulty: does not post sem_put_wait.
GetPost_Silent(c) ==
  /\ pc[c] = "post"
  /\ count' = count - 1
  /\ mutex' = None
  /\ next' = [next EXCEPT ![c] = 0]
  /\ Goto(c, "idle")
  /\ UNCHANGED <<data, in, out, semVars, msg, puts>>

\* get() returns true.
GetPost(c) ==
  /\ pc[c] = "post"
  /\ count' = count - 1
  /\ semPut' = semPut + 1
  /\ mutex' = None
  /\ next' = [next EXCEPT ![c] = 0]
  /\ Goto(c, "idle")
  /\ UNCHANGED <<data, in, out, semGet, msg, puts>>

-----------------------------------------------------------------------------
PutStep(p) ==
  PutLock(p) \/ PutSpace(p) \/ PutWrite(p) \/ PutAdvance(p) \/ PutPost(p) \/ PutWait(p)

GetStep(c) ==
  GetWait(c) \/ GetLock(c) \/ GetTest(c) \/ GetAdvance(c) \/ GetPost(c)

Next ==
  \/ \E p \in Producers : (\E m \in Messages : Put(p, m)) \/ PutStep(p)
  \/ \E c \in Consumers : Get(c) \/ GetStep(c)

Spec == Init /\ [][Next]_vars

\* The scheduler is fair to threads in put() and get(), and the consumers keep
\* asking, as BatchTask::run() does; nobody has to call put().
FairSpec ==
  /\ Spec
  /\ \A p \in Producers : SF_vars(PutStep(p))
  /\ \A c \in Consumers : SF_vars(Get(c) \/ GetStep(c))

-----------------------------------------------------------------------------
(* Properties.                                                             *)

TypeOK ==
  /\ data \in [0 .. Slots - 1 -> Messages \cup {None}]
  /\ in \in 0 .. Slots - 1 /\ out \in 0 .. Slots - 1
  /\ count \in Int
  /\ semGet \in Nat /\ semPut \in Nat
  /\ mutex \in Threads \cup {None}
  /\ pc \in [Threads -> {"idle", "put", "space", "write", "advance", "post", "full",
                         "get", "lock", "test", "remove"}]
  /\ next \in [Threads -> 0 .. Slots - 1]
  /\ msg \in [Threads -> Messages \cup {None}]
  /\ puts \in Nat

Used == (in - out) % Slots
Items == [i \in 1 .. Used |-> data[(out + i - 1) % Slots]]
At(labels) == {t \in Threads : pc[t] \in labels}
Count(S) == Cardinality(S)

\* put() and get() implement the bounded queue of queue.h: the ring, read from
\* out to in, is the queue; a message is queued when in moves and taken when
\* out moves.
Fifo == INSTANCE BoundedQueue
          WITH Capacity <- Slots - 1, Nothing <- None, items <- Items,
               putting <- [p \in Producers |-> IF pc[p] = "post" THEN None ELSE msg[p]],
               got <- [c \in Consumers |-> IF pc[c] = "remove" THEN None ELSE msg[c]]

IsFifo == Fifo!Spec

\* Every token of sem_get_wait, spent or not, stands for one queued message, so
\* a get() that has got past the semaphore finds one and never returns false
\* (queue.cpp:87-95).
TokensAreMessages ==
  semGet + Count(At({"lock", "test", "remove"}) \cap Consumers)
    + Count(At({"post"}) \cap Producers) = Used

\* A producer sleeps on sem_put_wait only while every free slot is accounted
\* for, by a permit or by a thread that will take the slot or post: no wake-up
\* is lost though the ring is tested before the semaphore is waited for.
NoLostPermit ==
  At({"full"}) # {} =>
    Slots - 1 - Used <= semPut + Count(At({"put", "space", "write", "advance"}))
                               + Count(At({"post"}) \cap Consumers)

\* The counts of both semaphores agree with the ring at every step (queue.cpp:108).
NobodySleepsInVain == TokensAreMessages /\ NoLostPermit

\* Every put() returns, however full the queue and however many threads compete
\* for it, as long as the consumers keep calling get() (queue.cpp:128).
PutReturns == \A p \in Producers : pc[p] = "put" ~> pc[p] = "idle"
=============================================================================
