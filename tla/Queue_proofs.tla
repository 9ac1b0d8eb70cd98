---------------------------- MODULE Queue_proofs ----------------------------
(***************************************************************************)
(* For every number of threads, slots and permits: Linux_Queue implements  *)
(* the bounded queue, and the counts of its two semaphores agree with the  *)
(* ring, provided that it was given a mutex or has one thread on each side.*)
(* The queue of src/batch.cpp has no mutex: with one client every job of   *)
(* its task runs once, in the order the client queued them, and before the *)
(* destructor returns.                                                     *)
(***************************************************************************)
EXTENDS BatchTask, ListLemmas

\* What the threads that share a queue owe it: a mutex, or one producer and one
\* consumer (the two uses in src/: with a mutex in the tests, without in batch.cpp).
Shared ==
  \/ HasMutex
  \/ /\ \A p, q \in Producers : p = q
     /\ \A c, d \in Consumers : c = d

-----------------------------------------------------------------------------
(* The inductive invariant.                                                *)

\* put() and get() have labels of their own.
RolesInv ==
  /\ \A p \in Producers :
       pc[p] \in {"idle", "put", "space", "write", "advance", "post", "full"}
  /\ \A c \in Consumers : pc[c] \in {"idle", "get", "lock", "test", "remove", "post"}

\* The threads between Lock's constructor and its destructor.
Inside(t) == pc[t] \in {"space", "write", "advance", "test", "remove", "post"}

\* The mutex is held by the thread that is inside, if there is one; in any case
\* no two producers, and no two consumers, are inside.
MutexInv ==
  /\ \A t \in Threads : HasMutex => (Inside(t) <=> mutex = t)
  /\ ~HasMutex => mutex = None
  /\ \A p, q \in Producers : Inside(p) /\ Inside(q) => p = q
  /\ \A c, d \in Consumers : Inside(c) /\ Inside(d) => c = d

\* The local variables of a producer agree with the ring, which a consumer may
\* change meanwhile: it moves out, but never past in.
PutInv ==
  \A p \in Producers :
    /\ pc[p] \in {"idle", "post"} \/ msg[p] \in Messages
    /\ pc[p] = "idle" => msg[p] = None
    /\ pc[p] \in {"space", "write", "advance"} => next[p] = (in + 1) % Slots
    /\ pc[p] \in {"write", "advance"} => next[p] # out
    /\ pc[p] = "advance" => data[in] = msg[p]

\* A consumer has an empty buffer until it has read the oldest message, and
\* that message stays where it is until it is removed.
GetInv ==
  \A c \in Consumers :
    /\ pc[c] \in {"get", "lock", "test"} => msg[c] = None
    /\ pc[c] = "remove" =>
         /\ in # out
         /\ next[c] = (out + 1) % Slots
         /\ msg[c] = data[out]

\* The ring between out and in holds messages.
RingInv == \A i \in 1 .. Used : Items[i] \in Messages

\* The tokens of sem_get_wait and the permits of sem_put_wait.
IInv == TypeOK /\ RolesInv /\ MutexInv /\ PutInv /\ GetInv /\ RingInv
CountInv == IInv /\ TokensAreMessages /\ NoLostPermit

-----------------------------------------------------------------------------
(* The ring.                                                               *)

\* The slot of the i-th message.
SlotOf(i) == IF out + i - 1 < Slots THEN out + i - 1 ELSE out + i - 1 - Slots

\* What Used and Items are.
RingShape ==
  /\ Used = IF in >= out THEN in - out ELSE in - out + Slots
  /\ Used \in 0 .. Slots - 1
  /\ in # out <=> Used > 0
  /\ Len(Items) = Used
  /\ Items \in Seq(Messages \cup {None})
  /\ DOMAIN Items = 1 .. Used
  /\ \A i \in 1 .. Used : SlotOf(i) \in 0 .. Slots - 1 /\ Items[i] = data[SlotOf(i)]

LEMMA RingFacts == TypeOK => RingShape
<1> SUFFICES ASSUME TypeOK PROVE RingShape
  OBVIOUS
<1> USE DEF TypeOK
<1>0. Slots \in Nat \ {0}
  BY LinuxQueueAssumption
<1>1. Used = IF in >= out THEN in - out ELSE in - out + Slots
  <2>1. CASE in >= out
    <3>1. in - out \in 0 .. Slots - 1
      BY <1>0, <2>1
    <3> QED
      BY <1>0, <2>1, <3>1, WrapFacts DEF Used
  <2>2. CASE ~(in >= out)
    <3>1. in - out \in -Slots .. -1
      BY <1>0, <2>2
    <3> QED
      BY <1>0, <2>2, <3>1, WrapFacts DEF Used
  <2> QED
    BY <2>1, <2>2
<1>2. Used \in 0 .. Slots - 1 /\ (in # out <=> Used > 0)
  BY <1>0, <1>1
<1>3. ASSUME NEW i \in 1 .. Used
      PROVE  SlotOf(i) \in 0 .. Slots - 1 /\ (out + i - 1) % Slots = SlotOf(i)
  <2>1. i \in Int /\ 1 <= i /\ i <= Slots - 1
    BY <1>0, <1>2
  <2>2. CASE out + i - 1 < Slots
    <3>1. out + i - 1 \in 0 .. Slots - 1
      BY <1>0, <2>1, <2>2
    <3> QED
      BY <1>0, <2>2, <3>1, WrapFacts DEF SlotOf
  <2>3. CASE ~(out + i - 1 < Slots)
    <3>1. PICK a \in Int : a = out + i - 1
      BY <1>0, <2>1
    <3>2. a \in Slots .. 2 * Slots - 1
      BY <1>0, <2>1, <2>3, <3>1
    <3>3. a % Slots = a - Slots
      BY <1>0, <3>2, WrapFacts
    <3> QED
      BY <1>0, <2>1, <2>3, <3>1, <3>2, <3>3 DEF SlotOf
  <2> QED
    BY <2>2, <2>3
<1>4. \A i \in 1 .. Used : Items[i] = data[SlotOf(i)]
  BY <1>3 DEF Items
<1>5. Items \in [1 .. Used -> Messages \cup {None}]
  BY <1>3 DEF Items
<1>6. Items \in Seq(Messages \cup {None})
  BY <1>2, <1>5, SeqDef
<1>7. Len(Items) = Used /\ DOMAIN Items = 1 .. Used
  BY <1>2, <1>5, <1>6, LenProperties
<1> QED
  BY <1>1, <1>2, <1>3, <1>4, <1>6, <1>7 DEF RingShape

LEMMA RingFactsNext == TypeOK' => RingShape'
  BY RingFacts, PTL

\* What a producer writes is not yet part of the queue.
LEMMA WriteKeepsItems ==
  ASSUME TypeOK, TypeOK', (in + 1) % Slots # out, NEW m,
         data' = [data EXCEPT ![in] = m], in' = in, out' = out
  PROVE  Used' = Used /\ Items' = Items
<1>0. Slots \in Nat \ {0} /\ in \in 0 .. Slots - 1 /\ out \in 0 .. Slots - 1
  BY LinuxQueueAssumption DEF TypeOK
<1>1. Used' = Used
  BY DEF Used
<1>2. (in + 1) % Slots = IF in + 1 = Slots THEN 0 ELSE in + 1
  BY <1>0, SuccWraps
<1>3. ASSUME NEW i \in 1 .. Used PROVE SlotOf(i) # in
  <2>1. i \in Int /\ 1 <= i /\ i <= Used
    OBVIOUS
  <2> QED
    BY <1>0, <1>2, <2>1, RingFacts DEF RingShape, SlotOf
<1>4. \A i \in 1 .. Used : (SlotOf(i))' = SlotOf(i)
  BY DEF SlotOf
<1>5. \A i \in 1 .. Used : Items'[i] = Items[i]
  <2>1. \A i \in 1 .. Used : Items'[i] = data'[SlotOf(i)]
    <3>1. (\A i \in 1 .. Used : Items[i] = data[SlotOf(i)])'
      BY RingFactsNext DEF RingShape
    <3> QED
      BY <1>1, <1>4, <3>1
  <2>2. \A i \in 1 .. Used : SlotOf(i) \in 0 .. Slots - 1 /\ Items[i] = data[SlotOf(i)]
    BY RingFacts DEF RingShape
  <2> QED
    BY <1>3, <2>1, <2>2 DEF TypeOK
<1> QED
  BY <1>1, <1>5 DEF Items

\* A message is queued when in moves.
LEMMA AdvanceAppends ==
  ASSUME TypeOK, TypeOK', (in + 1) % Slots # out,
         data' = data, in' = (in + 1) % Slots, out' = out
  PROVE  /\ Used' = Used + 1 /\ Used < Slots - 1
         /\ Items' = Append(Items, data[in])
<1>0. Slots \in Nat \ {0} /\ in \in 0 .. Slots - 1 /\ out \in 0 .. Slots - 1
  BY LinuxQueueAssumption DEF TypeOK
<1>1. (in + 1) % Slots = IF in + 1 = Slots THEN 0 ELSE in + 1
  BY <1>0, SuccWraps
<1>2. /\ Used = IF in >= out THEN in - out ELSE in - out + Slots
      /\ Used \in 0 .. Slots - 1
  BY RingFacts DEF RingShape
<1>3. Used' = IF in' >= out' THEN in' - out' ELSE in' - out' + Slots
  <2>1. (Used = IF in >= out THEN in - out ELSE in - out + Slots)'
    BY RingFactsNext DEF RingShape
  <2> QED
    BY <2>1
<1>4. Used' = Used + 1 /\ Used < Slots - 1
  BY <1>0, <1>1, <1>2, <1>3
<1>5. \A i \in 1 .. Used + 1 : (SlotOf(i))' = SlotOf(i)
  BY DEF SlotOf
<1>6. SlotOf(Used + 1) = in
  BY <1>0, <1>2 DEF SlotOf
<1>7. \A i \in 1 .. Used + 1 : Items'[i] = data[SlotOf(i)]
  <2>1. (\A i \in 1 .. Used : Items[i] = data[SlotOf(i)])'
    BY RingFactsNext DEF RingShape
  <2> QED
    BY <1>4, <1>5, <2>1
<1>8. \A i \in 1 .. Used : Items[i] = data[SlotOf(i)]
  BY RingFacts DEF RingShape
<1>9. /\ Items \in Seq(Messages \cup {None}) /\ Len(Items) = Used
      /\ Items' \in Seq(Messages \cup {None}) /\ Len(Items') = Used + 1
  <2>1. (Items \in Seq(Messages \cup {None}) /\ Len(Items) = Used)'
    BY RingFactsNext DEF RingShape
  <2> QED
    BY <1>4, <2>1, RingFacts DEF RingShape
<1>10. data[in] \in Messages \cup {None}
  BY <1>0 DEF TypeOK
<1>11. /\ Append(Items, data[in]) \in Seq(Messages \cup {None})
       /\ Len(Append(Items, data[in])) = Used + 1
       /\ \A i \in 1 .. Used : Append(Items, data[in])[i] = Items[i]
       /\ Append(Items, data[in])[Used + 1] = data[in]
  BY <1>9, <1>10, AppendProperties
<1>12. \A i \in 1 .. Used + 1 : Items'[i] = Append(Items, data[in])[i]
  BY <1>2, <1>6, <1>7, <1>8, <1>11
<1>13. Items' = Append(Items, data[in])
  BY <1>9, <1>11, <1>12, SeqEqual
<1> QED
  BY <1>4, <1>13

\* The oldest message is taken when out moves.
LEMMA RemoveTakesOldest ==
  ASSUME TypeOK, TypeOK', in # out,
         data' = data, in' = in, out' = (out + 1) % Slots
  PROVE  /\ Used' = Used - 1 /\ Used > 0
         /\ Items # <<>>
         /\ Items' = Tail(Items) /\ Head(Items) = data[out]
<1>0. Slots \in Nat \ {0} /\ in \in 0 .. Slots - 1 /\ out \in 0 .. Slots - 1
  BY LinuxQueueAssumption DEF TypeOK
<1>1. (out + 1) % Slots = IF out + 1 = Slots THEN 0 ELSE out + 1
  BY <1>0, SuccWraps
<1>2. /\ Used = IF in >= out THEN in - out ELSE in - out + Slots
      /\ Used \in 0 .. Slots - 1
  BY RingFacts DEF RingShape
<1>3. Used' = IF in' >= out' THEN in' - out' ELSE in' - out' + Slots
  <2>1. (Used = IF in >= out THEN in - out ELSE in - out + Slots)'
    BY RingFactsNext DEF RingShape
  <2> QED
    BY <2>1
<1>4. Used' = Used - 1 /\ Used > 0
  BY <1>0, <1>1, <1>2, <1>3
<1>5. \A i \in 1 .. Used - 1 : (SlotOf(i))' = SlotOf(i + 1)
  BY <1>0, <1>1, <1>2 DEF SlotOf
<1>6. SlotOf(1) = out
  BY <1>0 DEF SlotOf
<1>7. \A i \in 1 .. Used - 1 : Items'[i] = data[SlotOf(i + 1)]
  <2>1. (\A i \in 1 .. Used : Items[i] = data[SlotOf(i)])'
    BY RingFactsNext DEF RingShape
  <2> QED
    BY <1>4, <1>5, <2>1
<1>8. \A i \in 1 .. Used : Items[i] = data[SlotOf(i)]
  BY RingFacts DEF RingShape
<1>9. /\ Items \in Seq(Messages \cup {None}) /\ Len(Items) = Used
      /\ Items' \in Seq(Messages \cup {None}) /\ Len(Items') = Used - 1
  <2>1. (Items \in Seq(Messages \cup {None}) /\ Len(Items) = Used)'
    BY RingFactsNext DEF RingShape
  <2> QED
    BY <1>4, <2>1, RingFacts DEF RingShape
<1>10. Items # <<>>
  BY <1>4, <1>9, EmptySeq
<1>11. /\ Tail(Items) \in Seq(Messages \cup {None}) /\ Len(Tail(Items)) = Used - 1
       /\ \A i \in 1 .. Used - 1 : Tail(Items)[i] = Items[i + 1]
       /\ Head(Items) = Items[1]
  BY <1>9, <1>10, HeadTailProperties
<1>12. \A i \in 1 .. Used - 1 : Items'[i] = Tail(Items)[i]
  BY <1>2, <1>7, <1>8, <1>11
<1>13. Items' = Tail(Items)
  BY <1>9, <1>11, <1>12, SeqEqual
<1> QED
  BY <1>2, <1>4, <1>6, <1>8, <1>10, <1>11, <1>13

-----------------------------------------------------------------------------
(* The invariant holds at first, and every step keeps it.                  *)

LEMMA InitIInv == Init => IInv
<1> SUFFICES ASSUME Init PROVE IInv
  OBVIOUS
<1>1. TypeOK
  BY LinuxQueueAssumption DEF Init, TypeOK
<1>2. Used = 0
  BY <1>1, RingFacts DEF Init, RingShape
<1>3. RolesInv /\ MutexInv /\ PutInv /\ GetInv
  BY LinuxQueueAssumption
     DEF Init, RolesInv, MutexInv, PutInv, GetInv, Inside, Threads
<1>4. RingInv
  BY <1>2 DEF RingInv
<1> QED
  BY <1>1, <1>3, <1>4 DEF IInv

LEMMA NextSlot ==
  ASSUME TypeOK
  PROVE  (in + 1) % Slots \in 0 .. Slots - 1 /\ (out + 1) % Slots \in 0 .. Slots - 1
  BY LinuxQueueAssumption, WrapFacts DEF TypeOK

\* Steps that leave the ring alone.
LEMMA SameRing ==
  ASSUME UNCHANGED <<data, in, out>>
  PROVE  /\ Used' = Used /\ Items' = Items
         /\ RingInv => RingInv'
<1>1. Used' = Used
  BY DEF Used
<1>2. Items' = Items
  BY <1>1 DEF Items
<1> QED
  BY <1>1, <1>2 DEF RingInv

LEMMA PutTyped ==
  ASSUME TypeOK, NEW p \in Producers, (\E m \in Messages : Put(p, m)) \/ PutStep(p)
  PROVE  TypeOK'
<1>0. None \notin Threads /\ Slots \in Nat \ {0} /\ HasMutex \in BOOLEAN
      /\ 0 \in 0 .. Slots - 1
  BY LinuxQueueAssumption
<1>1. CASE \E m \in Messages : Put(p, m)
  BY <1>1 DEF Threads, TypeOK, Put, Goto, ringVars, semVars
<1>2. CASE PutLock(p)
  BY <1>0, <1>2, NextSlot DEF Threads, TypeOK, PutLock, Acquire, Goto, ringVars, semVars
<1>3. CASE PutSpace(p)
  BY <1>3 DEF Threads, TypeOK, PutSpace, Goto, ringVars, semVars
<1>4. CASE PutWrite(p)
  BY <1>4 DEF Threads, TypeOK, PutWrite, Goto, semVars
<1>5. CASE PutAdvance(p)
  BY <1>5 DEF Threads, TypeOK, PutAdvance, Goto, semVars
<1>6. CASE PutPost(p)
  BY <1>0, <1>6 DEF Threads, TypeOK, PutPost, Goto, semVars
<1>7. CASE PutWait(p)
  BY <1>0, <1>7 DEF Threads, TypeOK, PutWait, Goto, ringVars
<1> QED
  BY <1>1, <1>2, <1>3, <1>4, <1>5, <1>6, <1>7 DEF PutStep

LEMMA GetTyped ==
  ASSUME TypeOK, NEW c \in Consumers, Get(c) \/ GetStep(c)
  PROVE  TypeOK'
<1>0. Slots \in Nat \ {0} /\ HasMutex \in BOOLEAN /\ 0 \in 0 .. Slots - 1
  BY LinuxQueueAssumption
<1>1. CASE Get(c)
  BY <1>1 DEF Threads, TypeOK, Get, Goto, ringVars, semVars
<1>2. CASE GetWait(c)
  BY <1>2 DEF Threads, TypeOK, GetWait, Goto, ringVars
<1>3. CASE GetLock(c)
  BY <1>0, <1>3 DEF Threads, TypeOK, GetLock, Acquire, Goto, ringVars, semVars
<1>4. CASE GetTest(c)
  BY <1>4, NextSlot DEF Threads, TypeOK, GetTest, Goto, ringVars, semVars
<1>5. CASE GetAdvance(c)
  BY <1>5 DEF Threads, TypeOK, GetAdvance, Goto, semVars
<1>6. CASE GetPost(c)
  BY <1>0, <1>6 DEF Threads, TypeOK, GetPost, Goto
<1> QED
  BY <1>1, <1>2, <1>3, <1>4, <1>5, <1>6 DEF GetStep

\* What one thread does leaves the place and the local variables of the others.
LEMMA PutOnlyOwn ==
  ASSUME TypeOK, NEW p \in Producers, (\E m \in Messages : Put(p, m)) \/ PutStep(p)
  PROVE  \A t \in Threads \ {p} : pc'[t] = pc[t] /\ next'[t] = next[t] /\ msg'[t] = msg[t]
<1> USE DEF Goto
<1>1. DOMAIN pc = Threads /\ DOMAIN next = Threads /\ DOMAIN msg = Threads
  BY DEF TypeOK
<1>2. CASE \E m \in Messages : Put(p, m)
  BY <1>1, <1>2 DEF Put
<1>3. CASE PutLock(p)
  BY <1>1, <1>3 DEF PutLock
<1>4. CASE PutSpace(p)
  BY <1>1, <1>4 DEF PutSpace
<1>5. CASE PutWrite(p) \/ PutAdvance(p)
  BY <1>1, <1>5 DEF PutWrite, PutAdvance
<1>6. CASE PutPost(p)
  BY <1>1, <1>6 DEF PutPost
<1>7. CASE PutWait(p)
  BY <1>1, <1>7 DEF PutWait
<1> QED
  BY <1>2, <1>3, <1>4, <1>5, <1>6, <1>7 DEF PutStep

LEMMA GetOnlyOwn ==
  ASSUME TypeOK, NEW c \in Consumers, Get(c) \/ GetStep(c)
  PROVE  \A t \in Threads \ {c} : pc'[t] = pc[t] /\ next'[t] = next[t] /\ msg'[t] = msg[t]
<1> USE DEF Goto
<1>1. DOMAIN pc = Threads /\ DOMAIN next = Threads /\ DOMAIN msg = Threads
  BY DEF TypeOK
<1>2. CASE Get(c)
  BY <1>1, <1>2 DEF Get
<1>3. CASE GetWait(c)
  BY <1>1, <1>3 DEF GetWait
<1>4. CASE GetLock(c)
  BY <1>1, <1>4 DEF GetLock
<1>5. CASE GetTest(c)
  BY <1>1, <1>5 DEF GetTest
<1>6. CASE GetAdvance(c)
  BY <1>1, <1>6 DEF GetAdvance
<1>7. CASE GetPost(c)
  BY <1>1, <1>7 DEF GetPost
<1> QED
  BY <1>2, <1>3, <1>4, <1>5, <1>6, <1>7 DEF GetStep

LEMMA PutKeeps ==
  ASSUME Shared, IInv, NEW p \in Producers,
         (\E m \in Messages : Put(p, m)) \/ PutStep(p)
  PROVE  IInv'
<1>0. /\ TypeOK /\ RolesInv /\ MutexInv /\ PutInv /\ GetInv /\ RingInv
      /\ p \in Threads /\ p \notin Consumers
  BY LinuxQueueAssumption DEF IInv, Threads
<1>1. TypeOK'
  BY <1>0, PutTyped
<1>2. RolesInv'
  BY <1>0
     DEF RolesInv, TypeOK, PutStep, Put, PutLock, PutSpace, PutWrite, PutAdvance, PutPost,
         PutWait, Goto, Threads
<1>3. MutexInv'
  <2>1. CASE PutLock(p)
    <3>1. HasMutex => \A t \in Threads : ~Inside(t)
      BY <1>0, <2>1, LinuxQueueAssumption DEF PutLock, Acquire, MutexInv
    <3>2. \A t \in Threads : Inside(t)' <=> (Inside(t) \/ t = p)
      BY <1>0, <2>1 DEF PutLock, Goto, Inside, TypeOK
    <3>3. \A t \in Threads : HasMutex => (Inside(t)' <=> mutex' = t)
      BY <1>0, <2>1, <3>1, <3>2 DEF PutLock, Acquire
    <3>4. ~HasMutex => mutex' = None
      BY <2>1 DEF PutLock, Acquire
    <3> QED
      BY <1>0, <3>1, <3>2, <3>3, <3>4 DEF MutexInv, Shared, Threads
  <2>2. CASE (\E m \in Messages : Put(p, m)) \/ PutWrite(p) \/ PutAdvance(p) \/ PutWait(p)
    <3>1. (\A t \in Threads : Inside(t)' <=> Inside(t)) /\ mutex' = mutex
      BY <1>0, <2>2 DEF Put, PutWrite, PutAdvance, PutWait, Goto, Inside, TypeOK
    <3> QED
      BY <1>0, <3>1 DEF MutexInv, Threads
  <2>3. CASE PutSpace(p) \/ PutPost(p)
    <3>1. Inside(p)
      BY <2>3 DEF PutSpace, PutPost, Inside
    <3>2. \/ (\A t \in Threads : Inside(t)' <=> Inside(t)) /\ mutex' = mutex
          \/ (\A t \in Threads : Inside(t)' <=> Inside(t) /\ t # p) /\ mutex' = None
      BY <1>0, <2>3 DEF PutSpace, PutPost, Goto, Inside, TypeOK
    <3> QED
      BY <1>0, <3>1, <3>2, LinuxQueueAssumption DEF MutexInv, Threads
  <2> QED
    BY <2>1, <2>2, <2>3 DEF PutStep
<1>4. PutInv'
  <2>1. ASSUME NEW q \in Producers, q # p
        PROVE  /\ pc'[q] = pc[q] /\ next'[q] = next[q] /\ msg'[q] = msg[q]
               /\ Inside(p) => ~Inside(q)
    <3>1. Inside(p) => ~Inside(q)
      BY <1>0, <2>1 DEF MutexInv
    <3> QED
      BY <1>0, <2>1, <3>1, PutOnlyOwn DEF Threads
  <2>2. CASE (\E m \in Messages : Put(p, m)) \/ PutLock(p) \/ PutSpace(p) \/ PutWait(p)
    <3>1. UNCHANGED <<data, in, out>>
      BY <2>2 DEF Put, PutLock, PutSpace, PutWait, ringVars
    <3>2. DOMAIN pc = Threads /\ DOMAIN next = Threads /\ DOMAIN msg = Threads
      BY <1>0 DEF TypeOK
    <3>3. /\ pc'[p] \in {"idle", "post"} \/ msg'[p] \in Messages
          /\ pc'[p] = "idle" => msg'[p] = None
          /\ pc'[p] \in {"space", "write", "advance"} => next'[p] = (in + 1) % Slots
          /\ pc'[p] \in {"write", "advance"} => next'[p] # out
          /\ pc'[p] # "advance"
      <4>1. CASE \E m \in Messages : Put(p, m)
        BY <1>0, <3>2, <4>1 DEF Put, Goto
      <4>2. CASE PutLock(p)
        BY <1>0, <3>2, <4>2 DEF PutInv, PutLock, Goto
      <4>3. CASE PutSpace(p)
        BY <1>0, <3>2, <4>3 DEF PutInv, PutSpace, Goto
      <4>4. CASE PutWait(p)
        BY <1>0, <3>2, <4>4 DEF PutInv, PutWait, Goto
      <4> QED
        BY <2>2, <4>1, <4>2, <4>3, <4>4
    <3> QED
      BY <1>0, <2>1, <3>1, <3>3 DEF PutInv
  <2>3. CASE PutWrite(p)
    BY <1>0, <2>1, <2>3, LinuxQueueAssumption
       DEF PutInv, TypeOK, PutWrite, Goto, Threads, Inside
  <2>4. CASE PutAdvance(p) \/ PutPost(p)
    BY <1>0, <2>1, <2>4 DEF PutInv, TypeOK, PutAdvance, PutPost, Goto, Threads, Inside
  <2> QED
    BY <2>2, <2>3, <2>4 DEF PutStep
<1>5. GetInv'
  <2>1. \A c \in Consumers : pc'[c] = pc[c] /\ next'[c] = next[c] /\ msg'[c] = msg[c]
    BY <1>0, PutOnlyOwn DEF Threads
  <2>2. \/ UNCHANGED <<data, in, out>>
        \/ data' = [data EXCEPT ![in] = msg[p]] /\ UNCHANGED <<in, out>>
        \/ in' # out /\ UNCHANGED <<data, out>>
    <3>1. CASE PutWrite(p)
      BY <3>1 DEF PutWrite
    <3>2. CASE PutAdvance(p)
      BY <1>0, <3>2, LinuxQueueAssumption, NextSlot DEF PutAdvance, PutInv, TypeOK
    <3>3. CASE ~PutWrite(p) /\ ~PutAdvance(p)
      BY <3>3 DEF PutStep, Put, PutLock, PutSpace, PutPost, PutWait, ringVars
    <3> QED
      BY <3>1, <3>2, <3>3
  <2>3. ASSUME NEW c \in Consumers, pc[c] = "remove", in # out
        PROVE  in' # out' /\ out' = out /\ data'[out] = data[out]
    BY <1>0, <2>2, <2>3 DEF TypeOK
  <2> QED
    BY <1>0, <2>1, <2>3 DEF GetInv
<1>6. RingInv'
  <2>1. CASE PutWrite(p)
    <3>1. Used' = Used /\ Items' = Items
      BY <1>0, <1>1, <2>1, WriteKeepsItems DEF PutWrite, PutInv
    <3> QED
      BY <1>0, <3>1 DEF RingInv
  <2>2. CASE PutAdvance(p)
    <3>1. data[in] \in Messages
      BY <1>0, <2>2 DEF PutAdvance, PutInv
    <3>2. Used' = Used + 1 /\ Items' = Append(Items, data[in])
      BY <1>0, <1>1, <2>2, AdvanceAppends DEF PutAdvance, PutInv
    <3>3. /\ Items \in Seq(Messages \cup {None}) /\ Len(Items) = Used
          /\ Used \in Nat
      BY <1>0, RingFacts DEF RingShape
    <3>4. \A i \in 1 .. Used + 1 : Items'[i] = IF i = Used + 1 THEN data[in] ELSE Items[i]
      BY <3>1, <3>2, <3>3, AppendProperties
    <3> QED
      BY <1>0, <3>1, <3>2, <3>3, <3>4 DEF RingInv
  <2>3. CASE ~PutWrite(p) /\ ~PutAdvance(p)
    <3>1. UNCHANGED <<data, in, out>>
      BY <2>3 DEF PutStep, Put, PutLock, PutSpace, PutPost, PutWait, ringVars
    <3> QED
      BY <1>0, <3>1, SameRing
  <2> QED
    BY <2>1, <2>2, <2>3
<1> QED
  BY <1>1, <1>2, <1>3, <1>4, <1>5, <1>6 DEF IInv

LEMMA GetKeeps ==
  ASSUME Shared, IInv, NEW c \in Consumers, Get(c) \/ GetStep(c)
  PROVE  IInv'
<1>0. /\ TypeOK /\ RolesInv /\ MutexInv /\ PutInv /\ GetInv /\ RingInv
      /\ c \in Threads /\ c \notin Producers
  BY LinuxQueueAssumption DEF IInv, Threads
<1>1. TypeOK'
  BY <1>0, GetTyped
<1>2. RolesInv'
  BY <1>0
     DEF RolesInv, TypeOK, GetStep, Get, GetWait, GetLock, GetTest, GetAdvance, GetPost,
         Goto, Threads
<1>3. MutexInv'
  <2>1. CASE GetLock(c)
    <3>1. HasMutex => \A t \in Threads : ~Inside(t)
      BY <1>0, <2>1, LinuxQueueAssumption DEF GetLock, Acquire, MutexInv
    <3>2. \A t \in Threads : Inside(t)' <=> (Inside(t) \/ t = c)
      BY <1>0, <2>1 DEF GetLock, Goto, Inside, TypeOK
    <3>3. \A t \in Threads : HasMutex => (Inside(t)' <=> mutex' = t)
      BY <1>0, <2>1, <3>1, <3>2 DEF GetLock, Acquire
    <3>4. ~HasMutex => mutex' = None
      BY <2>1 DEF GetLock, Acquire
    <3> QED
      BY <1>0, <3>1, <3>2, <3>3, <3>4 DEF MutexInv, Shared, Threads
  <2>2. CASE Get(c) \/ GetWait(c) \/ GetAdvance(c)
    <3>1. (\A t \in Threads : Inside(t)' <=> Inside(t)) /\ mutex' = mutex
      BY <1>0, <2>2 DEF Get, GetWait, GetAdvance, Goto, Inside, TypeOK
    <3> QED
      BY <1>0, <3>1 DEF MutexInv, Threads
  <2>3. CASE GetTest(c) \/ GetPost(c)
    <3>1. Inside(c)
      BY <2>3 DEF GetTest, GetPost, Inside
    <3>2. \/ (\A t \in Threads : Inside(t)' <=> Inside(t)) /\ mutex' = mutex
          \/ (\A t \in Threads : Inside(t)' <=> Inside(t) /\ t # c) /\ mutex' = None
      BY <1>0, <2>3 DEF GetTest, GetPost, Goto, Inside, TypeOK
    <3> QED
      BY <1>0, <3>1, <3>2, LinuxQueueAssumption DEF MutexInv, Threads
  <2> QED
    BY <2>1, <2>2, <2>3 DEF GetStep
<1>4. PutInv'
  <2>1. \A p \in Producers : pc'[p] = pc[p] /\ next'[p] = next[p] /\ msg'[p] = msg[p]
    BY <1>0
       DEF TypeOK, GetStep, Get, GetWait, GetLock, GetTest, GetAdvance, GetPost, Goto, Threads
  <2>2. CASE UNCHANGED <<data, in, out>>
    BY <1>0, <2>1, <2>2 DEF PutInv
  <2>3. CASE GetAdvance(c)
    <3>1. in # out /\ out' = (out + 1) % Slots /\ UNCHANGED <<data, in>>
      BY <1>0, <2>3 DEF GetAdvance, GetInv
    <3>2. (in + 1) % Slots # (out + 1) % Slots
      <4>1. Slots \in Nat \ {0} /\ in \in 0 .. Slots - 1 /\ out \in 0 .. Slots - 1
        BY <1>0, LinuxQueueAssumption DEF TypeOK
      <4>2. (in + 1) % Slots = IF in + 1 = Slots THEN 0 ELSE in + 1
        BY <4>1, SuccWraps
      <4>3. (out + 1) % Slots = IF out + 1 = Slots THEN 0 ELSE out + 1
        BY <4>1, SuccWraps
      <4> QED
        BY <3>1, <4>1, <4>2, <4>3
    <3> QED
      BY <1>0, <2>1, <3>1, <3>2 DEF PutInv
  <2> QED
    BY <2>2, <2>3 DEF GetStep, Get, GetWait, GetLock, GetTest, GetPost, ringVars
<1>5. GetInv'
  <2>1. ASSUME NEW d \in Consumers, d # c
        PROVE  /\ pc'[d] = pc[d] /\ next'[d] = next[d] /\ msg'[d] = msg[d]
               /\ Inside(c) => ~Inside(d)
    <3>1. Inside(c) => ~Inside(d)
      BY <1>0, <2>1 DEF MutexInv
    <3> QED
      BY <1>0, <2>1, <3>1, GetOnlyOwn DEF Threads
  <2>2. CASE Get(c) \/ GetWait(c) \/ GetLock(c) \/ GetTest(c)
    <3>1. UNCHANGED <<data, in, out>>
      BY <2>2 DEF Get, GetWait, GetLock, GetTest, ringVars
    <3>2. DOMAIN pc = Threads /\ DOMAIN next = Threads /\ DOMAIN msg = Threads
      BY <1>0 DEF TypeOK
    <3>3. /\ pc'[c] \in {"get", "lock", "test"} => msg'[c] = None
          /\ pc'[c] = "remove" =>
               in # out /\ next'[c] = (out + 1) % Slots /\ msg'[c] = data[out]
      <4>1. CASE Get(c)
        BY <1>0, <3>2, <4>1 DEF Get, Goto
      <4>2. CASE GetWait(c) \/ GetLock(c)
        BY <1>0, <3>2, <4>2 DEF GetInv, GetWait, GetLock, Goto
      <4>3. CASE GetTest(c)
        BY <1>0, <3>2, <4>3 DEF GetTest, Goto
      <4> QED
        BY <2>2, <4>1, <4>2, <4>3
    <3> QED
      BY <1>0, <2>1, <3>1, <3>3 DEF GetInv
  <2>3. CASE GetAdvance(c) \/ GetPost(c)
    BY <1>0, <2>1, <2>3 DEF GetInv, TypeOK, GetAdvance, GetPost, Goto, Threads, Inside
  <2> QED
    BY <2>2, <2>3 DEF GetStep
<1>6. RingInv'
  <2>1. CASE GetAdvance(c)
    <3>1. Used' = Used - 1 /\ Used > 0 /\ Items # <<>> /\ Items' = Tail(Items)
      BY <1>0, <1>1, <2>1, RemoveTakesOldest DEF GetAdvance, GetInv
    <3>2. /\ Items \in Seq(Messages \cup {None}) /\ Len(Items) = Used
          /\ Used \in Nat
      BY <1>0, RingFacts DEF RingShape
    <3>3. \A i \in 1 .. Used - 1 : Items'[i] = Items[i + 1]
      BY <3>1, <3>2, HeadTailProperties
    <3> QED
      BY <1>0, <3>1, <3>2, <3>3 DEF RingInv
  <2>2. CASE UNCHANGED <<data, in, out>>
    BY <1>0, <2>2, SameRing
  <2> QED
    BY <2>1, <2>2 DEF GetStep, Get, GetWait, GetLock, GetTest, GetPost, ringVars
<1> QED
  BY <1>1, <1>2, <1>3, <1>4, <1>5, <1>6 DEF IInv

LEMMA StepIInv == Shared /\ IInv /\ [Next]_vars => IInv'
<1> SUFFICES ASSUME Shared, IInv, [Next]_vars PROVE IInv'
  OBVIOUS
<1>1. CASE Next
  BY <1>1, PutKeeps, GetKeeps DEF Next
<1>2. CASE UNCHANGED vars
  <2>1. UNCHANGED <<data, in, out, count, semGet, semPut, mutex, pc, next, msg, puts>>
    BY <1>2 DEF vars, ringVars, semVars
  <2> QED
    BY <2>1, SameRing
       DEF IInv, TypeOK, RolesInv, MutexInv, PutInv, GetInv, Inside
<1> QED
  BY <1>1, <1>2

LEMMA StepTyped == TypeOK /\ [Next]_vars => TypeOK'
<1> SUFFICES ASSUME TypeOK, [Next]_vars PROVE TypeOK'
  OBVIOUS
<1>1. CASE Next
  BY <1>1, PutTyped, GetTyped DEF Next
<1>2. CASE UNCHANGED vars
  BY <1>2 DEF vars, ringVars, semVars, TypeOK
<1> QED
  BY <1>1, <1>2

\* Whatever threads share the queue, in and out stay within the ring, and the
\* semaphores count from zero up.
THEOREM TypeCorrect == Spec => []TypeOK
<1>1. Init => TypeOK
  BY InitIInv DEF IInv
<1> QED
  BY <1>1, StepTyped, PTL DEF Spec

LEMMA AlwaysIInv ==
  ASSUME Shared
  PROVE  Spec => []IInv
<1>1. IInv /\ [Next]_vars => IInv'
  BY StepIInv
<1> QED
  BY <1>1, InitIInv, PTL DEF Spec

-----------------------------------------------------------------------------
(* The ring implements the bounded queue.                                  *)

Putting == [p \in Producers |-> IF pc[p] = "post" THEN None ELSE msg[p]]
Got == [c \in Consumers |-> IF pc[c] = "remove" THEN None ELSE msg[c]]

\* Steps of put() between its call and the advance of in, and after it.
LEMMA PutImplements ==
  ASSUME Shared, IInv, IInv', NEW p \in Producers,
         (\E m \in Messages : Put(p, m)) \/ PutStep(p)
  PROVE  [Fifo!Next]_Fifo!vars
<1>0. /\ TypeOK /\ TypeOK' /\ PutInv /\ MutexInv
      /\ p \in Threads /\ None \notin Messages /\ Producers \cap Consumers = {}
  BY LinuxQueueAssumption DEF IInv, Threads
<1>1. Got' = Got
  <2>1. \A c \in Consumers : pc'[c] = pc[c] /\ msg'[c] = msg[c]
    BY <1>0, PutOnlyOwn DEF Threads
  <2> QED
    BY <2>1 DEF Got
<1>2. ASSUME NEW m \in Messages, Put(p, m)
      PROVE  Fifo!CallPut(p, m)
  <2>1. Items' = Items
    BY <1>2, SameRing DEF Put, ringVars
  <2>2. Putting[p] = None /\ Putting' = [Putting EXCEPT ![p] = m]
    BY <1>0, <1>2 DEF Put, Goto, Putting, PutInv, TypeOK, Threads
  <2> QED
    BY <1>1, <2>1, <2>2 DEF Fifo!CallPut, Putting, Got
<1>3. CASE PutAdvance(p)
  <2>1. /\ Used < Slots - 1 /\ Items' = Append(Items, msg[p])
        /\ msg[p] \in Messages
    BY <1>0, <1>3, AdvanceAppends DEF PutAdvance, PutInv
  <2>2. Len(Items) < Slots - 1
    BY <1>0, <2>1, RingFacts DEF RingShape
  <2>3. Putting[p] = msg[p] /\ Putting' = [Putting EXCEPT ![p] = None]
    BY <1>0, <1>3 DEF PutAdvance, Goto, Putting, TypeOK, Threads
  <2>4. Fifo!Enqueue(p)
    BY <1>0, <1>1, <2>1, <2>2, <2>3 DEF Fifo!Enqueue, Putting, Got
  <2> QED
    BY <2>4 DEF Fifo!Next
<1>4. CASE PutLock(p) \/ PutSpace(p) \/ PutWrite(p) \/ PutPost(p) \/ PutWait(p)
  <2>1. Items' = Items
    <3>1. CASE PutWrite(p)
      BY <1>0, <3>1, WriteKeepsItems DEF PutWrite, PutInv
    <3>2. CASE ~PutWrite(p)
      BY <1>4, <3>2, SameRing DEF PutLock, PutSpace, PutPost, PutWait, ringVars
    <3> QED
      BY <3>1, <3>2
  <2>2. Putting' = Putting
    BY <1>0, <1>4
       DEF PutLock, PutSpace, PutWrite, PutPost, PutWait, Goto, Putting, TypeOK, Threads
  <2> QED
    BY <1>1, <2>1, <2>2 DEF Fifo!vars, Putting, Got
<1> QED
  BY <1>2, <1>3, <1>4 DEF PutStep, Fifo!Next

LEMMA GetImplements ==
  ASSUME Shared, IInv, IInv', NEW c \in Consumers, Get(c) \/ GetStep(c)
  PROVE  [Fifo!Next]_Fifo!vars
<1>0. /\ TypeOK /\ TypeOK' /\ GetInv
      /\ c \in Threads /\ Producers \cap Consumers = {}
  BY LinuxQueueAssumption DEF IInv, Threads
<1>1. Putting' = Putting
  <2>1. \A p \in Producers : pc'[p] = pc[p] /\ msg'[p] = msg[p]
    BY <1>0, GetOnlyOwn DEF Threads
  <2> QED
    BY <2>1 DEF Putting
<1>2. CASE Get(c)
  <2>1. Items' = Items
    BY <1>2, SameRing DEF Get, ringVars
  <2>2. Got' = [Got EXCEPT ![c] = None]
    BY <1>0, <1>2 DEF Get, Goto, Got, TypeOK, Threads
  <2>3. Fifo!CallGet(c)
    BY <1>1, <2>1, <2>2 DEF Fifo!CallGet, Putting, Got
  <2> QED
    BY <2>3 DEF Fifo!Next
<1>3. CASE GetAdvance(c)
  <2>1. Items # <<>> /\ Items' = Tail(Items) /\ Head(Items) = msg[c]
    BY <1>0, <1>3, RemoveTakesOldest DEF GetAdvance, GetInv
  <2>2. Got[c] = None /\ Got' = [Got EXCEPT ![c] = msg[c]]
    BY <1>0, <1>3 DEF GetAdvance, Goto, Got, TypeOK, Threads
  <2>3. Fifo!TakeOldest(c)
    BY <1>1, <2>1, <2>2 DEF Fifo!TakeOldest, Putting, Got
  <2> QED
    BY <2>3 DEF Fifo!Next
<1>4. CASE GetWait(c) \/ GetLock(c) \/ GetTest(c) \/ GetPost(c)
  <2>1. Items' = Items
    BY <1>4, SameRing DEF GetWait, GetLock, GetTest, GetPost, ringVars
  <2>2. Got' = Got
    BY <1>0, <1>4 DEF GetWait, GetLock, GetTest, GetPost, GetInv, Goto, Got, TypeOK, Threads
  <2> QED
    BY <1>1, <2>1, <2>2 DEF Fifo!vars, Putting, Got
<1> QED
  BY <1>2, <1>3, <1>4 DEF GetStep

\* Linux_Queue is the queue that queue.h promises (queue.cpp:82-131): threads
\* that share it as they should see messages in the order they were put, none
\* lost, repeated or overwritten.
THEOREM QueueIsFifo ==
  ASSUME Shared
  PROVE  Spec => IsFifo
<1>1. Init => Fifo!Init
  <2> SUFFICES ASSUME Init PROVE Fifo!Init
    OBVIOUS
  <2>1. Used = 0
    BY InitIInv, RingFacts DEF IInv, Init, RingShape
  <2>2. Items = <<>>
    BY <2>1 DEF Items
  <2> QED
    BY <2>2 DEF Init, Fifo!Init, Threads
<1>2. IInv /\ IInv' /\ [Next]_vars => [Fifo!Next]_Fifo!vars
  <2> SUFFICES ASSUME IInv, IInv', [Next]_vars PROVE [Fifo!Next]_Fifo!vars
    OBVIOUS
  <2>1. CASE Next
    BY <2>1, PutImplements, GetImplements DEF Next
  <2>2. CASE UNCHANGED vars
    <3>1. UNCHANGED <<data, in, out, pc, msg>>
      BY <2>2 DEF vars, ringVars
    <3> QED
      BY <3>1, SameRing DEF Fifo!vars
  <2> QED
    BY <2>1, <2>2
<1> QED
  BY <1>1, <1>2, AlwaysIInv, PTL DEF Spec, IsFifo, Fifo!Spec

-----------------------------------------------------------------------------
(* The semaphores count what is in the ring.                               *)

One(b) == IF b THEN 1 ELSE 0

\* A thread's move changes the number of threads at a set of labels by the
\* place it leaves and the one it reaches.
LEMMA MoveCounts ==
  ASSUME TypeOK, NEW t \in Threads, NEW l, Goto(t, l), NEW L, NEW T \in SUBSET Threads
  PROVE  /\ Count(At(L) \cap T) \in Nat
         /\ Count(At(L)' \cap T) =
              Count(At(L) \cap T) - One(t \in T /\ pc[t] \in L) + One(t \in T /\ l \in L)
<1> DEFINE S == At(L) \cap T
<1>1. IsFiniteSet(S) /\ IsFiniteSet(S \ {t})
  <2>1. S \subseteq Threads /\ S \ {t} \subseteq Threads
    BY DEF At
  <2> QED
    BY <2>1, LinuxQueueAssumption, FS_Subset
<1>2. At(L)' \cap T = IF t \in T /\ l \in L THEN (S \ {t}) \cup {t} ELSE S \ {t}
  BY DEF At, Goto, TypeOK
<1>3. t \in S <=> t \in T /\ pc[t] \in L
  BY DEF At
<1> HIDE DEF S
<1>4. /\ Cardinality(S) \in Nat /\ Cardinality(S \ {t}) \in Nat
      /\ Cardinality(S \ {t}) = IF t \in S THEN Cardinality(S) - 1 ELSE Cardinality(S)
      /\ Cardinality((S \ {t}) \cup {t}) = Cardinality(S \ {t}) + 1
  BY <1>1, FS_CardinalityType, FS_RemoveElement, FS_AddElement
<1>5. Count(At(L) \cap T) = Cardinality(S)
  BY DEF Count, S
<1>6. CASE t \in T /\ l \in L
  <2>1. Count(At(L)' \cap T) = Cardinality((S \ {t}) \cup {t})
    BY <1>2, <1>6 DEF Count
  <2> QED
    BY <1>3, <1>4, <1>5, <1>6, <2>1 DEF One
<1>7. CASE ~(t \in T /\ l \in L)
  <2>1. Count(At(L)' \cap T) = Cardinality(S \ {t})
    BY <1>2, <1>7 DEF Count
  <2> QED
    BY <1>3, <1>4, <1>5, <1>7, <2>1 DEF One
<1> QED
  BY <1>6, <1>7

\* The same for the sets of threads that the two invariants count.
LEMMA MoveCountsTokens ==
  ASSUME TypeOK, NEW t \in Threads, NEW l, Goto(t, l)
  PROVE  LET G == Count(At({"lock", "test", "remove"}) \cap Consumers)
             P == Count(At({"post"}) \cap Producers)
             A == Count(At({"put", "space", "write", "advance"}))
             B == Count(At({"post"}) \cap Consumers)
         IN  /\ G \in Nat /\ P \in Nat /\ A \in Nat /\ B \in Nat
             /\ G' = G - One(t \in Consumers /\ pc[t] \in {"lock", "test", "remove"})
                       + One(t \in Consumers /\ l \in {"lock", "test", "remove"})
             /\ P' = P - One(t \in Producers /\ pc[t] = "post")
                       + One(t \in Producers /\ l = "post")
             /\ A' = A - One(pc[t] \in {"put", "space", "write", "advance"})
                       + One(l \in {"put", "space", "write", "advance"})
             /\ B' = B - One(t \in Consumers /\ pc[t] = "post")
                       + One(t \in Consumers /\ l = "post")
<1>1. Consumers \in SUBSET Threads /\ Producers \in SUBSET Threads /\ Threads \in SUBSET Threads
  BY DEF Threads
<1>2. At({"put", "space", "write", "advance"}) \cap Threads
        = At({"put", "space", "write", "advance"})
  BY DEF At
<1>3. At({"put", "space", "write", "advance"})' \cap Threads
        = At({"put", "space", "write", "advance"})'
  BY DEF At
<1>4. /\ Count(At({"lock", "test", "remove"}) \cap Consumers) \in Nat
      /\ Count(At({"lock", "test", "remove"})' \cap Consumers)
           = Count(At({"lock", "test", "remove"}) \cap Consumers)
               - One(t \in Consumers /\ pc[t] \in {"lock", "test", "remove"})
               + One(t \in Consumers /\ l \in {"lock", "test", "remove"})
  <2>1. PICK L : L = {"lock", "test", "remove"}
    OBVIOUS
  <2>2. PICK T \in SUBSET Threads : T = Consumers
    BY <1>1
  <2>3. /\ Count(At(L) \cap T) \in Nat
        /\ Count(At(L)' \cap T) =
             Count(At(L) \cap T) - One(t \in T /\ pc[t] \in L) + One(t \in T /\ l \in L)
    BY <2>2, MoveCounts
  <2> QED
    BY <2>1, <2>2, <2>3
<1>5. /\ Count(At({"post"}) \cap Producers) \in Nat
      /\ Count(At({"post"})' \cap Producers)
           = Count(At({"post"}) \cap Producers)
               - One(t \in Producers /\ pc[t] \in {"post"}) + One(t \in Producers /\ l \in {"post"})
  <2>1. PICK L : L = {"post"}
    OBVIOUS
  <2>2. PICK T \in SUBSET Threads : T = Producers
    BY <1>1
  <2>3. /\ Count(At(L) \cap T) \in Nat
        /\ Count(At(L)' \cap T) =
             Count(At(L) \cap T) - One(t \in T /\ pc[t] \in L) + One(t \in T /\ l \in L)
    BY <2>2, MoveCounts
  <2> QED
    BY <2>1, <2>2, <2>3
<1>6. /\ Count(At({"put", "space", "write", "advance"}) \cap Threads) \in Nat
      /\ Count(At({"put", "space", "write", "advance"})' \cap Threads)
           = Count(At({"put", "space", "write", "advance"}) \cap Threads)
               - One(t \in Threads /\ pc[t] \in {"put", "space", "write", "advance"})
               + One(t \in Threads /\ l \in {"put", "space", "write", "advance"})
  <2>1. PICK L : L = {"put", "space", "write", "advance"}
    OBVIOUS
  <2>2. PICK T \in SUBSET Threads : T = Threads
    BY <1>1
  <2>3. /\ Count(At(L) \cap T) \in Nat
        /\ Count(At(L)' \cap T) =
             Count(At(L) \cap T) - One(t \in T /\ pc[t] \in L) + One(t \in T /\ l \in L)
    BY <2>2, MoveCounts
  <2> QED
    BY <2>1, <2>2, <2>3
<1>7. /\ Count(At({"post"}) \cap Consumers) \in Nat
      /\ Count(At({"post"})' \cap Consumers)
           = Count(At({"post"}) \cap Consumers)
               - One(t \in Consumers /\ pc[t] \in {"post"}) + One(t \in Consumers /\ l \in {"post"})
  <2>1. PICK L : L = {"post"}
    OBVIOUS
  <2>2. PICK T \in SUBSET Threads : T = Consumers
    BY <1>1
  <2>3. /\ Count(At(L) \cap T) \in Nat
        /\ Count(At(L)' \cap T) =
             Count(At(L) \cap T) - One(t \in T /\ pc[t] \in L) + One(t \in T /\ l \in L)
    BY <2>2, MoveCounts
  <2> QED
    BY <2>1, <2>2, <2>3
<1> QED
  BY <1>2, <1>3, <1>4, <1>5, <1>6, <1>7 DEF One, Count

\* A full ring leaves no slot to be accounted for.
LEMMA FullRing ==
  ASSUME TypeOK, (in + 1) % Slots = out
  PROVE  Used = Slots - 1
<1>1. Slots \in Nat \ {0} /\ in \in 0 .. Slots - 1 /\ out \in 0 .. Slots - 1
  BY LinuxQueueAssumption DEF TypeOK
<1>2. (in + 1) % Slots = IF in + 1 = Slots THEN 0 ELSE in + 1
  BY <1>1, SuccWraps
<1>3. Used = IF in >= out THEN in - out ELSE in - out + Slots
  BY RingFacts DEF RingShape
<1>4. out = IF in + 1 = Slots THEN 0 ELSE in + 1
  BY <1>2
<1> QED
  BY <1>1, <1>3, <1>4

\* The sets of threads are finite.
LEMMA CountNat ==
  /\ \A L, T : Count(At(L)' \cap T) \in Nat
  /\ \A L : Count(At(L)') \in Nat
<1>1. \A L, T : At(L)' \cap T \subseteq Threads /\ At(L)' \subseteq Threads
  BY DEF At
<1> QED
  BY <1>1, LinuxQueueAssumption, FS_Subset, FS_CardinalityType DEF Count

LEMMA PutCounts ==
  ASSUME Shared, CountInv, IInv', NEW p \in Producers,
         (\E m \in Messages : Put(p, m)) \/ PutStep(p)
  PROVE  NobodySleepsInVain'
<1> DEFINE G == Count(At({"lock", "test", "remove"}) \cap Consumers)
           P == Count(At({"post"}) \cap Producers)
           A == Count(At({"put", "space", "write", "advance"}))
           B == Count(At({"post"}) \cap Consumers)
<1>0. /\ TypeOK /\ TypeOK' /\ PutInv /\ p \in Threads /\ p \notin Consumers
      /\ Used \in 0 .. Slots - 1 /\ Slots \in Nat /\ semGet \in Nat /\ semPut \in Nat
      /\ semGet + G + P = Used
      /\ At({"full"}) # {} => Slots - 1 - Used <= semPut + A + B
  BY LinuxQueueAssumption, RingFacts
     DEF CountInv, IInv, Threads, RingShape, TypeOK, NobodySleepsInVain, TokensAreMessages,
         NoLostPermit
<1>1. SUFFICES /\ semGet' + G' + P' = Used'
               /\ At({"full"})' # {} => Slots - 1 - Used' <= semPut' + A' + B'
  BY DEF NobodySleepsInVain, TokensAreMessages, NoLostPermit
<1>2. ASSUME NEW l, Goto(p, l)
      PROVE  /\ G \in Nat /\ P \in Nat /\ A \in Nat /\ B \in Nat
             /\ G' = G /\ B' = B
             /\ P' = P - One(pc[p] = "post") + One(l = "post")
             /\ A' = A - One(pc[p] \in {"put", "space", "write", "advance"})
                       + One(l \in {"put", "space", "write", "advance"})
             /\ l # "full" => At({"full"})' \subseteq At({"full"})
  <2>1. l # "full" => At({"full"})' \subseteq At({"full"})
    BY <1>0, <1>2 DEF At, Goto, TypeOK
  <2> HIDE DEF G, P, A, B
  <2>2. /\ G \in Nat /\ P \in Nat /\ A \in Nat /\ B \in Nat
        /\ G' = G - One(p \in Consumers /\ pc[p] \in {"lock", "test", "remove"})
                  + One(p \in Consumers /\ l \in {"lock", "test", "remove"})
        /\ P' = P - One(p \in Producers /\ pc[p] = "post") + One(p \in Producers /\ l = "post")
        /\ A' = A - One(pc[p] \in {"put", "space", "write", "advance"})
                  + One(l \in {"put", "space", "write", "advance"})
        /\ B' = B - One(p \in Consumers /\ pc[p] = "post") + One(p \in Consumers /\ l = "post")
    BY <1>0, <1>2, MoveCountsTokens DEF G, P, A, B
  <2> QED
    BY <1>0, <2>1, <2>2 DEF One
<1> HIDE DEF G, P, A, B
<1>3. CASE \E m \in Messages : Put(p, m)
  <2>1. Used' = Used /\ UNCHANGED semVars
    BY <1>3, SameRing DEF Put, ringVars
  <2>2. pc[p] = "idle" /\ Goto(p, "put")
    BY <1>3 DEF Put
  <2> QED
    BY <1>0, <1>2, <2>1, <2>2 DEF One, semVars
<1>4. CASE PutLock(p) \/ PutWrite(p)
  <2>1. UNCHANGED semVars /\ Used' = Used
    BY <1>4 DEF PutLock, PutWrite, ringVars, Used
  <2>2. \/ pc[p] = "put" /\ Goto(p, "space")
        \/ pc[p] = "write" /\ Goto(p, "advance")
    BY <1>4 DEF PutLock, PutWrite
  <2> QED
    BY <1>0, <1>2, <2>1, <2>2 DEF One, semVars
<1>5. CASE PutSpace(p)
  <2>1. UNCHANGED semVars /\ Used' = Used /\ pc[p] = "space"
    BY <1>5, SameRing DEF PutSpace, ringVars
  <2>2. \/ Goto(p, "write")
        \/ Goto(p, "full") /\ Used = Slots - 1
    BY <1>0, <1>5, FullRing DEF PutSpace, PutInv
  <2>3. A' \in Nat
    BY CountNat DEF A
  <2> QED
    BY <1>0, <1>2, <2>1, <2>2, <2>3 DEF One, semVars
<1>6. CASE PutAdvance(p)
  <2>1. Used' = Used + 1 /\ UNCHANGED semVars /\ pc[p] = "advance" /\ Goto(p, "post")
    BY <1>0, <1>6, AdvanceAppends DEF PutAdvance, PutInv
  <2> QED
    BY <1>0, <1>2, <2>1 DEF One, semVars
<1>7. CASE PutPost(p)
  <2>1. /\ Used' = Used /\ semGet' = semGet + 1 /\ semPut' = semPut
        /\ pc[p] = "post" /\ Goto(p, "idle")
    BY <1>7 DEF PutPost, Used
  <2> QED
    BY <1>0, <1>2, <2>1 DEF One
<1>8. CASE PutWait(p)
  <2>1. /\ Used' = Used /\ semGet' = semGet /\ semPut' = semPut - 1
        /\ pc[p] = "full" /\ Goto(p, "put")
    BY <1>8, SameRing DEF PutWait, ringVars
  <2>2. p \in At({"full"})
    BY <1>0, <2>1 DEF At
  <2> QED
    BY <1>0, <1>2, <2>1, <2>2 DEF One
<1> QED
  BY <1>3, <1>4, <1>5, <1>6, <1>7, <1>8 DEF PutStep

LEMMA GetCounts ==
  ASSUME Shared, CountInv, IInv', NEW c \in Consumers, Get(c) \/ GetStep(c)
  PROVE  NobodySleepsInVain'
<1> DEFINE G == Count(At({"lock", "test", "remove"}) \cap Consumers)
           P == Count(At({"post"}) \cap Producers)
           A == Count(At({"put", "space", "write", "advance"}))
           B == Count(At({"post"}) \cap Consumers)
<1>0. /\ TypeOK /\ TypeOK' /\ GetInv /\ c \in Threads /\ c \notin Producers
      /\ Used \in 0 .. Slots - 1 /\ Slots \in Nat /\ semGet \in Nat /\ semPut \in Nat
      /\ semGet + G + P = Used
      /\ At({"full"}) # {} => Slots - 1 - Used <= semPut + A + B
      /\ pc[c] \in {"idle", "get", "lock", "test", "remove", "post"}
  BY LinuxQueueAssumption, RingFacts
     DEF CountInv, IInv, RolesInv, Threads, RingShape, TypeOK, NobodySleepsInVain,
         TokensAreMessages, NoLostPermit
<1>1. SUFFICES /\ semGet' + G' + P' = Used'
               /\ At({"full"})' # {} => Slots - 1 - Used' <= semPut' + A' + B'
  BY DEF NobodySleepsInVain, TokensAreMessages, NoLostPermit
<1>2. ASSUME NEW l, Goto(c, l), l \in {"idle", "get", "lock", "test", "remove", "post"}
      PROVE  /\ G \in Nat /\ P \in Nat /\ A \in Nat /\ B \in Nat
             /\ G' = G - One(pc[c] \in {"lock", "test", "remove"})
                       + One(l \in {"lock", "test", "remove"})
             /\ P' = P /\ A' = A
             /\ B' = B - One(pc[c] = "post") + One(l = "post")
             /\ At({"full"})' \subseteq At({"full"})
  <2>1. At({"full"})' \subseteq At({"full"})
    BY <1>0, <1>2 DEF At, Goto, TypeOK
  <2> HIDE DEF G, P, A, B
  <2>2. /\ G \in Nat /\ P \in Nat /\ A \in Nat /\ B \in Nat
        /\ G' = G - One(c \in Consumers /\ pc[c] \in {"lock", "test", "remove"})
                  + One(c \in Consumers /\ l \in {"lock", "test", "remove"})
        /\ P' = P - One(c \in Producers /\ pc[c] = "post") + One(c \in Producers /\ l = "post")
        /\ A' = A - One(pc[c] \in {"put", "space", "write", "advance"})
                  + One(l \in {"put", "space", "write", "advance"})
        /\ B' = B - One(c \in Consumers /\ pc[c] = "post") + One(c \in Consumers /\ l = "post")
    BY <1>0, <1>2, MoveCountsTokens DEF G, P, A, B
  <2> QED
    BY <1>0, <1>2, <2>1, <2>2 DEF One
<1> HIDE DEF G, P, A, B
<1>3. CASE Get(c) \/ GetLock(c)
  <2>1. Used' = Used /\ UNCHANGED semVars
    BY <1>3, SameRing DEF Get, GetLock, ringVars
  <2>2. \/ pc[c] = "idle" /\ Goto(c, "get")
        \/ pc[c] = "lock" /\ Goto(c, "test")
    BY <1>3 DEF Get, GetLock
  <2> QED
    BY <1>0, <1>2, <2>1, <2>2 DEF One, semVars
<1>4. CASE GetWait(c)
  <2>1. /\ Used' = Used /\ semGet' = semGet - 1 /\ semPut' = semPut
        /\ pc[c] = "get" /\ Goto(c, "lock")
    BY <1>4, SameRing DEF GetWait, ringVars
  <2> QED
    BY <1>0, <1>2, <2>1 DEF One
<1>5. CASE GetTest(c)
  <2>1. Used' = Used /\ UNCHANGED semVars /\ pc[c] = "test"
    BY <1>5, SameRing DEF GetTest, ringVars
  <2>2. \/ in = out /\ Goto(c, "idle")
        \/ Goto(c, "remove")
    BY <1>5 DEF GetTest
  <2>3. in = out => Used = 0
    BY <1>0, RingFacts DEF RingShape
  <2>4. in # out
    <3>1. SUFFICES ASSUME in = out PROVE FALSE
      OBVIOUS
    <3>2. Goto(c, "idle") /\ G' \in Nat
      BY <1>0, <1>5, <3>1, CountNat DEF GetTest, G
    <3> QED
      BY <1>0, <1>2, <2>1, <2>3, <3>1, <3>2 DEF One
  <2> QED
    BY <1>0, <1>2, <2>1, <2>2, <2>4 DEF One, semVars
<1>6. CASE GetAdvance(c)
  <2>1. Used' = Used - 1 /\ UNCHANGED semVars /\ pc[c] = "remove" /\ Goto(c, "post")
    BY <1>0, <1>6, RemoveTakesOldest DEF GetAdvance, GetInv
  <2> QED
    BY <1>0, <1>2, <2>1 DEF One, semVars
<1>7. CASE GetPost(c)
  <2>1. /\ Used' = Used /\ semGet' = semGet /\ semPut' = semPut + 1
        /\ pc[c] = "post" /\ Goto(c, "idle")
    BY <1>7 DEF GetPost, Used
  <2> QED
    BY <1>0, <1>2, <2>1 DEF One
<1> QED
  BY <1>3, <1>4, <1>5, <1>6, <1>7 DEF GetStep

\* No token of sem_get_wait is without its message and no permit is lost: get()
\* never returns false after its wait, and a producer never sleeps over a slot
\* that nobody is going to use or post (queue.cpp:87-131).
THEOREM CountsAgree ==
  ASSUME Shared
  PROVE  Spec => []NobodySleepsInVain
<1>1. Init => NobodySleepsInVain
  <2> SUFFICES ASSUME Init PROVE NobodySleepsInVain
    OBVIOUS
  <2>1. Used = 0
    BY InitIInv, RingFacts DEF IInv, Init, RingShape
  <2>2. /\ At({"lock", "test", "remove"}) \cap Consumers = {}
        /\ At({"post"}) \cap Producers = {}
        /\ At({"full"}) = {}
    BY DEF Init, At
  <2>3. Cardinality({}) = 0
    BY FS_EmptySet
  <2>4. /\ Count(At({"lock", "test", "remove"}) \cap Consumers) = 0
        /\ Count(At({"post"}) \cap Producers) = 0
    BY <2>2, <2>3 DEF Count
  <2> QED
    BY <2>1, <2>2, <2>4 DEF Init, NobodySleepsInVain, TokensAreMessages, NoLostPermit
<1>2. IInv /\ IInv' /\ NobodySleepsInVain /\ [Next]_vars => NobodySleepsInVain'
  <2> SUFFICES ASSUME IInv, IInv', NobodySleepsInVain, [Next]_vars PROVE NobodySleepsInVain'
    OBVIOUS
  <2>0. CountInv
    BY DEF CountInv, NobodySleepsInVain
  <2>1. CASE Next
    BY <2>0, <2>1, PutCounts, GetCounts DEF Next
  <2>2. CASE UNCHANGED vars
    BY <2>2 DEF vars, ringVars, semVars, NobodySleepsInVain, TokensAreMessages, NoLostPermit,
       Used, At, Count
  <2> QED
    BY <2>1, <2>2
<1> QED
  BY <1>1, <1>2, AlwaysIInv, PTL DEF Spec

-----------------------------------------------------------------------------
(* The inductive invariant.                                                *)

\* The message that get() has taken and run() has not finished with.
Held == IF pc[Runner] \in {"idle", "post"} /\ msg[Runner] # None THEN <<msg[Runner]>> ELSE <<>>

\* All that put() has ever queued, in order.
Line == log \o Held \o Items

\* put() has not queued the client's message yet.
Pending(c) == pc[c] \in {"put", "space", "write", "advance", "full"}

Quitting == client[Owner] \in {"quitting", "deleted"}

BatchTypeOK ==
  /\ asked \in [Clients -> Seq(Jobs)]
  /\ client \in [Clients -> {"ready", "calling", "waiting", "quitting", "deleted"}]
  /\ posted \in [WaitJobs -> Nat]
  /\ running \in BOOLEAN /\ exited \in BOOLEAN
  /\ log \in Seq(Jobs)

\* What a client is doing agrees with where it is in put(), and with its message.
ClientInv ==
  \A c \in Clients :
    /\ client[c] \in {"ready", "waiting", "deleted"} => pc[c] = "idle"
    /\ client[c] = "calling" => asked[c] # <<>> /\ (Pending(c) => msg[c] = Last(asked[c]))
    /\ client[c] = "quitting" => (Pending(c) => msg[c] = Quit)
    /\ client[c] \in {"quitting", "deleted"} => c = Owner

\* A job is queued by one client, and once.
AskedInv ==
  \A c, d \in Clients : \A i \in DOMAIN asked[c], j \in DOMAIN asked[d] :
    asked[c][i] = asked[d][j] => c = d /\ i = j

\* The line holds what was asked for and is not on its way, each once and in the
\* order of its client.
LineInv ==
  /\ Distinct(Line)
  /\ \A c \in Clients : Pending(c) => msg[c] \notin ToSet(Line)
  /\ \A c \in Clients : \A i \in DOMAIN asked[c] :
       \/ asked[c][i] \in ToSet(Line)
       \/ i = Len(asked[c]) /\ Pending(c) /\ client[c] = "calling"
  /\ \A c \in Clients : \A i \in DOMAIN Line, later \in DOMAIN asked[c] :
       Line[i] = asked[c][later] =>
         \A earlier \in 1 .. later - 1 : \E k \in 1 .. i - 1 : Line[k] = asked[c][earlier]
  /\ \A i \in DOMAIN Line : Line[i] = Quit \/ \E c \in Clients : Line[i] \in ToSet(asked[c])

\* The null job is asked for after all others, and is the last in the line.
QuitInv ==
  /\ Quitting => \A j \in Jobs : ~Fresh(j)
  /\ Quitting => \A c \in Clients : c # Owner => client[c] = "ready"
  /\ \A i \in DOMAIN Line : Line[i] = Quit => Quitting /\ i = Len(Line)
  /\ ~running => pc[Runner] = "idle" /\ msg[Runner] = Quit
  /\ exited => ~running
  /\ client[Owner] = "deleted" => exited

BInv == BatchTypeOK /\ ClientInv /\ AskedInv /\ LineInv /\ QuitInv

-----------------------------------------------------------------------------
(* The queue of the task is the queue of LinuxQueue: run() only empties    *)
(* its own variable besides.                                               *)

LEMMA RunnerFacts ==
  /\ Consumers = {Runner} /\ Runner \in Threads /\ Runner \notin Clients
  /\ Owner \in Clients /\ Owner \in Threads /\ Clients \subseteq Threads
  /\ \A t \in Threads : t = Runner \/ t \in Clients
  /\ Quit \in Messages /\ Quit # None /\ None \notin Messages /\ None \notin Jobs
  /\ Quit \notin Jobs /\ Jobs \subseteq Messages /\ WaitJobs \subseteq Jobs
  BY BatchTaskAssumption, LinuxQueueAssumption DEF Threads, Clients, Jobs

LEMMA BatchQueueStep ==
  ASSUME [BatchNext]_allVars
  PROVE  \/ [Next]_vars
         \/ RunJob
<1>1. CASE UNCHANGED allVars
  BY <1>1 DEF allVars
<1>2. ASSUME NEW c \in Clients, Client(c)
      PROVE  [Next]_vars
  <2>1. CASE \E j \in Jobs : Execute(c, j)
    BY <2>1, RunnerFacts DEF Execute, Next, Clients
  <2>2. CASE Executed(c) \/ WaitJob(c) \/ Join
    BY <2>2 DEF Executed, WaitJob, Join
  <2>3. CASE PutStep(c)
    BY <2>3 DEF Next, Clients
  <2>4. CASE Delete
    BY <2>4, RunnerFacts DEF Delete, Next, Clients
  <2> QED
    BY <1>2, <2>1, <2>2, <2>3, <2>4 DEF Client
<1>3. CASE Run /\ ~RunJob
  BY <1>3, RunnerFacts DEF Run, RunGet, RunQuit, Exit, Next
<1> QED
  BY <1>1, <1>2, <1>3 DEF BatchNext, Run

LEMMA RunJobKeepsQueue ==
  ASSUME IInv, RunJob
  PROVE  IInv'
<1>1. /\ UNCHANGED <<data, in, out, count, semGet, semPut, mutex, pc, next, puts>>
      /\ msg' = [msg EXCEPT ![Runner] = None] /\ pc[Runner] = "idle"
  BY DEF RunJob, HasJob, ringVars, semVars
<1>2. TypeOK' /\ RolesInv' /\ MutexInv'
  BY <1>1, RunnerFacts DEF IInv, TypeOK, RolesInv, MutexInv, Inside
<1>3. PutInv' /\ GetInv'
  BY <1>1, RunnerFacts DEF IInv, TypeOK, PutInv, GetInv, Clients
<1>4. RingInv'
  BY <1>1, SameRing DEF IInv
<1> QED
  BY <1>2, <1>3, <1>4 DEF IInv

LEMMA BatchKeepsQueue ==
  ASSUME Shared, IInv, [BatchNext]_allVars
  PROVE  IInv'
  BY BatchQueueStep, RunJobKeepsQueue, StepIInv

-----------------------------------------------------------------------------
(* The line grows when in moves, and by nothing else.                      *)

LEMMA LineShape ==
  ASSUME IInv, BatchTypeOK
  PROVE  /\ Line \in Seq(Messages)
         /\ log \in Seq(Messages) /\ Held \in Seq(Messages) /\ Items \in Seq(Messages)
         /\ Len(Line) = Len(log) + Len(Held) + Len(Items)
         /\ DOMAIN Line = 1 .. Len(Line) /\ DOMAIN log = 1 .. Len(log)
         /\ \A i \in 1 .. Len(log) : Line[i] = log[i]
         /\ Held # <<>> => Len(Held) = 1 /\ Line[Len(log) + 1] = Held[1]
<1>1. log \in Seq(Messages)
  BY RunnerFacts, SeqMonotonic DEF BatchTypeOK
<1>2. Held \in Seq(Messages)
  BY RunnerFacts DEF Held, IInv, TypeOK
<1>3. Items \in Seq(Messages)
  <2>1. Len(Items) = Used /\ Items \in Seq(Messages \cup {None})
    BY RingFacts DEF IInv, RingShape
  <2>2. \A i \in 1 .. Len(Items) : Items[i] \in Messages
    BY <2>1 DEF IInv, RingInv
  <2> QED
    BY <2>1, <2>2
<1>4. /\ log \o Held \in Seq(Messages) /\ Len(log \o Held) = Len(log) + Len(Held)
      /\ \A i \in 1 .. Len(log) + Len(Held) :
           (log \o Held)[i] = IF i <= Len(log) THEN log[i] ELSE Held[i - Len(log)]
  BY <1>1, <1>2, ConcatProperties
<1>5. /\ Line \in Seq(Messages) /\ Len(Line) = Len(log \o Held) + Len(Items)
      /\ \A i \in 1 .. Len(log \o Held) + Len(Items) :
           Line[i] = IF i <= Len(log \o Held) THEN (log \o Held)[i] ELSE Items[i - Len(log \o Held)]
  BY <1>3, <1>4, ConcatProperties DEF Line
<1>6. Len(log) \in Nat /\ Len(Held) \in Nat /\ Len(Items) \in Nat
  BY <1>1, <1>2, <1>3, LenProperties
<1>7. Held # <<>> => Len(Held) = 1
  BY DEF Held
<1>8. DOMAIN Line = 1 .. Len(Line) /\ DOMAIN log = 1 .. Len(log)
  BY <1>1, <1>5, LenProperties
<1>9. ASSUME NEW i \in 1 .. Len(log) PROVE Line[i] = log[i]
  BY <1>4, <1>5, <1>6
<1>10. Held # <<>> => Line[Len(log) + 1] = Held[1]
  <2> SUFFICES ASSUME Held # <<>> PROVE Line[Len(log) + 1] = Held[1]
    OBVIOUS
  <2>1. /\ Len(log) + 1 \in 1 .. Len(log) + Len(Held) /\ Len(log \o Held) = Len(log) + 1
        /\ (Len(log) + 1) - Len(log) = 1
    <3>1. Len(Held) = 1 /\ Len(log \o Held) = Len(log) + Len(Held)
      BY <1>4, <1>7
    <3> QED
      BY <1>6, <3>1
  <2>2. (log \o Held)[Len(log) + 1] = Held[1]
    BY <1>4, <1>6, <2>1
  <2> QED
    BY <1>5, <1>6, <2>1, <2>2
<1>11. Len(Line) = Len(log) + Len(Held) + Len(Items)
  BY <1>4, <1>5
<1> QED
  BY <1>1, <1>2, <1>3, <1>5, <1>7, <1>8, <1>9, <1>10, <1>11

LEMMA HeldSame ==
  ASSUME UNCHANGED log, Held' = Held, Items' = Items
  PROVE  Line' = Line
  BY DEF Line

\* Appending to the second of two sequences appends to both.
LEMMA AppendToConcat ==
  ASSUME NEW S, NEW s \in Seq(S), NEW t \in Seq(S), NEW x \in S
  PROVE  s \o Append(t, x) = Append(s \o t, x)
<1>1. <<x>> \in Seq(S) /\ s \o t \in Seq(S)
  BY ConcatProperties
<1>2. Append(t, x) = t \o <<x>> /\ Append(s \o t, x) = (s \o t) \o <<x>>
  BY <1>1, AppendIsConcat
<1>3. (s \o t) \o <<x>> = s \o (t \o <<x>>)
  BY <1>1, ConcatAssociative
<1> QED
  BY <1>2, <1>3

\* A step of a client's put().
LEMMA PutLine ==
  ASSUME Shared, IInv, IInv', BatchTypeOK, NEW c \in Clients, UNCHANGED log,
         (\E m \in Messages : Put(c, m)) \/ PutStep(c)
  PROVE  IF PutAdvance(c) THEN Line' = Append(Line, msg[c]) ELSE Line' = Line
<1>0. /\ TypeOK /\ TypeOK' /\ PutInv /\ c \in Threads /\ c # Runner /\ Runner \in Threads
      /\ c \in Producers
  BY RunnerFacts DEF IInv, Clients
<1>1. Held' = Held
  BY <1>0
     DEF Held, TypeOK, PutStep, Put, PutLock, PutSpace, PutWrite, PutAdvance, PutPost, PutWait, Goto
<1>2. CASE PutAdvance(c)
  <2>1. Items' = Append(Items, msg[c]) /\ msg[c] \in Messages
    BY <1>0, <1>2, AdvanceAppends DEF PutAdvance, PutInv
  <2>2. /\ log \o Held \in Seq(Messages) /\ Items \in Seq(Messages)
        /\ (log \o Held) \o Items \in Seq(Messages)
    BY LineShape, ConcatProperties
  <2>3. (log \o Held) \o Append(Items, msg[c]) = Append((log \o Held) \o Items, msg[c])
    BY <2>1, <2>2, AppendToConcat
  <2> QED
    BY <1>1, <1>2, <2>1, <2>3 DEF Line
<1>3. CASE ~PutAdvance(c)
  <2>1. Items' = Items
    <3>1. CASE PutWrite(c)
      BY <1>0, <3>1, WriteKeepsItems DEF PutWrite, PutInv
    <3>2. CASE ~PutWrite(c)
      BY <1>3, <3>2, SameRing DEF PutStep, Put, PutLock, PutSpace, PutPost, PutWait, ringVars
    <3> QED
      BY <3>1, <3>2
  <2> QED
    BY <1>1, <1>3, <2>1, HeldSame
<1> QED
  BY <1>2, <1>3

\* A step of run(), in get() or out of it.
LEMMA RunLine ==
  ASSUME Shared, IInv, IInv', BatchTypeOK,
         RunGet \/ RunJob \/ (GetStep(Runner) /\ UNCHANGED log)
  PROVE  Line' = Line
<1>0. /\ TypeOK /\ TypeOK' /\ GetInv /\ RingInv /\ Runner \in Threads /\ Runner \in Consumers
      /\ None \notin Messages
  BY RunnerFacts DEF IInv
<1>1. CASE RunGet
  <2>1. Items' = Items
    BY <1>1, SameRing DEF RunGet, Get, ringVars
  <2>2. Held' = Held
    BY <1>0, <1>1 DEF RunGet, Get, Goto, Held, TypeOK
  <2> QED
    BY <1>1, <2>1, <2>2, HeldSame DEF RunGet, batchVars
<1>2. CASE RunJob
  <2>1. Items' = Items
    BY <1>2, SameRing DEF RunJob, ringVars
  <2>2. /\ Held = <<msg[Runner]>> /\ Held' = <<>> /\ log' = Append(log, msg[Runner])
        /\ msg[Runner] \in Messages
    BY <1>0, <1>2 DEF RunJob, HasJob, Held, TypeOK
  <2>3. log' \o Held' = log \o Held
    <3>1. log \in Seq(Messages)
      BY LineShape
    <3>2. Append(log, msg[Runner]) = log \o <<msg[Runner]>> /\ log' \in Seq(Messages)
      BY <2>2, <3>1, AppendIsConcat, AppendProperties
    <3> QED
      BY <2>2, <3>2, ConcatEmptySeq
  <2> QED
    BY <2>1, <2>3 DEF Line
<1>3. CASE GetAdvance(Runner) /\ UNCHANGED log
  <2>1. /\ Used > 0 /\ Items # <<>> /\ Items' = Tail(Items) /\ Head(Items) = msg[Runner]
    BY <1>0, <1>3, RemoveTakesOldest DEF GetAdvance, GetInv
  <2>2. Items \in Seq(Messages) /\ log \in Seq(Messages)
    BY LineShape
  <2>3. msg[Runner] \in Messages /\ Items = <<msg[Runner]>> \o Tail(Items)
        /\ Tail(Items) \in Seq(Messages)
    <3>1. Head(Items) \in Messages /\ Tail(Items) \in Seq(Messages)
      BY <2>1, <2>2, HeadTailProperties
    <3>2. Items = <<Head(Items)>> \o Tail(Items)
      BY <2>1, <2>2
    <3> QED
      BY <2>1, <3>1, <3>2
  <2>4. Held = <<>> /\ Held' = <<msg[Runner]>>
    BY <1>0, <1>3, <2>3 DEF GetAdvance, Goto, Held, TypeOK
  <2>5. (log \o <<msg[Runner]>>) \o Tail(Items) = (log \o <<>>) \o Items
    <3>1. log \o <<>> = log
      BY <2>2, ConcatEmptySeq
    <3>2. (log \o <<msg[Runner]>>) \o Tail(Items) = log \o (<<msg[Runner]>> \o Tail(Items))
      BY <2>2, <2>3, ConcatAssociative
    <3> QED
      BY <2>3, <3>1, <3>2
  <2> QED
    BY <1>3, <2>1, <2>4, <2>5 DEF Line
<1>4. CASE (GetWait(Runner) \/ GetLock(Runner) \/ GetTest(Runner) \/ GetPost(Runner)) /\ UNCHANGED log
  <2>1. Items' = Items
    BY <1>4, SameRing DEF GetWait, GetLock, GetTest, GetPost, ringVars
  <2>2. Held' = Held
    BY <1>0, <1>4 DEF GetWait, GetLock, GetTest, GetPost, GetInv, Goto, Held, TypeOK
  <2> QED
    BY <1>4, <2>1, <2>2, HeldSame
<1> QED
  BY <1>1, <1>2, <1>3, <1>4 DEF GetStep

-----------------------------------------------------------------------------
(* Every step keeps the invariant.                                         *)

\* Steps that change neither the line nor what a client waits to queue.
LEMMA SameLine ==
  ASSUME LineInv, AskedInv, QuitInv, BatchTypeOK,
         Line' = Line, asked' = asked, running' = running, exited' = exited,
         \A c \in Clients :
           /\ Pending(c)' <=> Pending(c)
           /\ Pending(c) => msg'[c] = msg[c] /\ client'[c] = client[c],
         \A c \in Clients : client[c] = "ready" => client'[c] = "ready",
         \A c \in Clients : client'[c] # client[c] => client[c] # "quitting" /\ client'[c] # "deleted"
                                                     /\ client[c] # "deleted" /\ client'[c] # "quitting",
         ~running => pc'[Runner] = pc[Runner] /\ msg'[Runner] = msg[Runner]
  PROVE  LineInv' /\ AskedInv' /\ QuitInv'
<1>1. Quitting' <=> Quitting
  BY RunnerFacts DEF Quitting
<1>2. AskedInv'
  BY DEF AskedInv
<1>3. LineInv'
  BY DEF LineInv, Distinct
<1>4. QuitInv'
  BY <1>1, RunnerFacts DEF QuitInv, Fresh
<1> QED
  BY <1>2, <1>3, <1>4

LEMMA ExecuteKeeps ==
  ASSUME Shared, IInv, IInv', BInv, NEW c \in Clients, NEW j \in Jobs, Execute(c, j)
  PROVE  BInv'
<1> USE DEF BInv
<1>0. /\ TypeOK /\ TypeOK' /\ c \in Threads /\ Clients \subseteq Threads /\ c # Runner
      /\ Runner \in Threads /\ j # Quit
      /\ client[c] = "ready" /\ pc[c] = "idle"
      /\ pc' = [pc EXCEPT ![c] = "put"] /\ msg' = [msg EXCEPT ![c] = j]
      /\ asked' = [asked EXCEPT ![c] = Append(asked[c], j)]
      /\ client' = [client EXCEPT ![c] = "calling"]
      /\ UNCHANGED <<posted, running, exited, log>>
  BY RunnerFacts DEF IInv, Execute, Put, Goto
<1>1. Line' = Line
  BY <1>0, PutLine, RunnerFacts DEF Execute, Clients, Put, PutAdvance
<1>2. /\ asked \in [Clients -> Seq(Jobs)] /\ asked[c] \in Seq(Jobs)
      /\ Append(asked[c], j) \in Seq(Jobs)
      /\ Len(asked[c]) \in Nat
      /\ DOMAIN asked[c] = 1 .. Len(asked[c])
      /\ DOMAIN Append(asked[c], j) = 1 .. Len(asked[c]) + 1
      /\ Len(Append(asked[c], j)) = Len(asked[c]) + 1
      /\ \A i \in 1 .. Len(asked[c]) : Append(asked[c], j)[i] = asked[c][i]
      /\ Append(asked[c], j)[Len(asked[c]) + 1] = j
  BY AppendProperties, LenProperties DEF BatchTypeOK
<1>3. \A d \in Clients : \A i \in DOMAIN asked[d] : asked[d][i] # j
  BY DEF Execute, Fresh, ToSet
<1>4. BatchTypeOK'
  BY <1>0, <1>2 DEF BatchTypeOK
<1>5. ClientInv'
  <2>1. ASSUME NEW d \in Clients, d # c
        PROVE  /\ pc'[d] = pc[d] /\ msg'[d] = msg[d] /\ client'[d] = client[d]
               /\ asked'[d] = asked[d]
    BY <1>0, <2>1 DEF TypeOK, BatchTypeOK
  <2>2. /\ pc'[c] = "put" /\ msg'[c] = j /\ client'[c] = "calling"
        /\ asked'[c] = Append(asked[c], j)
    BY <1>0, <1>2 DEF TypeOK, BatchTypeOK
  <2>3. asked'[c] # <<>> /\ Last(asked'[c]) = j
    <3>1. asked[c] \in Seq(Jobs)
      BY DEF BatchTypeOK
    <3>2. /\ Len(asked'[c]) = Len(asked[c]) + 1 /\ Len(asked[c]) \in Nat
          /\ asked'[c][Len(asked[c]) + 1] = j
      BY <1>2, <2>2
    <3> QED
      BY <2>2, <3>1, <3>2 DEF Last
  <2> QED
    BY <2>1, <2>2, <2>3 DEF ClientInv, Pending
<1>6. AskedInv'
  BY <1>0, <1>2, <1>3 DEF AskedInv
<1>7. ~Quitting /\ ~Quitting'
  <2>1. ~Quitting
    BY DEF QuitInv, Execute
  <2> QED
    BY <1>0, <2>1 DEF Quitting, BatchTypeOK
<1>8. \A i \in DOMAIN Line : Line[i] # j
  BY <1>0, <1>3 DEF LineInv, ToSet
<1>9. LineInv'
  <2>1. \A d \in Clients : Pending(d)' => msg'[d] \notin ToSet(Line')
    <3>1. \A d \in Clients : d # c => (Pending(d)' <=> Pending(d)) /\ msg'[d] = msg[d]
      BY <1>0 DEF Pending, TypeOK
    <3>2. msg'[c] = j
      BY <1>0 DEF TypeOK
    <3> QED
      BY <1>1, <1>8, <3>1, <3>2 DEF LineInv, ToSet
  <2>2. ASSUME NEW d \in Clients, NEW i \in DOMAIN asked'[d]
        PROVE  \/ asked'[d][i] \in ToSet(Line')
               \/ i = Len(asked'[d]) /\ Pending(d)' /\ client'[d] = "calling"
    <3>1. CASE d # c
      <4>1. asked'[d] = asked[d] /\ client'[d] = client[d] /\ (Pending(d)' <=> Pending(d))
        BY <1>0, <3>1 DEF Pending, TypeOK, BatchTypeOK
      <4> QED
        BY <1>1, <4>1, <2>2 DEF LineInv
    <3>2. CASE d = c
      <4>1. asked'[c] = Append(asked[c], j) /\ client'[c] = "calling" /\ Pending(c)'
        BY <1>0, <1>2 DEF Pending, TypeOK, BatchTypeOK
      <4>2. \A k \in DOMAIN asked[c] : asked[c][k] \in ToSet(Line)
        BY <1>0 DEF LineInv
      <4> QED
        BY <1>1, <1>2, <2>2, <3>2, <4>1, <4>2
    <3> QED
      BY <3>1, <3>2
  <2>3. ASSUME NEW d \in Clients, NEW i \in DOMAIN Line', NEW later \in DOMAIN asked'[d],
               Line'[i] = asked'[d][later], NEW earlier \in 1 .. later - 1
        PROVE  \E k \in 1 .. i - 1 : Line'[k] = asked'[d][earlier]
    <3>1. CASE d # c
      <4>1. asked'[d] = asked[d]
        BY <1>0, <3>1 DEF BatchTypeOK
      <4> QED
        BY <1>1, <2>3, <4>1 DEF LineInv
    <3>2. CASE d = c
      <4>1. asked'[c] = Append(asked[c], j)
        BY <1>0, <1>2
      <4>2. later \in 1 .. Len(asked[c])
        BY <1>1, <1>2, <1>8, <2>3, <3>2, <4>1
      <4>3. Line[i] = asked[c][later] /\ asked'[c][earlier] = asked[c][earlier]
        BY <1>1, <1>2, <2>3, <3>2, <4>1, <4>2
      <4>4. earlier \in 1 .. later - 1 /\ i \in DOMAIN Line /\ later \in DOMAIN asked[c]
        BY <1>1, <1>2, <2>3, <4>2
      <4>5. \E k \in 1 .. i - 1 : Line[k] = asked[c][earlier]
        BY <4>3, <4>4 DEF LineInv
      <4> QED
        BY <1>1, <3>2, <4>3, <4>5
    <3> QED
      BY <3>1, <3>2
  <2>4. \A i \in DOMAIN Line' : Line'[i] = Quit \/ \E d \in Clients : Line'[i] \in ToSet(asked'[d])
    <3>1. \A d \in Clients : ToSet(asked[d]) \subseteq ToSet(asked'[d])
      BY <1>0, <1>2 DEF ToSet
    <3> QED
      BY <1>1, <3>1 DEF LineInv
  <2>5. Distinct(Line')
    BY <1>1 DEF LineInv
  <2> QED
    BY <2>1, <2>2, <2>3, <2>4, <2>5 DEF LineInv
<1>10. QuitInv'
  <2>1. pc'[Runner] = pc[Runner] /\ msg'[Runner] = msg[Runner]
    BY <1>0 DEF TypeOK
  <2>2. client'[Owner] # "deleted"
    BY <1>7 DEF Quitting
  <2> QED
    BY <1>0, <1>1, <1>7, <2>1, <2>2 DEF QuitInv
<1> QED
  BY <1>4, <1>5, <1>6, <1>9, <1>10

\* put() queues the message: it goes to the end of the line.
LEMMA AdvanceKeeps ==
  ASSUME Shared, IInv, IInv', BInv, NEW c \in Clients, PutAdvance(c), UNCHANGED batchVars
  PROVE  BInv'
<1> USE DEF BInv
<1>0. /\ TypeOK /\ TypeOK' /\ PutInv /\ c \in Threads /\ Clients \subseteq Threads /\ c # Runner
      /\ Runner \in Threads /\ c \in Producers
      /\ pc[c] = "advance" /\ pc' = [pc EXCEPT ![c] = "post"] /\ msg' = msg
      /\ UNCHANGED <<asked, client, posted, running, exited, log>>
  BY RunnerFacts DEF IInv, PutAdvance, Goto, batchVars, Clients
<1> DEFINE m == msg[c]
           n == Len(Line)
<1>1. /\ Line' = Append(Line, m) /\ m \in Messages
      /\ Line \in Seq(Messages)
  BY <1>0, PutLine, LineShape DEF PutInv, PutStep
<1>2. /\ Len(Line) \in Nat /\ DOMAIN Line = 1 .. n
      /\ DOMAIN Line' = 1 .. n + 1 /\ Len(Line') = n + 1
      /\ \A i \in 1 .. n : Line'[i] = Line[i]
      /\ Line'[n + 1] = m
  BY <1>1, AppendProperties, LenProperties
<1>3. m \notin ToSet(Line) /\ \A i \in 1 .. n : Line[i] # m
  BY <1>0, <1>2 DEF LineInv, Pending, ToSet
<1>4. ToSet(Line') = ToSet(Line) \cup {m}
  BY <1>2 DEF ToSet
<1>5. \/ client[c] = "calling" /\ asked[c] # <<>> /\ m = asked[c][Len(asked[c])] /\ m \in Jobs
         /\ Len(asked[c]) \in DOMAIN asked[c]
      \/ client[c] = "quitting" /\ m = Quit /\ c = Owner
  <2>1. client[c] \in {"calling", "quitting"}
    BY <1>0 DEF ClientInv, BatchTypeOK
  <2>2. asked[c] \in Seq(Jobs)
    BY DEF BatchTypeOK
  <2>3. asked[c] # <<>> => Len(asked[c]) \in DOMAIN asked[c] /\ asked[c][Len(asked[c])] \in Jobs
    BY <2>2
  <2> QED
    BY <1>0, <2>1, <2>3 DEF ClientInv, Pending, Last
<1>6. BatchTypeOK'
  BY <1>0 DEF BatchTypeOK
<1>7. \A d \in Clients : d # c => (Pending(d)' <=> Pending(d)) /\ pc'[d] = pc[d]
  BY <1>0 DEF Pending, TypeOK
<1>8. pc'[c] = "post" /\ ~Pending(c)'
  BY <1>0 DEF Pending, TypeOK
<1>9. ClientInv'
  BY <1>0, <1>5, <1>7, <1>8 DEF ClientInv
<1>10. AskedInv'
  BY <1>0 DEF AskedInv
<1>11. \A d \in Clients : d # c /\ Pending(d) => msg[d] # m
  <2> SUFFICES ASSUME NEW d \in Clients, d # c, Pending(d) PROVE msg[d] # m
    OBVIOUS
  <2>1. client[d] \in {"calling", "quitting"}
    BY DEF ClientInv, BatchTypeOK, Pending
  <2>2. CASE client[d] = "quitting"
    <3>1. msg[d] = Quit /\ d = Owner
      BY <2>2 DEF ClientInv
    <3> QED
      BY <1>5, <3>1, RunnerFacts
  <2>3. CASE client[d] = "calling"
    <3>1. /\ msg[d] = asked[d][Len(asked[d])] /\ asked[d] \in Seq(Jobs) /\ asked[d] # <<>>
      BY <2>3 DEF ClientInv, Last, BatchTypeOK
    <3>2. Len(asked[d]) \in DOMAIN asked[d] /\ msg[d] \in Jobs
      BY <3>1
    <3> QED
      BY <1>5, <3>1, <3>2, RunnerFacts DEF AskedInv
  <2> QED
    BY <2>1, <2>2, <2>3
<1>12. LineInv'
  <2>1. Distinct(Line')
    BY <1>2, <1>3 DEF LineInv, Distinct
  <2>2. \A d \in Clients : Pending(d)' => msg'[d] \notin ToSet(Line')
    BY <1>0, <1>4, <1>7, <1>8, <1>11 DEF LineInv
  <2>3. \A d \in Clients : \A i \in DOMAIN asked'[d] :
          \/ asked'[d][i] \in ToSet(Line')
          \/ i = Len(asked'[d]) /\ Pending(d)' /\ client'[d] = "calling"
    BY <1>0, <1>4, <1>5, <1>7 DEF LineInv
  <2>4. ASSUME NEW d \in Clients, NEW i \in DOMAIN Line', NEW later \in DOMAIN asked'[d],
               Line'[i] = asked'[d][later], NEW earlier \in 1 .. later - 1
        PROVE  \E k \in 1 .. i - 1 : Line'[k] = asked'[d][earlier]
    <3>1. CASE i \in 1 .. n
      <4>1. \E k \in 1 .. i - 1 : Line[k] = asked[d][earlier]
        BY <1>0, <1>2, <2>4, <3>1 DEF LineInv
      <4> QED
        BY <1>0, <1>2, <3>1, <4>1
    <3>2. CASE i = n + 1
      <4>1. /\ asked[d] \in Seq(Jobs) /\ asked[d][later] = m /\ later \in 1 .. Len(asked[d])
            /\ Len(asked[d]) \in Nat
        BY <1>0, <1>2, <2>4, <3>2 DEF BatchTypeOK
      <4>2. asked[d][later] \in Jobs
        BY <4>1
      <4>3. d = c /\ later = Len(asked[c])
        BY <1>5, <4>1, <4>2, RunnerFacts DEF AskedInv
      <4>4. earlier \in DOMAIN asked[c] /\ earlier # Len(asked[c])
        BY <2>4, <4>1, <4>3
      <4>5. asked[c][earlier] \in ToSet(Line)
        BY <4>4 DEF LineInv
      <4>6. PICK k \in 1 .. n : Line[k] = asked[c][earlier]
        BY <1>2, <4>5 DEF ToSet
      <4> QED
        BY <1>0, <1>2, <3>2, <4>3, <4>6
    <3> QED
      BY <1>2, <3>1, <3>2
  <2>5. \A i \in DOMAIN Line' : Line'[i] = Quit \/ \E d \in Clients : Line'[i] \in ToSet(asked'[d])
    <3>1. m = Quit \/ m \in ToSet(asked[c])
      BY <1>5 DEF ToSet
    <3>2. \A i \in 1 .. n : Line[i] = Quit \/ \E d \in Clients : Line[i] \in ToSet(asked[d])
      BY <1>2 DEF LineInv
    <3> QED
      BY <1>0, <1>2, <3>1, <3>2
  <2> QED
    BY <2>1, <2>2, <2>3, <2>4, <2>5 DEF LineInv
<1>13. QuitInv'
  <2>1. Quitting' <=> Quitting
    BY <1>0 DEF Quitting
  <2>2. Quitting => m = Quit
    BY <1>5, RunnerFacts DEF Quitting, QuitInv
  <2>3. \A i \in 1 .. n : Line[i] # Quit
    BY <1>2, <1>3, <2>2 DEF QuitInv
  <2>4. m = Quit => Quitting
    BY <1>5, RunnerFacts DEF Quitting
  <2>5. \A i \in DOMAIN Line' : Line'[i] = Quit => Quitting' /\ i = Len(Line')
    BY <1>2, <2>1, <2>3, <2>4
  <2>6. pc'[Runner] = pc[Runner] /\ msg'[Runner] = msg[Runner]
    BY <1>0 DEF TypeOK
  <2>7. \A j : Fresh(j)' <=> Fresh(j)
    BY <1>0 DEF Fresh
  <2> QED
    BY <1>0, <2>1, <2>5, <2>6, <2>7 DEF QuitInv
<1> QED
  BY <1>6, <1>9, <1>10, <1>12, <1>13

LEMMA ClientKeeps ==
  ASSUME Shared, IInv, IInv', BInv, NEW c \in Clients, Client(c)
  PROVE  BInv'
<1> USE DEF BInv
<1>0. /\ TypeOK /\ TypeOK' /\ c \in Threads /\ Clients \subseteq Threads /\ c # Runner
      /\ Runner \in Threads /\ c \in Producers
  BY RunnerFacts DEF IInv, Clients
<1>1. CASE \E j \in Jobs : Execute(c, j)
  BY <1>1, ExecuteKeeps
<1>2. CASE Executed(c) \/ WaitJob(c)
  <2>1. /\ UNCHANGED <<data, in, out, pc, msg, asked, running, exited, log>> /\ pc[c] = "idle"
        /\ \E x \in {"waiting", "ready"} : client' = [client EXCEPT ![c] = x]
        /\ client[c] \in {"calling", "waiting"}
    BY <1>2 DEF Executed, WaitJob, ClientInv, vars, ringVars
  <2>2. Line' = Line
    BY <2>1, SameRing, HeldSame DEF Held
  <2>3. BatchTypeOK'
    <3>2. posted' \in [WaitJobs -> Nat]
      <4>1. CASE Executed(c)
        BY <4>1 DEF Executed, BatchTypeOK
      <4>2. CASE WaitJob(c)
        <5>1. PICK w : w = Last(asked[c])
          OBVIOUS
        <5>2. posted' = [posted EXCEPT ![w] = posted[w] - 1] /\ posted[w] > 0
          BY <4>2, <5>1 DEF WaitJob
        <5>3. CASE w \in WaitJobs
          <6>1. posted[w] - 1 \in Nat
            BY <5>2, <5>3 DEF BatchTypeOK
          <6> QED
            BY <5>2, <6>1 DEF BatchTypeOK
        <5>4. CASE w \notin WaitJobs
          BY <5>2, <5>4 DEF BatchTypeOK
        <5> QED
          BY <5>3, <5>4
      <4> QED
        BY <1>2, <4>1, <4>2
    <3> QED
      BY <2>1, <3>2 DEF BatchTypeOK
  <2>4. ClientInv'
    BY <2>1 DEF ClientInv, BatchTypeOK, Pending
  <2>5. LineInv' /\ AskedInv' /\ QuitInv'
    BY <2>1, <2>2, SameLine DEF Pending, BatchTypeOK
  <2> QED
    BY <2>3, <2>4, <2>5
<1>3. CASE PutAdvance(c) /\ UNCHANGED batchVars
  BY <1>3, AdvanceKeeps
<1>4. CASE PutStep(c) /\ ~PutAdvance(c) /\ UNCHANGED batchVars
  <2>1. UNCHANGED <<asked, client, posted, running, exited, log>> /\ Line' = Line
    BY <1>0, <1>4, PutLine DEF batchVars
  <2>2. /\ pc[c] # "idle" /\ (Pending(c)' <=> Pending(c)) /\ (Pending(c) => msg'[c] = msg[c])
        /\ \A t \in Threads : t # c => pc'[t] = pc[t] /\ msg'[t] = msg[t]
    BY <1>0, <1>4
       DEF PutStep, PutLock, PutSpace, PutWrite, PutPost, PutWait, Goto, Pending, TypeOK
  <2>3. BatchTypeOK'
    BY <2>1 DEF BatchTypeOK
  <2>4. ClientInv'
    BY <1>0, <2>1, <2>2 DEF ClientInv, BatchTypeOK, Pending
  <2>5. \A d \in Clients : (Pending(d)' <=> Pending(d)) /\ (Pending(d) => msg'[d] = msg[d])
    BY <1>0, <2>2 DEF Pending
  <2>6. LineInv' /\ AskedInv' /\ QuitInv'
    BY <1>0, <2>1, <2>2, <2>5, SameLine
  <2> QED
    BY <2>3, <2>4, <2>6
<1>5. CASE c = Owner /\ Delete
  <2>1. /\ client[c] = "ready" /\ pc[c] = "idle" /\ \A d \in Clients : client[d] = "ready"
        /\ pc' = [pc EXCEPT ![c] = "put"] /\ msg' = [msg EXCEPT ![c] = Quit]
        /\ client' = [client EXCEPT ![c] = "quitting"]
        /\ UNCHANGED <<asked, posted, running, exited, log>>
        /\ \A j \in Jobs : ~Fresh(j)
    BY <1>5 DEF Delete, Put, Goto
  <2>2. Line' = Line
    BY <1>0, <1>5, <2>1, PutLine, RunnerFacts DEF Delete, PutAdvance
  <2>3. BatchTypeOK'
    BY <2>1 DEF BatchTypeOK
  <2>4. \A d \in Clients : d # c => pc'[d] = pc[d] /\ msg'[d] = msg[d] /\ client'[d] = client[d]
    BY <1>0, <2>1 DEF TypeOK, BatchTypeOK
  <2>5. pc'[c] = "put" /\ msg'[c] = Quit /\ client'[c] = "quitting"
    BY <1>0, <2>1 DEF TypeOK, BatchTypeOK
  <2>6. ClientInv'
    BY <1>5, <2>1, <2>4, <2>5 DEF ClientInv, Pending
  <2>7. AskedInv'
    BY <2>1 DEF AskedInv
  <2>8. ~Quitting /\ Quitting'
    BY <1>5, <2>1, <2>5 DEF Quitting
  <2>9. \A i \in DOMAIN Line : Line[i] # Quit
    BY <2>8 DEF QuitInv
  <2>10. LineInv'
    <3>1. \A d \in Clients : Pending(d)' => msg'[d] \notin ToSet(Line')
      BY <2>2, <2>4, <2>5, <2>9 DEF LineInv, Pending, ToSet
    <3>2. \A d \in Clients : \A i \in DOMAIN asked[d] : asked[d][i] \in ToSet(Line)
      BY <2>1 DEF LineInv
    <3> QED
      BY <2>1, <2>2, <3>1, <3>2 DEF LineInv, Distinct
  <2>11. QuitInv'
    <3>1. pc'[Runner] = pc[Runner] /\ msg'[Runner] = msg[Runner]
      BY <1>0, <2>1 DEF TypeOK
    <3>2. \A j : Fresh(j)' <=> Fresh(j)
      BY <2>1 DEF Fresh
    <3>3. client'[Owner] = "quitting" /\ \A d \in Clients : d # Owner => client'[d] = "ready"
      BY <1>5, <2>1, <2>4, <2>5
    <3> QED
      BY <2>1, <2>2, <2>9, <3>1, <3>2, <3>3 DEF QuitInv
  <2> QED
    BY <2>3, <2>6, <2>7, <2>10, <2>11
<1>6. CASE c = Owner /\ Join
  <2>1. /\ client[c] = "quitting" /\ pc[c] = "idle" /\ exited /\ client' = [client EXCEPT ![c] = "deleted"]
        /\ UNCHANGED <<data, in, out, pc, msg, asked, posted, running, exited, log>>
    BY <1>6 DEF Join, vars, ringVars
  <2>2. Line' = Line
    BY <2>1, SameRing, HeldSame DEF Held
  <2>3. BatchTypeOK'
    BY <2>1 DEF BatchTypeOK
  <2>4. ClientInv'
    BY <1>6, <2>1 DEF ClientInv, BatchTypeOK, Pending
  <2>5. AskedInv' /\ (Quitting' <=> Quitting)
    BY <1>6, <2>1 DEF AskedInv, Quitting, BatchTypeOK
  <2>6. LineInv'
    <3>1. \A d \in Clients :
            /\ Pending(d)' <=> Pending(d)
            /\ Pending(d) /\ client[d] = "calling" => client'[d] = "calling"
      BY <2>1 DEF Pending, BatchTypeOK
    <3> QED
      BY <2>1, <2>2, <3>1 DEF LineInv, Distinct
  <2>7. QuitInv'
    BY <1>6, <2>1, <2>2, <2>5 DEF QuitInv, Fresh, BatchTypeOK
  <2> QED
    BY <2>3, <2>4, <2>5, <2>6, <2>7
<1> QED
  BY <1>1, <1>2, <1>3, <1>4, <1>5, <1>6 DEF Client

LEMMA RunKeeps ==
  ASSUME Shared, IInv, IInv', BInv, Run
  PROVE  BInv'
<1> USE DEF BInv
<1>0. /\ TypeOK /\ TypeOK' /\ Clients \subseteq Threads /\ Runner \notin Clients
      /\ Runner \in Threads /\ Runner \in Consumers
  BY RunnerFacts DEF IInv, Clients
<1>1. CASE RunGet \/ RunJob \/ (GetStep(Runner) /\ UNCHANGED batchVars)
  <2>1. UNCHANGED <<asked, client, running, exited>>
    BY <1>1 DEF RunGet, RunJob, batchVars
  <2>2. Line' = Line
    BY <1>1, RunLine DEF batchVars
  <2>3. \A c \in Clients : pc'[c] = pc[c] /\ msg'[c] = msg[c]
    BY <1>0, <1>1
       DEF RunGet, Get, RunJob, GetStep, GetWait, GetLock, GetTest, GetAdvance, GetPost, Goto, TypeOK
  <2>4. running
    BY <1>1
       DEF RunGet, RunJob, HasJob, GetStep, GetWait, GetLock, GetTest, GetAdvance, GetPost, QuitInv
  <2>5. BatchTypeOK'
    <3>1. CASE RunJob
      <4>1. msg[Runner] \in Jobs /\ log' = Append(log, msg[Runner])
        BY <1>0, <3>1 DEF RunJob, HasJob, TypeOK, Jobs
      <4>2. log' \in Seq(Jobs)
        BY <4>1, AppendProperties DEF BatchTypeOK
      <4>3. posted' \in [WaitJobs -> Nat]
        BY <3>1 DEF RunJob, BatchTypeOK
      <4> QED
        BY <2>1, <4>2, <4>3 DEF BatchTypeOK
    <3>2. CASE ~RunJob
      BY <1>1, <3>2 DEF RunGet, batchVars, BatchTypeOK
    <3> QED
      BY <3>1, <3>2
  <2>6. ClientInv'
    BY <2>1, <2>3 DEF ClientInv, Pending
  <2>7. LineInv' /\ AskedInv' /\ QuitInv'
    BY <2>1, <2>2, <2>3, <2>4, SameLine DEF Pending
  <2> QED
    BY <2>5, <2>6, <2>7
<1>2. CASE RunQuit \/ Exit
  <2>1. /\ UNCHANGED <<data, in, out, pc, msg, asked, client, posted, log>>
        /\ running' = FALSE /\ (running => HasJob /\ msg[Runner] = Quit)
        /\ exited' = exited \/ exited' = TRUE
    BY <1>2 DEF RunQuit, Exit, vars, ringVars, BatchTypeOK
  <2>2. Line' = Line
    BY <2>1, SameRing, HeldSame DEF Held
  <2>3. BatchTypeOK' /\ ClientInv' /\ AskedInv' /\ LineInv'
    <3>1. BatchTypeOK'
      BY <2>1 DEF BatchTypeOK
    <3>2. ClientInv' /\ AskedInv'
      BY <2>1 DEF ClientInv, AskedInv, Pending
    <3>3. LineInv'
      BY <2>1, <2>2 DEF LineInv, Distinct, Pending
    <3> QED
      BY <3>1, <3>2, <3>3
  <2>4. QuitInv'
    BY <2>1, <2>2 DEF QuitInv, Quitting, Fresh, HasJob
  <2> QED
    BY <2>3, <2>4
<1> QED
  BY <1>1, <1>2 DEF Run

LEMMA StepBInv == Shared /\ IInv /\ IInv' /\ BInv /\ [BatchNext]_allVars => BInv'
<1> SUFFICES ASSUME Shared, IInv, IInv', BInv, [BatchNext]_allVars PROVE BInv'
  OBVIOUS
<1>1. CASE UNCHANGED allVars
  <2>1. UNCHANGED <<data, in, out, pc, msg, asked, client, posted, running, exited, log>>
    BY <1>1 DEF allVars, vars, ringVars, batchVars
  <2>2. Line' = Line
    BY <2>1, SameRing, HeldSame DEF Held
  <2> QED
    BY <2>1, <2>2
       DEF BInv, BatchTypeOK, ClientInv, AskedInv, LineInv, QuitInv, Quitting, Fresh, Pending, Distinct
<1> QED
  BY <1>1, ClientKeeps, RunKeeps DEF BatchNext

LEMMA InitBInv == BatchInit => IInv /\ BInv
<1> SUFFICES ASSUME BatchInit PROVE BInv
  BY InitIInv DEF BatchInit
<1>1. IInv
  BY InitIInv DEF BatchInit
<1>2. BatchTypeOK
  <2>1. <<>> \in Seq(Jobs)
    BY EmptySeq
  <2> QED
    BY <2>1 DEF BatchInit, BatchTypeOK
<1>3. \A t \in Threads : pc[t] = "idle" /\ msg[t] = None
  BY DEF BatchInit, Init
<1>4. Len(Line) = 0 /\ DOMAIN Line = {}
  <2>1. log = <<>> /\ Held = <<>>
    BY <1>3, RunnerFacts DEF BatchInit, Held
  <2>2. Used = 0 /\ Len(Items) = Used
    BY <1>1, RingFacts DEF IInv, RingShape, BatchInit, Init
  <2>3. Len(Line) = 0 + 0 + 0
    BY <1>1, <1>2, <2>1, <2>2, LineShape
  <2> QED
    BY <1>1, <1>2, <2>3, LineShape
<1>5. \A c \in Clients : asked[c] = <<>> /\ client[c] = "ready" /\ pc[c] = "idle"
  BY <1>3, RunnerFacts DEF BatchInit
<1>6. ClientInv /\ AskedInv
  BY <1>5 DEF ClientInv, AskedInv
<1>7. LineInv
  BY <1>4, <1>5 DEF LineInv, Distinct, Pending
<1>8. QuitInv
  BY <1>4, <1>5, RunnerFacts DEF QuitInv, Quitting, BatchInit
<1> QED
  BY <1>2, <1>6, <1>7, <1>8 DEF BInv

LEMMA AlwaysBInv ==
  ASSUME Shared
  PROVE  BatchSpec => [](IInv /\ BInv)
<1>1. IInv /\ [BatchNext]_allVars => IInv'
  BY BatchKeepsQueue
<1>2. IInv /\ IInv' /\ BInv /\ [BatchNext]_allVars => BInv'
  BY StepBInv
<1> QED
  BY <1>1, <1>2, InitBInv, PTL DEF BatchSpec

-----------------------------------------------------------------------------
LEMMA OrderFollows == IInv /\ BInv => RunsInOrder
<1> SUFFICES ASSUME IInv, BInv PROVE RunsInOrder
  OBVIOUS
<1>1. /\ Len(log) \in Nat /\ Len(Line) \in Nat /\ Len(log) <= Len(Line)
      /\ DOMAIN Line = 1 .. Len(Line) /\ DOMAIN log = 1 .. Len(log)
      /\ \A i \in 1 .. Len(log) : Line[i] = log[i]
  <2>1. /\ log \in Seq(Messages) /\ Held \in Seq(Messages) /\ Items \in Seq(Messages)
        /\ Len(Line) = Len(log) + Len(Held) + Len(Items)
    BY LineShape DEF BInv
  <2>2. Len(log) \in Nat /\ Len(Held) \in Nat /\ Len(Items) \in Nat
    BY <2>1, LenProperties
  <2> QED
    BY <2>1, <2>2, LineShape DEF BInv
<1>2. \A i, k \in DOMAIN log : log[i] = log[k] => i = k
  BY <1>1 DEF BInv, LineInv, Distinct
<1>3. ASSUME NEW c \in Clients, NEW i \in DOMAIN log, NEW later \in DOMAIN asked[c],
             log[i] = asked[c][later], NEW earlier \in 1 .. later - 1
      PROVE  \E k \in 1 .. i - 1 : log[k] = asked[c][earlier]
  <2>1. \E k \in 1 .. i - 1 : Line[k] = asked[c][earlier]
    BY <1>1, <1>3 DEF BInv, LineInv
  <2> QED
    BY <1>1, <2>1
<1> QED
  BY <1>2, <1>3 DEF RunsInOrder

LEMMA DeleteFollows == IInv /\ BInv => DeleteCompletesJobs
<1> SUFFICES ASSUME IInv, BInv, Deleted
             PROVE  ToSet(log) = Jobs /\ (\A t \in Threads : pc[t] = "idle") /\ exited
  BY DEF DeleteCompletesJobs
<1>1. /\ Quitting /\ exited /\ ~running /\ pc[Runner] = "idle" /\ msg[Runner] = Quit
  BY DEF BInv, QuitInv, Quitting, Deleted
<1>2. \A c \in Clients : pc[c] = "idle"
  BY <1>1 DEF BInv, QuitInv, ClientInv, Deleted
<1>3. \A t \in Threads : pc[t] = "idle"
  BY <1>1, <1>2, RunnerFacts
<1>4. Held = <<Quit>>
  BY <1>1, RunnerFacts DEF Held
<1>5. /\ Len(log) \in Nat /\ Len(Items) \in Nat
      /\ Len(Line) = Len(log) + 1 + Len(Items) /\ Line[Len(log) + 1] = Quit
      /\ DOMAIN Line = 1 .. Len(Line) /\ DOMAIN log = 1 .. Len(log)
      /\ \A i \in 1 .. Len(log) : Line[i] = log[i]
  <2>1. /\ log \in Seq(Messages) /\ Items \in Seq(Messages) /\ Len(<<Quit>>) = 1
    BY LineShape DEF BInv
  <2>2. Len(log) \in Nat /\ Len(Items) \in Nat
    BY <2>1, LenProperties
  <2> QED
    BY <1>4, <2>1, <2>2, LineShape DEF BInv
<1>6. Len(Line) = Len(log) + 1
  BY <1>5 DEF BInv, QuitInv
<1>7. ASSUME NEW j \in Jobs PROVE j \in ToSet(log)
  <2>1. PICK c \in Clients : j \in ToSet(asked[c])
    BY <1>1 DEF BInv, QuitInv, Fresh
  <2>2. PICK i \in DOMAIN asked[c] : asked[c][i] = j
    BY <2>1 DEF ToSet
  <2>3. ~Pending(c)
    BY <1>2 DEF Pending
  <2>4. j \in ToSet(Line)
    BY <2>2, <2>3 DEF BInv, LineInv
  <2>5. PICK k \in 1 .. Len(log) + 1 : Line[k] = j
    BY <1>5, <1>6, <2>4 DEF ToSet
  <2>6. k # Len(log) + 1
    BY <1>5, <2>5, RunnerFacts
  <2> QED
    BY <1>5, <2>5, <2>6 DEF ToSet
<1>8. ToSet(log) \subseteq Jobs
  BY DEF BInv, BatchTypeOK, ToSet
<1> QED
  BY <1>1, <1>3, <1>7, <1>8

\* Deleting a task "waits for all tasks to complete" (unit-tests/batch.cpp:59): by then
\* every job has run, once and in the order of its client, and nobody is in put()
\* or get(), so that the queue can be freed (batch.cpp:37-44).
THEOREM TaskRunsAll ==
  ASSUME Shared
  PROVE  BatchSpec => []JobsAreDone
<1>1. IInv /\ BInv => JobsAreDone
  BY OrderFollows, DeleteFollows DEF JobsAreDone
<1> QED
  BY <1>1, AlwaysBInv, PTL
=============================================================================
