---------------------------- MODULE BoundedQueue ----------------------------
(***************************************************************************)
(* What panglos/queue.h promises: a bounded first-in first-out queue.      *)
(* put() returns once its message is in the queue; get() returns the       *)
(* oldest message.  A message is neither lost, repeated nor overtaken.     *)
(***************************************************************************)
EXTENDS Naturals, Sequences

CONSTANTS
  Producers,  \* the threads that call put()
  Consumers,  \* the threads that call get()
  Messages,   \* what they put
  Capacity,   \* how many messages the queue holds
  Nothing     \* no message

VARIABLES
  items,      \* the queued messages, oldest first
  putting,    \* the message of each producer's put() that is not queued yet
  got         \* the message each consumer's last get() took, or Nothing

vars == <<items, putting, got>>

Init ==
  /\ items = <<>>
  /\ putting = [p \in Producers |-> Nothing]
  /\ got = [c \in Consumers |-> Nothing]

CallPut(p, m) ==
  /\ putting[p] = Nothing
  /\ putting' = [putting EXCEPT ![p] = m]
  /\ UNCHANGED <<items, got>>

Enqueue(p) ==
  /\ putting[p] # Nothing
  /\ Len(items) < Capacity
  /\ items' = Append(items, putting[p])
  /\ putting' = [putting EXCEPT ![p] = Nothing]
  /\ UNCHANGED got

CallGet(c) ==
  /\ got' = [got EXCEPT ![c] = Nothing]
  /\ UNCHANGED <<items, putting>>

TakeOldest(c) ==
  /\ got[c] = Nothing
  /\ items # <<>>
  /\ got' = [got EXCEPT ![c] = Head(items)]
  /\ items' = Tail(items)
  /\ UNCHANGED putting

Next ==
  \/ \E p \in Producers : (\E m \in Messages : CallPut(p, m)) \/ Enqueue(p)
  \/ \E c \in Consumers : CallGet(c) \/ TakeOldest(c)

Spec == Init /\ [][Next]_vars
=============================================================================
