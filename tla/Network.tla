------------------------------ MODULE Network ------------------------------
(***************************************************************************)
(* The network interface (src/network.cpp) with the WiFi interface of the  *)
(* ESP32 (src/esp32/network.cpp): the list of access points, through which *)
(* connect() goes until one answers, holding ap_mutex; the observers of    *)
(* the interface, which the task of the ESP-IDF's events calls, holding    *)
(* con_mutex; and the iterators over the two lists.  A list is the         *)
(* sequence of its items.                                                  *)
(***************************************************************************)
EXTENDS Integers, Sequences, FiniteSets, SequencesExt

CONSTANTS
  AccessPoints,
  Observers,    \* connections that the application adds
  Waiter,       \* the ConnectionWaiter of do_connect()
  None,
  MaxEvents     \* bound: events of the WiFi driver, and changes of the lists

NetworkAssumption ==
  /\ IsFiniteSet(AccessPoints) /\ None \notin AccessPoints
  /\ Waiter \notin Observers
  /\ MaxEvents \in Nat

VARIABLES
  access_points,  \* the list
  iter,           \* the iterator of a thread in get_ap(), None at its start
  returned,       \* history: what it has returned
  missed,         \* history: access points added or deleted since it started
  connections,    \* the list of observers
  up,             \* is_connected()
  task,           \* the task of events: what it tells, and whom it still has to
  told,           \* what each observer was told last
  view,           \* ConnectionWaiter::iface, as whether it is set
  sem,            \* ConnectionWaiter::sem
  caller,         \* where connect() is, and what it has still to try
  asked,          \* the attempts that the driver has not answered
  netEvents

apVars == <<access_points, iter, returned, missed>>
obsVars == <<connections, told>>
waitVars == <<view, sem, caller, asked>>
netVars == <<apVars, obsVars, up, task, waitVars, netEvents>>

NetInit ==
  /\ \E order \in SetToSeqs(AccessPoints) : \E n \in 0 .. Len(order) :
       access_points = SubSeq(order, 1, n)
  /\ iter = None /\ returned = <<>> /\ missed = {}
  /\ connections = <<>>
  /\ told = [o \in Observers |-> FALSE]
  /\ up = FALSE
  /\ task = [tells |-> "nothing", todo |-> <<>>]
  /\ view = FALSE /\ sem = 0
  /\ caller = [at |-> "idle", todo |-> <<>>]
  /\ asked = 0 /\ netEvents = 0

Limit == netEvents < MaxEvents /\ netEvents' = netEvents + 1

\* connect() holds ap_mutex from its first access point to its last.
ApMutexFree == caller.at = "idle"

-----------------------------------------------------------------------------
(* The list of access points.                                              *)

ApFrame == UNCHANGED <<obsVars, up, task, waitVars>>

AddAp ==
  /\ ApMutexFree /\ Limit
  /\ \E a \in AccessPoints \ ToSet(access_points) :
       /\ access_points' = Append(access_points, a)
       /\ missed' = missed \cup {a}
  /\ UNCHANGED <<iter, returned>> /\ ApFrame

\* del_ap(), not of the one an iterator has just returned: the thread that
\* iterates uses it, and get_ap() would return it again.
DelAp ==
  /\ ApMutexFree /\ Limit
  /\ \E a \in ToSet(access_points) \ {iter} :
       /\ access_points' = RemoveFirst(access_points, a)
       /\ missed' = missed \cup {a}
  /\ UNCHANGED <<iter, returned>> /\ ApFrame

\* Faulty: begins again when its place is not the first.
After_First(s, x) == IF x = None /\ s # <<>> THEN s[1] ELSE None

\* The item after x, the first for None, or None at the end.
After(s, x) ==
  LET i == IF x = None THEN 0 ELSE CHOOSE n \in DOMAIN s : s[n] = x
  IN IF i < Len(s) THEN s[i + 1] ELSE None

\* get_ap(); get_interface(iter) goes through the interfaces in the same way.
GetAp ==
  /\ ApMutexFree
  /\ iter' = After(access_points, iter)
  /\ returned' = IF iter = None THEN <<iter'>> ELSE Append(returned, iter')
  /\ missed' = IF iter = None THEN {} ELSE missed
  /\ UNCHANGED <<access_points, netEvents>> /\ ApFrame

-----------------------------------------------------------------------------
(* The observers, and the events of the driver.                            *)

\* con_mutex is held while the observers are told.
ConMutexFree == task.tells = "nothing"

AddConnection ==
  /\ ConMutexFree /\ Limit
  /\ \E o \in Observers \ ToSet(connections) :
       /\ connections' = <<o>> \o connections
       /\ told' = [told EXCEPT ![o] = up]
  /\ UNCHANGED <<apVars, up, task, waitVars>>

DelConnection ==
  /\ ConMutexFree /\ Limit
  /\ \E o \in Observers \cap ToSet(connections) :
       connections' = RemoveFirst(connections, o)
  /\ UNCHANGED <<apVars, told, up, task, waitVars>>

TaskFrame == UNCHANGED <<apVars, connections, view, sem, caller>>

\* GOT_IP: the address is stored before the observers are told.
OnConnect ==
  /\ ConMutexFree /\ ~up /\ asked > 0
  /\ up' = TRUE
  /\ asked' = asked - 1
  /\ task' = [tells |-> "connect", todo |-> connections]
  /\ UNCHANGED <<told, netEvents>> /\ TaskFrame

\* DISCONNECTED: of an attempt that fails, or of a link that drops.  There may be
\* several of one attempt.
OnDisconnect ==
  /\ ConMutexFree
  /\ \/ asked > 0 /\ asked' = asked - 1 /\ UNCHANGED netEvents
     \/ Limit /\ UNCHANGED asked
  /\ task' = [tells |-> "disconnect", todo |-> connections]
  /\ UNCHANGED <<told, up>> /\ TaskFrame

\* Faulty: an observer can end the visit.
Tell_One ==
  /\ task.todo # <<>>
  /\ LET o == Head(task.todo) IN
       IF o = Waiter
         THEN /\ view' = (task.tells = "connect")
              /\ sem' = sem + 1
              /\ UNCHANGED told
         ELSE /\ told' = [told EXCEPT ![o] = task.tells = "connect"]
              /\ UNCHANGED <<view, sem>>
  /\ task' = [task EXCEPT !.todo = <<>>]
  /\ UNCHANGED <<apVars, connections, up, caller, asked, netEvents>>

\* Faulty: on_disconnect() of the waiter does not post.
Tell_Silent ==
  /\ task.todo # <<>>
  /\ LET o == Head(task.todo) IN
       IF o = Waiter
         THEN /\ view' = (task.tells = "connect")
              /\ sem' = IF task.tells = "connect" THEN sem + 1 ELSE sem
              /\ UNCHANGED told
         ELSE /\ told' = [told EXCEPT ![o] = task.tells = "connect"]
              /\ UNCHANGED <<view, sem>>
  /\ task' = [task EXCEPT !.todo = Tail(@)]
  /\ UNCHANGED <<apVars, connections, up, caller, asked, netEvents>>

\* The visit calls on_connect() or on_disconnect() of one observer.
Tell ==
  /\ task.todo # <<>>
  /\ LET o == Head(task.todo) IN
       IF o = Waiter
         THEN /\ view' = (task.tells = "connect")
              /\ sem' = sem + 1
              /\ UNCHANGED told
         ELSE /\ told' = [told EXCEPT ![o] = task.tells = "connect"]
              /\ UNCHANGED <<view, sem>>
  /\ task' = [task EXCEPT !.todo = Tail(@)]
  /\ UNCHANGED <<apVars, connections, up, caller, asked, netEvents>>

\* After a disconnection the address is cleared, when all have been told.
Told ==
  /\ task.tells # "nothing" /\ task.todo = <<>>
  /\ up' = IF task.tells = "disconnect" THEN FALSE ELSE up
  /\ task' = [task EXCEPT !.tells = "nothing"]
  /\ UNCHANGED <<asked, told, netEvents>> /\ TaskFrame

-----------------------------------------------------------------------------
(* connect(): do_connect() of one access point after the other.            *)

CallerFrame == UNCHANGED <<apVars, told, up, task>>

Connect ==
  /\ caller.at = "idle" /\ ~up /\ Limit
  /\ caller' = [at |-> "next", todo |-> access_points]
  /\ UNCHANGED <<connections, view, sem, asked>> /\ CallerFrame

\* A new ConnectionWaiter is added; then the driver is asked to connect.
AddWaiter ==
  /\ caller.at = "next" /\ caller.todo # <<>> /\ ConMutexFree
  /\ connections' = <<Waiter>> \o connections
  /\ sem' = 0
  /\ caller' = [caller EXCEPT !.at = "start"]
  /\ UNCHANGED <<view, asked, netEvents>> /\ CallerFrame

StartAttempt ==
  /\ caller.at = "start"
  /\ asked' = asked + 1
  /\ caller' = [caller EXCEPT !.at = "wait"]
  /\ UNCHANGED <<connections, view, sem, netEvents>> /\ CallerFrame

Wait ==
  /\ caller.at = "wait" /\ sem > 0
  /\ sem' = sem - 1
  /\ caller' = [caller EXCEPT !.at = IF view /\ up THEN "stop" ELSE "remove"]
  /\ UNCHANGED <<connections, view, asked, netEvents>> /\ CallerFrame

\* Faulty: leaves the waiter, which is on the stack, in the list.
DelWaiter_Not ==
  /\ caller.at \in {"stop", "remove"}
  /\ caller' = IF caller.at = "stop" THEN [at |-> "idle", todo |-> <<>>]
                                     ELSE [at |-> "next", todo |-> Tail(caller.todo)]
  /\ UNCHANGED <<connections, view, sem, asked, netEvents>> /\ CallerFrame

\* Its waiter is removed, and the visit of the access points stops or goes on.
DelWaiter ==
  /\ caller.at \in {"stop", "remove"} /\ ConMutexFree
  /\ connections' = RemoveFirst(connections, Waiter)
  /\ caller' = IF caller.at = "stop" THEN [at |-> "idle", todo |-> <<>>]
                                     ELSE [at |-> "next", todo |-> Tail(caller.todo)]
  /\ UNCHANGED <<view, sem, asked, netEvents>> /\ CallerFrame

ConnectFails ==
  /\ caller.at = "next" /\ caller.todo = <<>>
  /\ caller' = [caller EXCEPT !.at = "idle"]
  /\ UNCHANGED <<connections, view, sem, asked, netEvents>> /\ CallerFrame

-----------------------------------------------------------------------------
Task == Tell \/ Told
Answer == asked > 0 /\ (OnConnect \/ OnDisconnect)
Caller == AddWaiter \/ StartAttempt \/ Wait \/ DelWaiter \/ ConnectFails

NetNext ==
  \/ AddAp \/ DelAp \/ GetAp
  \/ AddConnection \/ DelConnection \/ OnConnect \/ OnDisconnect \/ Task
  \/ Connect \/ Caller

\* Both tasks run, and the driver answers every attempt.
NetFair == WF_netVars(Task) /\ WF_netVars(Caller) /\ WF_netVars(Answer)

NetSpec == NetInit /\ [][NetNext]_netVars /\ NetFair

-----------------------------------------------------------------------------
(* Properties.                                                             *)

\* The waiter is on the stack of do_connect(): only while that runs is it in the
\* list, or in the part of it that a visit has yet to call.
WaiterAlive ==
  Waiter \in ToSet(connections) \cup ToSet(task.todo) =>
    caller.at \in {"start", "wait", "stop", "remove"}

\* When nothing is being told, what each observer was told last is the state of
\* the interface.
ObserversAgree ==
  ConMutexFree => \A o \in ToSet(connections) \cap Observers : told[o] = up

\* An iteration that has come to its end has returned each access point once,
\* apart from those that were added or deleted meanwhile.
EachApOnce ==
  /\ \A i, j \in DOMAIN returned :
       i # j /\ returned[i] = returned[j] => returned[i] \in missed
  /\ returned # <<>> /\ iter = None =>
       ToSet(access_points) \ missed \subseteq ToSet(returned)

\* What the interface has linked or recorded is so: the waiter lives, the observers
\* know the state, and an iteration passes each access point (network.cpp:213-254).
NetworkIsSound == WaiterAlive /\ ObserversAgree /\ EachApOnce

\* connect() returns: every access point is tried and answered, though ap_mutex is
\* held all the time, and other disconnections come in between.
ConnectReturns == caller.at # "idle" ~> caller.at = "idle"
=============================================================================
