------------------------------ MODULE EvQueue ------------------------------
(***************************************************************************)
(* _EvQueue (src/panglos/event_queue.h): a sorted list of events, which a  *)
(* loop runs as they become due, as run_cli() does (src/app/cli.cpp).  An  *)
(* event may add itself again in its run().  The mutex is held by each     *)
(* operation of the list, and only by it.                                  *)
(***************************************************************************)
EXTENDS LinkedList, Integers

CONSTANTS
  Owner,       \* the thread that adds and reschedules each event: a function
  Periodic,    \* the events that run() adds again
  Modulus,     \* values of a tick
  FirstNow,    \* the counter at the start
  LastTime     \* bound: ticks that pass

EvQueueAssumption ==
  /\ LinkedListAssumption /\ Periodic \subseteq Items
  /\ Modulus \in Nat /\ LastTime \in Nat /\ 2 * (LastTime + 1) < Modulus
  /\ FirstNow \in 0 .. Modulus - 1

Events == Items
Threads == {Owner[e] : e \in Events}
Nobody == Null

VARIABLES
  events,   \* the list
  when,     \* when each event is due, as a counter value
  doing,    \* what each owner is doing, and to which event
  loop,     \* where the thread in run(t) is, with t and the event it has popped
  now,      \* ticks that have passed
  due,      \* history: when on the clock each event was meant to run
  added     \* history: the events that were added and not taken off again

evVars == <<events, when, doing, loop, now, due, added>>

Tick(n) == (FirstNow + n) % Modulus

\* Faulty: compares without the sign.
cmp_t_Unsigned(t1, t2) == t2 - t1

\* Faulty: the difference the other way round.
cmp_t_Reversed(t1, t2) ==
  LET d == (t1 - t2) % Modulus IN IF 2 * d < Modulus THEN d ELSE d - Modulus

\* cmp_t(): the difference as a signed number of the width of a tick.
cmp_t(t1, t2) ==
  LET d == (t2 - t1) % Modulus IN IF 2 * d < Modulus THEN d ELSE d - Modulus

EvInit ==
  /\ events = Empty
  /\ when = [e \in Events |-> 0]
  /\ doing = [t \in Threads |-> <<"idle", Nobody>>]
  /\ loop = [at |-> "out", t |-> 0, ev |-> Nobody]
  /\ now = 0
  /\ due = [e \in Events |-> 0]
  /\ added = {}

Sorted(l, e) == AddSorted(l, e, {x \in Items : cmp_t(when[e], when[x]) >= 0})

-----------------------------------------------------------------------------
(* The owners.                                                             *)

OwnerFrame == UNCHANGED <<loop, now>>

\* del()
Del(t) ==
  /\ \E e \in Events :
       /\ Owner[e] = t /\ doing[t][1] = "idle" /\ e \notin Periodic
       /\ events' = ListRemove(events, e)
       /\ added' = added \ {e}
       /\ UNCHANGED <<when, doing, due>>
  /\ OwnerFrame

\* reschedule(): del(), then the new time, without the mutex ...
RescheduleDel(t) ==
  /\ doing[t][1] = "idle"
  /\ \E e \in Events, n \in 1 .. LastTime :
       /\ Owner[e] = t
       /\ e \notin Periodic \/ (e \notin added /\ loop.ev # e)
       /\ now + n <= LastTime
       /\ events' = ListRemove(events, e)
       /\ added' = added \ {e}
       /\ due' = [due EXCEPT ![e] = now + n]
       /\ when' = [when EXCEPT ![e] = Tick(now + n)]
       /\ doing' = [doing EXCEPT ![t] = <<"add", e>>]
  /\ OwnerFrame

\* ... and add().
Add(t) ==
  LET e == doing[t][2] IN
    /\ doing[t][1] = "add"
    /\ events' = Sorted(events, e)
    /\ added' = added \cup {e}
    /\ doing' = [doing EXCEPT ![t] = <<"idle", Nobody>>]
    /\ UNCHANGED <<when, due>> /\ OwnerFrame

-----------------------------------------------------------------------------
(* run(t), with t the time when it is called.                              *)

LoopFrame == UNCHANGED <<doing, now>>

Call ==
  /\ loop.at = "out"
  /\ loop' = [loop EXCEPT !.at = "pop", !.t = Tick(now)]
  /\ UNCHANGED <<events, when, due, added>> /\ LoopFrame

Pop ==
  /\ loop.at = "pop"
  /\ IF events.head = Null \/ cmp_t(when[events.head], loop.t) < 0
       THEN loop' = [loop EXCEPT !.at = "out"] /\ UNCHANGED <<events, added>>
       ELSE /\ events' = ListPop(events)
            /\ added' = added \ {events.head}
            /\ loop' = [loop EXCEPT !.at = "run", !.ev = events.head]
  /\ UNCHANGED <<when, due>> /\ LoopFrame

\* ev->run(): a periodic event is due again a tick after the time it was meant for.
RunEvent ==
  LET e == loop.ev IN
    /\ loop.at = "run"
    /\ loop' = [loop EXCEPT !.at = IF e \in Periodic THEN "again" ELSE "pop",
                            !.ev = IF e \in Periodic THEN e ELSE Nobody]
    /\ when' = IF e \in Periodic THEN [when EXCEPT ![e] = (@ + 1) % Modulus] ELSE when
    /\ due' = IF e \in Periodic THEN [due EXCEPT ![e] = @ + 1] ELSE due
    /\ UNCHANGED <<events, added>> /\ LoopFrame

AddAgain ==
  /\ loop.at = "again"
  /\ events' = Sorted(events, loop.ev)
  /\ added' = added \cup {loop.ev}
  /\ loop' = [loop EXCEPT !.at = "pop", !.ev = Nobody]
  /\ UNCHANGED <<when, due>> /\ LoopFrame

Pass ==
  /\ now < LastTime
  /\ now' = now + 1
  /\ UNCHANGED <<events, when, doing, loop, due, added>>

Loop == Call \/ Pop \/ RunEvent \/ AddAgain

EvNext == (\E t \in Threads : Del(t) \/ RescheduleDel(t) \/ Add(t)) \/ Loop \/ Pass

\* The loop goes on, an owner that has begun to reschedule ends it, time passes.
EvFair == WF_evVars(Loop) /\ WF_evVars(Pass) /\ \A t \in Threads : WF_evVars(Add(t))

EvSpec == EvInit /\ [][EvNext]_evVars /\ EvFair

\* Whoever reschedules and whatever runs meanwhile, walking the list passes the
\* events that are to run, each once and the soonest first, also when the
\* counter wraps.
QueueIsSound ==
  LET passed == Walk(events) IN
    /\ {passed[i] : i \in DOMAIN passed} = added
    /\ Len(passed) = Cardinality(added)
    /\ \A i \in 1 .. Len(passed) - 1 : due[passed[i]] <= due[passed[i + 1]]

\* Every event that is added runs, or is taken off by its owner.
AddedRuns == \A e \in Events \ Periodic : e \in added ~> e \notin added
=============================================================================
