------------------------------ MODULE Watchdog ------------------------------
(***************************************************************************)
(* The watchdog (src/watchdog.cpp): threads poll() it, each with a time    *)
(* within which it will poll again; another thread looks for those that    *)
(* did not, with check_expired().  Each method holds the mutex throughout, *)
(* but check_expired() returns a pointer that is used without it.          *)
(***************************************************************************)
EXTENDS LinkedList, Integers

CONSTANTS
  Watched,      \* the threads, of which each has one entry, by which it is named
  Holdoffs,     \* the holdoff times that are used
  WdModulus,    \* values of a tick
  WdFirstNow,   \* the counter at the start
  WdLastTime    \* bound: ticks that pass

WatchdogAssumption ==
  /\ LinkedListAssumption /\ Watched \subseteq Items
  /\ WdModulus \in Nat /\ WdLastTime \in Nat /\ WdLastTime < WdModulus
  /\ WdFirstNow \in 0 .. WdModulus - 1
  /\ Holdoffs \subseteq 0 .. WdModulus - 1

VARIABLES
  tasks,               \* the list
  last, holdoff, alarmed,
  using,               \* what check_expired() has returned and is still used
  clock,
  reported             \* history: the threads reported since they polled last

wdVars == <<tasks, last, holdoff, alarmed, using, clock, reported>>

Ticks == (WdFirstNow + clock) % WdModulus

\* Faulty: compares the times themselves.
elapsed_Wrap(start, period) == Ticks >= start + period

\* Time::elapsed()
elapsed(start, period) == (Ticks - start) % WdModulus >= period

WdInit ==
  /\ tasks = Empty
  /\ last = [w \in Watched |-> 0] /\ holdoff = [w \in Watched |-> 0]
  /\ alarmed = [w \in Watched |-> FALSE]
  /\ using = Null /\ clock = 0 /\ reported = {}

\* poll() makes the entry of a thread that polls for the first time.
Poll(w) ==
  /\ tasks' = IF Has(tasks, w) THEN tasks ELSE ListPush(tasks, w)
  /\ last' = [last EXCEPT ![w] = Ticks]
  /\ \E h \in Holdoffs : holdoff' = [holdoff EXCEPT ![w] = h]
  /\ alarmed' = [alarmed EXCEPT ![w] = FALSE]
  /\ reported' = reported \ {w}
  /\ UNCHANGED <<using, clock>>

\* remove() unlinks and deletes the entry.  It is left to the thread that checks:
\* another one would delete what check_expired() has returned.
RemoveWatch(w) ==
  /\ using \in {Null, w}
  /\ Has(tasks, w)
  /\ tasks' = ListRemove(tasks, w)
  /\ reported' = reported \ {w}
  /\ using' = IF using = w THEN Null ELSE using
  /\ UNCHANGED <<last, holdoff, alarmed, clock>>

Expired(w) == ~alarmed[w] /\ elapsed(last[w], holdoff[w])

\* Faulty: finds the same thread again and again.
CheckExpired_Again ==
  LET w == Find(tasks, {x \in Watched : elapsed(last[x], holdoff[x])}) IN
    /\ using = Null
    /\ w # Null
    /\ alarmed' = [alarmed EXCEPT ![w] = TRUE]
    /\ using' = w
    /\ reported' = reported \cup {w}
    /\ UNCHANGED <<tasks, last, holdoff, clock>>

\* check_expired() finds the first thread that is late and has not been reported.
CheckExpired ==
  LET w == Find(tasks, {x \in Watched : Expired(x)}) IN
    /\ using = Null
    /\ w # Null
    /\ alarmed' = [alarmed EXCEPT ![w] = TRUE]
    /\ using' = w
    /\ reported' = reported \cup {w}
    /\ UNCHANGED <<tasks, last, holdoff, clock>>

\* The checker is done with the thread.
Done ==
  /\ using # Null
  /\ using' = Null
  /\ UNCHANGED <<tasks, last, holdoff, alarmed, clock, reported>>

WdPass ==
  /\ clock < WdLastTime
  /\ clock' = clock + 1
  /\ UNCHANGED <<tasks, last, holdoff, alarmed, using, reported>>

WdNext ==
  \/ \E w \in Watched : Poll(w) \/ RemoveWatch(w)
  \/ CheckExpired \/ Done \/ WdPass

\* The checker goes on.  A thread need never poll.
WdFair == WF_wdVars(CheckExpired) /\ WF_wdVars(Done)

WdSpec == WdInit /\ [][WdNext]_wdVars /\ WdFair

\* expired() says of a thread whether it has been reported since its last poll,
\* and no thread is reported that still has time, also when the counter wraps.
ExpiredIsReported ==
  \A w \in Watched : Has(tasks, w) =>
    /\ alarmed[w] <=> w \in reported
    /\ alarmed[w] => elapsed(last[w], holdoff[w])

\* A thread that is late is reported, however late the others are, unless it
\* polls or is removed: one that hangs does not hide the next.
LateIsReported ==
  \A w \in Watched : Has(tasks, w) /\ Expired(w) ~> ~Has(tasks, w) \/ ~Expired(w)
=============================================================================
