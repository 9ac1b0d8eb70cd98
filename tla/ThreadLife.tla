----------------------------- MODULE ThreadLife -----------------------------
(***************************************************************************)
(* The life of Thread objects: Thread::create, start, the thread's own     *)
(* wrapper round its function, join and delete, and the list of running    *)
(* threads that visit() and get_by_name() search (src/linux/thread.cpp and *)
(* src/freertos/thread.cpp, with ThreadPool of src/thread.cpp).  The owner *)
(* starts all its threads, joins them in order and then deletes them, as   *)
(* ThreadPool does.  The list is guarded by a mutex: each operation on it  *)
(* is one step.                                                            *)
(***************************************************************************)
EXTENDS Naturals, Sequences, SequencesExt

CONSTANTS
  Count,     \* the threads of the pool
  Platforms  \* "linux" and "freertos", or one of them

ThreadLifeAssumption ==
  /\ Count \in Nat \ {0}
  /\ Platforms \subseteq {"linux", "freertos"}

Pool == 1 .. Count

VARIABLES
  platform, \* the one this program was built for
  running,  \* the list of running threads
  at,       \* where each thread is in its wrapper
  dead,     \* the count of the binary semaphore of each RTOS_Thread
  deleted,  \* the Thread objects that were deleted
  opc,      \* what the owner is doing
  index     \* the loop counter i of ThreadPool

ownerVars == <<deleted, opc, index>>
threadVars == <<platform, running, at, dead, ownerVars>>

ThreadInit ==
  /\ platform \in Platforms
  /\ running = <<>>
  /\ at = [t \in Pool |-> "created"]
  /\ dead = [t \in Pool |-> 0]
  /\ deleted = {}
  /\ opc = "start"
  /\ index = 1

Goto(t, label) == at' = [at EXCEPT ![t] = label]

\* The owner's loops over the pool.
Step(from, to) ==
  /\ opc = from
  /\ opc' = IF index < Count THEN from ELSE to
  /\ index' = IF index < Count THEN index + 1 ELSE 1

-----------------------------------------------------------------------------
(* The thread: NativeThread::wrap and RTOS_Thread::run.                    *)

Enlist(t) ==
  /\ at[t] = "started"
  /\ running' = <<t>> \o running
  /\ Goto(t, "function")
  /\ UNCHANGED <<platform, dead, ownerVars>>

\* The thread's function returns.
Function(t) ==
  /\ at[t] = "function"
  /\ Goto(t, IF platform = "linux" THEN "remove" ELSE "post")
  /\ UNCHANGED <<platform, running, dead, ownerVars>>

Post(t) ==
  /\ at[t] = "post"
  /\ dead' = [dead EXCEPT ![t] = 1]
  /\ Goto(t, "remove")
  /\ UNCHANGED <<platform, running, ownerVars>>

\* Faulty: leaves the thread in the list.
Unlist_Not(t) ==
  /\ at[t] = "remove"
  /\ Goto(t, "exit")
  /\ UNCHANGED <<platform, running, dead, ownerVars>>

Unlist(t) ==
  /\ at[t] = "remove"
  /\ running' = RemoveFirst(running, t)
  /\ Goto(t, "exit")
  /\ UNCHANGED <<platform, dead, ownerVars>>

\* pthread_exit() or vTaskDelete()
Exit(t) ==
  /\ at[t] = "exit"
  /\ Goto(t, "gone")
  /\ UNCHANGED <<platform, running, dead, ownerVars>>

Thread(t) == Enlist(t) \/ Function(t) \/ Post(t) \/ Unlist(t) \/ Exit(t)

-----------------------------------------------------------------------------
(* The owner.                                                              *)

\* Faulty: the loop stops one thread short.
StartThread_OneLess ==
  /\ IF index < Count THEN Goto(index, "started") ELSE UNCHANGED at
  /\ Step("start", "join")
  /\ UNCHANGED <<platform, running, dead, deleted>>

StartThread ==
  /\ Goto(index, "started")
  /\ Step("start", "join")
  /\ UNCHANGED <<platform, running, dead, deleted>>

\* Faulty: does not wait.
Join_NoWait ==
  /\ Step("join", "delete")
  /\ UNCHANGED <<platform, running, at, dead, deleted>>

\* pthread_join() waits for the end of the thread, RTOS_Thread::join() for dead.
Join ==
  /\ \/ platform = "linux" /\ at[index] = "gone" /\ UNCHANGED dead
     \/ platform = "freertos" /\ dead[index] = 1 /\ dead' = [dead EXCEPT ![index] = 0]
  /\ Step("join", "delete")
  /\ UNCHANGED <<platform, running, at, deleted>>

Delete ==
  /\ deleted' = deleted \cup {index}
  /\ Step("delete", "done")
  /\ UNCHANGED <<platform, running, at, dead>>

-----------------------------------------------------------------------------
\* The test that owns the pool.
PoolOwner == StartThread \/ Join \/ Delete

ThreadNext == (\E t \in Pool : Thread(t)) \/ PoolOwner

ThreadSpec == ThreadInit /\ [][ThreadNext]_threadVars

ThreadFairSpec ==
  /\ ThreadSpec
  /\ \A t \in Pool : WF_threadVars(Thread(t))
  /\ WF_threadVars(PoolOwner)

-----------------------------------------------------------------------------
(* Properties.                                                             *)

ThreadTypeOK ==
  /\ platform \in Platforms
  /\ running \in Seq(Pool)
  /\ at \in [Pool -> {"created", "started", "function", "post", "remove", "exit", "gone"}]
  /\ dead \in [Pool -> 0 .. 1]
  /\ deleted \subseteq Pool
  /\ opc \in {"start", "join", "delete", "done"}
  /\ index \in Pool

\* The list of running threads links each once, and those that may run their
\* function (src/thread.cpp:38): on Linux join() makes it safe to delete a thread
\* (unit-tests/thread.cpp:25), so that the list links no deleted thread, and none
\* whose object is gone has yet to unlink itself.  RTOS_Thread::run() releases the
\* joiner before it does.
ThreadsAreSound ==
  /\ IsInjective(running)
  /\ ToSet(running) = {t \in Pool : at[t] \in {"function", "post", "remove"}}
  /\ platform = "linux" =>
       \A t \in deleted : t \notin ToSet(running) /\ at[t] \notin {"started", "function", "post", "remove"}

\* The owner has joined and deleted every thread in the end.
PoolEnds == <>(opc = "done")
=============================================================================
