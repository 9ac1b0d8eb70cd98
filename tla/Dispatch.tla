------------------------------ MODULE Dispatch ------------------------------
(***************************************************************************)
(* Dispatch (src/dispatch.cpp): interrupts and threads put() callbacks; a  *)
(* thread in run() executes them.  The deque is guarded by a critical      *)
(* section, so a push or a pop is one step; the post that follows a push   *)
(* is another.  Each callback has one source, which puts it again only     *)
(* once it has been popped: push_tail() of a linked item would cut the     *)
(* deque (deque.h:46).                                                     *)
(***************************************************************************)
EXTENDS Deque, FiniteSets

CONSTANTS
  SemMax,   \* the semaphore drops a post at this count (1: FreeRTOS binary)
  MaxPuts   \* bound: calls of put()

ASSUME DispatchAssumption ==
  /\ IsFiniteSet(Items)
  /\ SemMax \in Nat \ {0}
  /\ MaxPuts \in Nat

VARIABLES
  sem, dead,
  putting,  \* the callbacks pushed and not yet posted for
  killing,  \* kill() has set dead and not yet posted
  rpc,      \* where run() is
  cb,       \* run()'s local cb
  owed,     \* how often each callback must yet be executed
  puts      \* calls of put() so far

runVars == <<rpc, cb>>
vars == <<dequeVars, sem, dead, putting, killing, runVars, owed, puts>>

Init ==
  /\ DequeInit
  /\ sem = 0
  /\ dead = FALSE
  /\ putting = {}
  /\ killing = FALSE
  /\ rpc = "test"
  /\ cb = Null
  /\ owed = [w \in Items |-> 0]
  /\ puts = 0

\* Faulty: counts past the semaphore's limit.
Post_Unlimited == sem' = sem + 1

Post == sem' = IF sem < SemMax THEN sem + 1 ELSE sem

PutPush(w) ==
  /\ puts < MaxPuts
  /\ w \notin putting
  /\ w \notin ToSet(items)
  /\ PushTail(w)
  /\ putting' = putting \cup {w}
  /\ owed' = [owed EXCEPT ![w] = @ + 1]
  /\ puts' = puts + 1
  /\ UNCHANGED <<sem, dead, killing, runVars>>

\* Faulty: posts only for the first callback of an empty deque.
PutPost_First(w) ==
  /\ w \in putting
  /\ putting' = putting \ {w}
  /\ IF Len(items) = 1 THEN Post ELSE UNCHANGED sem
  /\ UNCHANGED <<dequeVars, dead, killing, runVars, owed, puts>>

PutPost(w) ==
  /\ w \in putting
  /\ putting' = putting \ {w}
  /\ Post
  /\ UNCHANGED <<dequeVars, dead, killing, runVars, owed, puts>>

Kill ==
  /\ ~dead
  /\ dead' = TRUE
  /\ killing' = TRUE
  /\ UNCHANGED <<dequeVars, sem, putting, runVars, owed, puts>>

\* Faulty: does not wake run().
KillPost_Silent ==
  /\ killing
  /\ killing' = FALSE
  /\ UNCHANGED <<dequeVars, sem, dead, putting, runVars, owed, puts>>

KillPost ==
  /\ killing
  /\ killing' = FALSE
  /\ Post
  /\ UNCHANGED <<dequeVars, dead, putting, runVars, owed, puts>>

-----------------------------------------------------------------------------
(* run()                                                                   *)

Test ==
  /\ rpc = "test"
  /\ rpc' = IF dead THEN "left" ELSE "wait"
  /\ UNCHANGED <<dequeVars, sem, dead, putting, killing, cb, owed, puts>>

Wait ==
  /\ rpc = "wait"
  /\ sem > 0
  /\ sem' = sem - 1
  /\ rpc' = "pop"
  /\ UNCHANGED <<dequeVars, dead, putting, killing, cb, owed, puts>>

\* Faulty: leaves the callback in the deque when others are behind it.
Pop_Peek ==
  /\ rpc = "pop"
  /\ head # Null
  /\ cb' = head
  /\ rpc' = "execute"
  /\ IF head = tail THEN PopHead ELSE UNCHANGED dequeVars
  /\ UNCHANGED <<sem, dead, putting, killing, owed, puts>>

Pop ==
  /\ rpc = "pop"
  /\ \/ PopHead /\ cb' = head /\ rpc' = "execute"
     \/ head = Null /\ rpc' = "test" /\ UNCHANGED <<dequeVars, cb>>
  /\ UNCHANGED <<sem, dead, putting, killing, owed, puts>>

Execute ==
  /\ rpc = "execute"
  /\ owed' = [owed EXCEPT ![cb] = @ - 1]
  /\ cb' = Null
  /\ rpc' = "test"
  /\ UNCHANGED <<dequeVars, sem, dead, putting, killing, puts>>

Run == Test \/ Wait \/ Pop \/ Execute

Next ==
  \/ \E w \in Items : PutPush(w) \/ PutPost(w)
  \/ Kill \/ KillPost \/ Run

Spec == Init /\ [][Next]_vars

\* A put() and a kill() that have begun end, and run() is scheduled.
FairSpec ==
  /\ Spec
  /\ \A w \in Items : WF_vars(PutPost(w))
  /\ WF_vars(KillPost) /\ WF_vars(Run)

-----------------------------------------------------------------------------
(* Properties.                                                             *)

TypeOK ==
  /\ DequeTypeOK
  /\ sem \in 0 .. SemMax
  /\ dead \in BOOLEAN /\ killing \in BOOLEAN
  /\ putting \subseteq Items
  /\ rpc \in {"test", "wait", "pop", "execute", "left"}
  /\ cb \in Items \cup {Null}
  /\ owed \in [Items -> Nat]
  /\ puts \in Nat

Owing == {w \in Items : owed[w] > 0}

\* A callback that is owed an execution is still linked or is the one run() has
\* popped: no pop loses one and none is executed twice for one put().
OwedIsLinked ==
  \A w \in Items :
    owed[w] = (IF w \in ToSet(items) THEN 1 ELSE 0) + (IF cb = w THEN 1 ELSE 0)

\* run() never sleeps with a callback linked that nobody will wake it for: the
\* tokens, a post on its way and the pop under way cover every linked callback.
NoneStranded ==
  Len(items) <= sem + Cardinality(putting) + (IF rpc = "pop" THEN 1 ELSE 0)

\* Every callback that is put is executed, unless the dispatcher is killed
\* (the put() and wait() of unit-tests/dispatch_test.cpp:59-61).
PutIsExecuted == \A w \in Items : owed[w] > 0 ~> (owed[w] = 0 \/ dead)

\* kill() makes run() return, whatever it is waiting for.
KillEndsRun == dead ~> rpc = "left"
=============================================================================
