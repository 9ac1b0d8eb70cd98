----------------------------- MODULE DeviceInit -----------------------------
(***************************************************************************)
(* Device::init_devices() (src/device.cpp): initialises a list of devices, *)
(* each after the devices it names in needs.                               *)
(*                                                                         *)
(* The order of the lists and of needs is left open: the head of todo, and *)
(* the next of a device's needs, may be any, so one behaviour is one order.*)
(* The recursion of init_device() is a stack of frames; its parameter nest *)
(* is loops less the frames below.                                         *)
(***************************************************************************)
EXTENDS Naturals, Sequences, FiniteSets

CONSTANTS
  Devices,    \* the devices of the list, by name
  Names,      \* the names that may appear in needs
  CanFail,    \* the devices with F_CAN_FAIL
  Loops       \* init_devices()'s loops

ASSUME DeviceInitAssumption ==
  /\ IsFiniteSet(Devices)
  /\ Devices \subseteq Names
  /\ CanFail \subseteq Devices
  /\ Loops \in Nat \ {0}

VARIABLES
  needs,    \* the names each device needs
  todo,     \* the devices still to do
  done,     \* the devices done
  stack,    \* the calls of init_device(), innermost last: the device, and
            \* those of its needs that are still to be looked at
  rounds,   \* loop_detect
  result,   \* "running", or what init_devices() returned: "true", "false"
  failed    \* history: an init function that must not fail did

vars == <<needs, todo, done, stack, rounds, result, failed>>

Init ==
  /\ needs \in [Devices -> SUBSET Names]
  /\ todo = Devices
  /\ done = {}
  /\ stack = <<>>
  /\ rounds = 0
  /\ result = "running"
  /\ failed = FALSE

Top == stack[Len(stack)]
Below == SubSeq(stack, 1, Len(stack) - 1)
Frame(d) == [dev |-> d, left |-> needs[d]]

\* A failure returns false through every call.
Fail ==
  /\ result' = "false"
  /\ stack' = <<>>
  /\ UNCHANGED <<needs, todo, done, rounds>>

\* init_devices() takes the head of todo.
Start(d) ==
  /\ result = "running"
  /\ stack = <<>>
  /\ d \in todo
  /\ stack' = <<Frame(d)>>
  /\ UNCHANGED <<needs, todo, done, rounds, result, failed>>

Finish ==
  /\ result = "running"
  /\ stack = <<>>
  /\ todo = {}
  /\ result' = "true"
  /\ UNCHANGED <<needs, todo, done, stack, rounds, failed>>

\* Looks at one more of the innermost device's needs.
Looks(n) ==
  /\ result = "running"
  /\ stack # <<>>
  /\ n \in Top.left

Looked(n) == Append(Below, [Top EXCEPT !.left = @ \ {n}])

NeedDone(n) ==
  /\ Looks(n)
  /\ n \in done
  /\ stack' = Looked(n)
  /\ UNCHANGED <<needs, todo, done, rounds, result, failed>>

\* Faulty: passes over a device it cannot find.
NeedMissing_Skip(n) ==
  /\ Looks(n)
  /\ n \notin done
  /\ n \notin todo
  /\ stack' = Looked(n)
  /\ UNCHANGED <<needs, todo, done, rounds, result, failed>>

NeedMissing(n) ==
  /\ Looks(n)
  /\ n \notin done
  /\ n \notin todo
  /\ Fail
  /\ UNCHANGED failed

\* Faulty: a device that is being initialised is not looked for again.
NeedTodo_Once(n) ==
  /\ Looks(n)
  /\ n \notin done
  /\ n \in todo
  /\ stack' = IF \E i \in DOMAIN stack : stack[i].dev = n
                THEN Looked(n) ELSE Append(Looked(n), Frame(n))
  /\ UNCHANGED <<needs, todo, done, rounds, result, failed>>

\* Faulty: recurses without a limit.
NeedTodo_Unlimited(n) ==
  /\ Looks(n)
  /\ n \notin done
  /\ n \in todo
  /\ IF Len(stack) < Loops
       THEN stack' = Append(Looked(n), Frame(n)) /\ UNCHANGED <<needs, todo, done, rounds, result>>
       ELSE UNCHANGED <<needs, todo, done, stack, rounds, result>>
  /\ UNCHANGED failed

\* Recurses, or gives up when nest has come down to 0.
NeedTodo(n) ==
  /\ Looks(n)
  /\ n \notin done
  /\ n \in todo
  /\ IF Len(stack) < Loops
       THEN stack' = Append(Looked(n), Frame(n)) /\ UNCHANGED <<needs, todo, done, rounds, result>>
       ELSE Fail
  /\ UNCHANGED failed

\* Calls init: the innermost device has all it needs.
Calls == result = "running" /\ stack # <<>> /\ Top.left = {}

InitFails ==
  /\ Calls
  /\ Top.dev \notin CanFail
  /\ failed' = TRUE
  /\ Fail

\* Faulty: the device stays on the todo list.
InitDevice_Keep ==
  /\ Calls
  /\ done' = done \cup {Top.dev}
  /\ stack' = Below
  /\ rounds' = IF Below = <<>> THEN rounds + 1 ELSE rounds
  /\ result' = IF rounds' > Loops THEN "false" ELSE result
  /\ UNCHANGED <<needs, todo, failed>>

\* init returned true, or false and F_CAN_FAIL is set; the device moves to done.
\* Back in init_devices(), the rounds of its loop are counted.
InitDevice ==
  /\ Calls
  /\ todo' = todo \ {Top.dev}
  /\ done' = done \cup {Top.dev}
  /\ stack' = Below
  /\ rounds' = IF Below = <<>> THEN rounds + 1 ELSE rounds
  /\ result' = IF rounds' > Loops THEN "false" ELSE result
  /\ UNCHANGED <<needs, failed>>

Next ==
  \/ \E d \in Devices : Start(d)
  \/ \E n \in Names : NeedDone(n) \/ NeedMissing(n) \/ NeedTodo(n)
  \/ Finish \/ InitFails \/ InitDevice

Spec == Init /\ [][Next]_vars

\* The function runs until it returns.
FairSpec == Spec /\ WF_vars(Next)

-----------------------------------------------------------------------------
(* Properties.                                                             *)

TypeOK ==
  /\ needs \in [Devices -> SUBSET Names]
  /\ todo \subseteq Devices /\ done \subseteq Devices
  /\ stack \in Seq([dev : Devices, left : SUBSET Names])
  /\ rounds \in Nat
  /\ result \in {"running", "true", "false"}
  /\ failed \in BOOLEAN

\* Every device that is done was initialised after all that it needs, and init
\* is called for none whose needs are not done: a cycle never gets that far
\* (device.cpp:88-115).
NeedsFirst ==
  /\ \A d \in done : needs[d] \subseteq done
  /\ Calls => needs[Top.dev] \subseteq done

\* A device is on one of the two lists, so it is initialised once, and
\* todo.remove() finds it (the ASSERT of device.cpp:127).
OneList ==
  /\ todo \cap done = {} /\ todo \cup done = Devices
  /\ Calls => Top.dev \in todo

\* What can be initialised: every need known, and no cycle (each set of devices
\* has one that needs none of the set).
Closed == \A d \in Devices : needs[d] \subseteq Devices
Acyclic ==
  \A S \in (SUBSET Devices) \ {{}} : \E d \in S : needs[d] \cap S = {}

\* init_devices() returns true exactly when every device is done, which takes a
\* graph that can be put in order; it returns false only for a cause: a need that
\* is not there, a cycle, or a device that failed to initialise.  More devices
\* than loops are given up as "loop not terminating" (device.cpp:150-153) though
\* each round does one more.
ResultIsRight ==
  /\ result = "true" => done = Devices /\ Closed /\ Acyclic
  /\ result = "false" /\ Cardinality(Devices) <= Loops => ~Closed \/ ~Acyclic \/ failed

\* What the callers of init_devices() rely on, as it goes and when it returns.
InitIsRight == NeedsFirst /\ ResultIsRight

\* It returns, whatever the dependencies are.
Returns == <>(result # "running")
=============================================================================
