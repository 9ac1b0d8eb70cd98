------------------------------ MODULE Mutexes ------------------------------
(***************************************************************************)
(* The four types of mutex (src/panglos/mutex.h) on one core that runs     *)
(* tasks and an interrupt: FreeRTOS on STM32 and on RISC-V                 *)
(* (src/freertos/mutex.cpp, src/stm32/hal.cpp, src/riscv32/arch.cpp) and   *)
(* Linux, where every type is the same (src/linux/mutex.cpp).  Each call   *)
(* is one step, and the core changes hands wherever it may in between.     *)
(***************************************************************************)
EXTENDS Integers, Sequences

CONSTANTS
  Tasks,
  Types,    \* the type of each mutex
  MaxDepth  \* bound: the locks that are nested

Kinds == {"TASK_LOCK", "SYSTEM", "CRITICAL_SECTION", "RECURSIVE"}

MutexesAssumption ==
  Types \in [DOMAIN Types -> Kinds] /\ MaxDepth \in Nat /\ "isr" \notin Tasks

VARIABLES
  arch,       \* frozen: the architecture
  cpu,        \* whoever runs: a task or "isr"
  below,      \* the task that the interrupt has stopped
  suspended,  \* how often the scheduler is suspended
  irq,        \* interrupts are enabled
  mutex,      \* each mutex: its owner and count, and the state of irq that it keeps
  held        \* by context: the locks of the blocks that it is in, innermost last

mutexVars == <<arch, cpu, below, suspended, irq, mutex, held>>

Contexts == Tasks \cup {"isr"}

\* On Linux the type is ignored.
Type(m) == IF arch = "linux" THEN "SYSTEM" ELSE Types[m]
Holds(c, m) == \E i \in DOMAIN held[c] : held[c][i] = m

-----------------------------------------------------------------------------
\* Faulty: RISC-V does not look at what arch_disable_irq() found either.
arch_restore_irq_Always(was) == TRUE

\* STM32 enables the interrupts, whatever arch_disable_irq() found.
arch_restore_irq(was) == IF arch = "stm32" THEN TRUE ELSE was

TaskLock(m) ==
  /\ Type(m) = "TASK_LOCK" /\ cpu # "isr"
  /\ suspended' = suspended + 1
  /\ UNCHANGED <<irq, mutex>>

\* old belongs to the mutex.  No code nests two of this type, which STM32 could not
\* undo; nested in itself it would be lost.
CriticalLock(m) ==
  /\ Type(m) = "CRITICAL_SECTION"
  /\ arch = "stm32" => irq
  /\ ~Holds(cpu, m)
  /\ mutex' = [mutex EXCEPT ![m].old = irq]
  /\ irq' = FALSE
  /\ UNCHANGED suspended

\* One that is taken blocks the task: others run until it is free.
SystemLock(m) ==
  /\ Type(m) = "SYSTEM" /\ cpu # "isr"
  /\ mutex[m].count = 0
  /\ mutex' = [mutex EXCEPT ![m].owner = cpu, ![m].count = 1]
  /\ UNCHANGED <<irq, suspended>>

RecursiveLock(m) ==
  /\ Type(m) = "RECURSIVE" /\ cpu # "isr"
  /\ mutex[m].count = 0 \/ mutex[m].owner = cpu
  /\ mutex' = [mutex EXCEPT ![m].owner = cpu, ![m].count = @ + 1]
  /\ UNCHANGED <<irq, suspended>>

\* Lock::Lock()
Lock(m) ==
  /\ Len(held[cpu]) < MaxDepth
  /\ TaskLock(m) \/ CriticalLock(m) \/ SystemLock(m) \/ RecursiveLock(m)
  /\ held' = [held EXCEPT ![cpu] = Append(@, m)]
  /\ UNCHANGED <<arch, cpu, below>>

\* Faulty: the scheduler runs after the first of the nested locks is released.
Release_Resume(m) ==
  CASE Type(m) = "TASK_LOCK" -> suspended' = 0 /\ UNCHANGED <<irq, mutex>>
    [] Type(m) = "CRITICAL_SECTION" ->
         irq' = arch_restore_irq(mutex[m].old) /\ UNCHANGED <<suspended, mutex>>
    [] OTHER -> mutex' = [mutex EXCEPT ![m].count = @ - 1] /\ UNCHANGED <<suspended, irq>>

Release(m) ==
  CASE Type(m) = "TASK_LOCK" -> suspended' = suspended - 1 /\ UNCHANGED <<irq, mutex>>
    [] Type(m) = "CRITICAL_SECTION" ->
         irq' = arch_restore_irq(mutex[m].old) /\ UNCHANGED <<suspended, mutex>>
    [] OTHER -> mutex' = [mutex EXCEPT ![m].count = @ - 1] /\ UNCHANGED <<suspended, irq>>

\* Lock::~Lock(), as its block ends
Unlock ==
  /\ held[cpu] # <<>>
  /\ Release(held[cpu][Len(held[cpu])])
  /\ held' = [held EXCEPT ![cpu] = SubSeq(@, 1, Len(@) - 1)]
  /\ UNCHANGED <<arch, cpu, below>>

-----------------------------------------------------------------------------
\* The scheduler, from the interrupt of its tick
Switch(t) ==
  /\ cpu # "isr" /\ t # cpu
  /\ suspended = 0 /\ irq
  /\ cpu' = t
  /\ UNCHANGED <<arch, below, suspended, irq, mutex, held>>

InterruptBegin ==
  /\ arch # "linux" /\ cpu # "isr" /\ irq
  /\ below' = cpu /\ cpu' = "isr"
  /\ UNCHANGED <<arch, suspended, irq, mutex, held>>

\* Another task may have been made ready, and runs unless the scheduler is suspended.
InterruptEnd ==
  /\ cpu = "isr" /\ held["isr"] = <<>>
  /\ cpu' \in IF suspended = 0 THEN Tasks ELSE {below}
  /\ UNCHANGED <<arch, below, suspended, irq, mutex, held>>

-----------------------------------------------------------------------------
MutexInit ==
  /\ arch \in {"stm32", "riscv32", "linux"}
  /\ cpu \in Tasks /\ below = cpu
  /\ suspended = 0 /\ irq = TRUE
  /\ mutex = [m \in DOMAIN Types |-> [owner |-> cpu, count |-> 0, old |-> TRUE]]
  /\ held = [c \in Contexts |-> <<>>]

MutexNext ==
  \/ \E m \in DOMAIN Types : Lock(m)
  \/ Unlock
  \/ \E t \in Tasks : Switch(t)
  \/ InterruptBegin \/ InterruptEnd

MutexSpec == MutexInit /\ [][MutexNext]_mutexVars

\* A mutex is held by one context; the holder of a task lock is only ever stopped by
\* the interrupt and that of a critical section by nobody, however the locks are
\* nested; and when all are released the scheduler runs and interrupts are enabled
\* (src/freertos/mutex.cpp:18, src/stm32/hal.cpp:15).
MutexExcludes ==
  /\ \A m \in DOMAIN Types, c \in Contexts : Holds(c, m) =>
       /\ \A d \in Contexts \ {c} : ~Holds(d, m)
       /\ Type(m) = "TASK_LOCK" => cpu \in {c, "isr"}
       /\ Type(m) = "CRITICAL_SECTION" => cpu = c
  /\ (\A c \in Contexts : held[c] = <<>>) => suspended = 0 /\ irq
=============================================================================
