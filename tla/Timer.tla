------------------------------- MODULE Timer -------------------------------
(***************************************************************************)
(* The time base of src/stm32/timer.cpp: a free-running counter read by    *)
(* timer_now(), and the hardware timer that timer_set() arms to wake the   *)
(* task that runs EventQueue::run().                                       *)
(*                                                                         *)
(* clock is the time that really passed.  The program only ever sees       *)
(* TimerNow, which wraps; clock lets properties speak of what it meant.    *)
(***************************************************************************)
EXTENDS Integers

CONSTANTS
  Modulus,    \* the counter wraps to 0 here: 2^32 in the code
  Start,      \* the counter's reading when clock = 0
  MaxClock,   \* bound: clock stops counting here (the hardware timer does not)
  MaxReload,  \* the largest period the timer takes: 0xFFFF on the STM32F1xx
  BootPeriod  \* the period timer_init() starts the timer with

ASSUME TimerAssumption ==
  /\ Modulus \in Nat /\ Modulus > 1
  /\ Start \in 0 .. Modulus - 1
  /\ MaxClock \in Nat
  /\ MaxReload \in 1 .. Modulus - 1
  /\ BootPeriod \in 1 .. MaxReload

VARIABLES
  clock,     \* ticks since the program started
  last_dt,   \* the delay the timer was last armed with, 0 once it has fired
  reload,    \* the timer's auto-reload register
  remain,    \* ticks until the timer next fires
  irq,       \* the timer's interrupt is pending
  notified,  \* the task notification of the event manager's task
  armer      \* the holder of timer_mutex while it re-arms the timer, or None

timerVars == <<clock, last_dt, reload, remain, irq, notified, armer>>

Half == Modulus \div 2
None == "none"

\* timer_t arithmetic is unsigned; Signed is the conversion to int32_t.
Unsigned(t) == t % Modulus
Signed(t) == LET u == Unsigned(t) IN IF u < Half THEN u ELSE u - Modulus

TimerNow == Unsigned(Start + clock)

TimerInit ==
  /\ clock = 0
  /\ last_dt = 0
  /\ reload = BootPeriod
  /\ remain = BootPeriod
  /\ irq = FALSE
  /\ notified = FALSE
  /\ armer = None

Clip(dt) == IF dt > MaxReload THEN MaxReload ELSE dt

\* Faulty: any armed timer counts as imminent.
Imminent_Any(dt) == last_dt # 0

\* timer_set() finds the timer "already waiting for a more imminent event".
Imminent(dt) == last_dt # 0 /\ last_dt < Clip(dt)

\* timer_set() up to its early return: nothing is changed.
TimerSkip(dt) ==
  /\ armer = None
  /\ Imminent(dt)
  /\ UNCHANGED timerVars

\* timer_set() past its early return, timer_mutex held: last_dt is assigned,
\* the timer still runs and can still interrupt.
TimerClaim(self, dt) ==
  /\ armer = None
  /\ ~Imminent(dt)
  /\ armer' = self
  /\ last_dt' = Clip(dt)
  /\ UNCHANGED <<clock, reload, remain, irq, notified>>

\* The rest of timer_set(): stop, set the reload register, start.
TimerArm(self, dt) ==
  /\ armer = self
  /\ armer' = None
  /\ reload' = Clip(dt) % (MaxReload + 1)
  /\ remain' = Clip(dt) % (MaxReload + 1)
  /\ UNCHANGED <<clock, last_dt, irq, notified>>

\* A tick of both counters.  An auto-reloading timer that reaches zero raises
\* its interrupt and starts again.
TimerTick ==
  /\ ~irq
  /\ clock' = IF clock < MaxClock THEN clock + 1 ELSE clock
  /\ irq' = (remain <= 1)
  /\ remain' = IF remain <= 1 THEN reload ELSE remain - 1
  /\ UNCHANGED <<last_dt, reload, notified, armer>>

\* timer_irq()
TimerIrq ==
  /\ irq
  /\ irq' = FALSE
  /\ last_dt' = 0
  /\ notified' = TRUE
  /\ UNCHANGED <<clock, reload, remain, armer>>

\* timer_wait() after timer_set(): ulTaskNotifyTake(pdTRUE, portMAX_DELAY).
TimerTake ==
  /\ notified
  /\ notified' = FALSE
  /\ UNCHANGED <<clock, last_dt, reload, remain, irq, armer>>

TimerTypeOK ==
  /\ clock \in Nat
  /\ last_dt \in Int
  /\ reload \in Nat
  /\ remain \in Nat
  /\ irq \in BOOLEAN
  /\ notified \in BOOLEAN
============================================================================
