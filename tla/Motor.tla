------------------------------- MODULE Motor -------------------------------
(***************************************************************************)
(* The stepper motor of src/drivers/motor.cpp: the Accelerator, whose idx  *)
(* is the speed; the Stepper, which counts steps round a circle and is     *)
(* told to seek() or to rotate() to one of them; and the phase of the      *)
(* coils.  poll() makes one step; commands may come between any two.       *)
(***************************************************************************)
EXTENDS Integers

CONSTANTS
  Steps,       \* steps of a revolution
  Size,        \* the speeds of the accelerator
  MaxCommands  \* bound: calls of seek(), rotate() and zero()

ASSUME MotorAssumption ==
  /\ Steps \in Nat /\ Steps > 1
  /\ Size \in Nat \ {0}
  /\ MaxCommands \in Nat

Positions == 0 .. Steps - 1
Nowhere == -1
Phases == 8

VARIABLES
  state, idx, forward,       \* Accelerator; forward is dirn_forward
  count, target, rotate_to,  \* Stepper
  phase,                     \* MotorIo_4::state
  goal,      \* history: where the last command that counts sent the motor
  side,      \* history: 1 or -1 if that was a seek() of a motor at rest, its
             \* target ahead or behind; otherwise 0
  commands

accVars == <<state, idx, forward>>
stepVars == <<count, target, rotate_to, phase>>
vars == <<accVars, stepVars, goal, side, commands>>

Init ==
  /\ state = "stop" /\ idx = 0 /\ forward = TRUE
  /\ count = 0 /\ target = 0 /\ rotate_to = Nowhere
  /\ phase = 0
  /\ goal = 0 /\ side = 0 /\ commands = 0

Abs(n) == IF n < 0 THEN -n ELSE n
Sign(n) == IF n = 0 THEN 0 ELSE n \div Abs(n)

-----------------------------------------------------------------------------
(* The accelerator.                                                        *)

\* go() while it decelerates, or has to reverse: at the lowest speed it stops,
\* and may turn.
Slower(up) ==
  /\ idx' = IF idx > 0 THEN idx - 1 ELSE 0
  /\ state' = IF idx' = 0 THEN "stop" ELSE "decel"
  /\ forward' = IF idx' = 0 THEN up ELSE forward

Faster ==
  /\ state' = IF idx + 1 = Size THEN "full" ELSE "accel"
  /\ idx' = IF idx + 1 = Size THEN idx ELSE idx + 1

\* Faulty: reverses at once when it is asked to while it accelerates.
Go_Turn(from, up) ==
  \/ from = "stop" /\ state' = "accel" /\ forward' = up /\ UNCHANGED idx
  \/ from = "full" /\ forward = up /\ state' = from /\ UNCHANGED <<idx, forward>>
  \/ from = "full" /\ forward # up /\ state' = "decel" /\ UNCHANGED <<idx, forward>>
  \/ from = "accel" /\ Faster /\ forward' = up
  \/ from = "decel" /\ Slower(up)

\* Accelerator::go(up), the state being from.
Go(from, up) ==
  \/ from = "stop" /\ state' = "accel" /\ forward' = up /\ UNCHANGED idx
  \/ from = "full" /\ forward = up /\ state' = from /\ UNCHANGED <<idx, forward>>
  \/ from = "full" /\ forward # up /\ state' = "decel" /\ UNCHANGED <<idx, forward>>
  \/ from = "accel" /\ forward = up /\ Faster /\ UNCHANGED forward
  \/ (from = "decel" \/ (from = "accel" /\ forward # up)) /\ Slower(up)

-----------------------------------------------------------------------------
(* The stepper.                                                            *)

\* get_delta() of a rotation: the sign is the shorter way round; the distance is
\* the one that does not pass zero.
RotateDelta ==
  LET d == rotate_to - count IN
    IF d \in 0 .. Steps \div 2 - 1 \/ d \in -(Steps \div 2) .. 0 THEN d ELSE -d

Delta == IF rotate_to = Nowhere THEN target - count ELSE RotateDelta

Ready == Delta = 0 /\ idx = 0

\* Faulty: decelerates only from full speed.
Braked_Full ==
  IF state = "full" /\ Abs(Delta) <= idx THEN "decel" ELSE state

\* poll() tells the accelerator to decelerate once it needs all the way left.
Braked ==
  IF state \in {"full", "accel"} /\ Abs(Delta) <= idx THEN "decel" ELSE state

StepTo(n, size) == (n + (IF forward' THEN 1 ELSE -1)) % size

\* Faulty: a rotation that ends leaves the target of an earlier seek().
Poll_OldTarget ==
  /\ ~Ready
  /\ Go(Braked, Delta > 0)
  /\ count' = StepTo(count, Steps)
  /\ phase' = StepTo(phase, Phases)
  /\ IF rotate_to # Nowhere /\ rotate_to = count' /\ idx' = 0
       THEN rotate_to' = Nowhere ELSE UNCHANGED rotate_to
  /\ UNCHANGED <<target, goal, side, commands>>

Poll ==
  /\ ~Ready
  /\ Go(Braked, Delta > 0)
  /\ count' = StepTo(count, Steps)
  /\ phase' = StepTo(phase, Phases)
  /\ IF rotate_to # Nowhere /\ rotate_to = count' /\ idx' = 0
       THEN rotate_to' = Nowhere /\ target' = count'
       ELSE UNCHANGED <<rotate_to, target>>
  /\ UNCHANGED <<goal, side, commands>>

Command == commands < MaxCommands /\ commands' = commands + 1

\* Faulty: the target may lie outside the circle.
Clip_High(t) == IF t < 0 THEN 0 ELSE t

Clip(t) == IF t < 0 THEN 0 ELSE IF t >= Steps THEN Steps - 1 ELSE t

Seek(t) ==
  /\ Command
  /\ target' = Clip(t)
  /\ goal' = IF rotate_to = Nowhere THEN target' ELSE goal
  /\ side' = IF Ready /\ state = "stop" THEN Sign(target' - count) ELSE 0
  /\ UNCHANGED <<accVars, count, rotate_to, phase>>

\* rotate() does nothing when the motor is just at t, be it on its way elsewhere.
Rotate(t) ==
  /\ Command
  /\ IF t % Steps # count
       THEN rotate_to' = t % Steps /\ goal' = rotate_to' /\ side' = 0
       ELSE UNCHANGED <<rotate_to, goal, side>>
  /\ UNCHANGED <<accVars, count, target, phase>>

\* zero() leaves a rotation to go on from the new position.  One that ends by it
\* leaves rotate_to set, and seek() is without effect until the next rotate().
Zero(t) ==
  /\ Command
  /\ count' = t /\ target' = t
  /\ goal' = IF rotate_to = Nowhere THEN t ELSE goal
  /\ side' = 0
  /\ UNCHANGED <<accVars, rotate_to, phase>>

Next ==
  \/ Poll
  \/ \E t \in -1 .. Steps : Seek(t) \/ Rotate(t)
  \/ \E t \in Positions : Zero(t)

Spec == Init /\ [][Next]_vars

\* The caller goes on polling, as "while (!stepper.ready()) stepper.poll()" of
\* the tests does.
FairSpec == Spec /\ WF_vars(Poll)

-----------------------------------------------------------------------------
(* Properties.                                                             *)

\* The position stays on the circle, and the accelerator's speed fits its state:
\* the asserts of go() hold (motor.cpp:204, 213).
TypeOK ==
  /\ state \in {"stop", "accel", "decel", "full"}
  /\ idx \in 0 .. Size - 1 /\ forward \in BOOLEAN
  /\ count \in Positions /\ target \in Positions
  /\ rotate_to \in Positions \cup {Nowhere}
  /\ phase \in 0 .. Phases - 1
  /\ state = "full" => idx = Size - 1
  /\ state = "stop" => idx = 0

\* A motor at rest that is told to seek() passes its target by one step at most,
\* "because of the accel/decel, overshoot etc." (unit-tests/motor_test.cpp:40).
\* A target at an end of the range is left out: that one step takes the position
\* through zero, and the motor back the whole way round.
NoOvershoot ==
  side # 0 /\ target \in 1 .. Steps - 2 => side * (target - count) >= -1

\* seek() clips its target "to valid limits" (motor.cpp:297): a seek() of a motor
\* at rest does not take the position through zero.
StaysInRange == [][side # 0 /\ Poll => Abs(count' - count) <= 1]_vars

\* The coils never turn back at speed: two successive steps in opposite
\* directions have a stop of the accelerator between them, whatever commands
\* come while the motor moves.
TurnsAtRest == [][forward' # forward => state = "stop" \/ state' = "stop"]_vars

\* The motor has time to brake: before it turns, and before its target.
BrakesInTime ==
  [][NoOvershoot' /\ (forward' # forward => state = "stop" \/ state' = "stop")]_vars

\* However the commands cut into each other, the motor comes to rest where it
\* was sent last, a rotation taking precedence over a seek() that comes during it
\* (unit-tests/motor_test.cpp:441).
Arrives == <>[](Ready /\ count = goal)
=============================================================================
