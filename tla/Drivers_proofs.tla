---------------------------- MODULE Drivers_proofs --------------------------
(***************************************************************************)
(* The stepper motor, the mutexes, the pins, the LED strip, the one-wire   *)
(* thermometers and the parser of GPS sentences: for any number of steps   *)
(* and of speeds, any tasks and mutexes, any pins, LEDs, chips and         *)
(* sentences, whatever the order of the calls.                             *)
(***************************************************************************)
EXTENDS Motor, Mutexes, Pins, LedStrip, OneWire, Nmea, ListLemmas

-----------------------------------------------------------------------------
(* The motor.  TypeOK is inductive.                                        *)


LEMMA ModRange == \A n \in Int, m \in Nat : m > 1 => n % m \in 0 .. m - 1
OBVIOUS

\* What the accelerator's members may be.
AccOK ==
  /\ state \in {"stop", "accel", "decel", "full"}
  /\ idx \in 0 .. Size - 1 /\ forward \in BOOLEAN
  /\ state = "full" => idx = Size - 1
  /\ state = "stop" => idx = 0

\* What the stepper's members may be.
StepOK ==
  /\ count \in Positions /\ target \in Positions
  /\ rotate_to \in Positions \cup {Nowhere}
  /\ phase \in 0 .. Phases - 1

LEMMA TypeParts ==
  /\ TypeOK <=> AccOK /\ StepOK
  /\ TypeOK' <=> AccOK' /\ StepOK'
BY DEF TypeOK, AccOK, StepOK

-----------------------------------------------------------------------------
\* go() keeps the accelerator sound, also when poll() has told it to decelerate.
LEMMA GoKeeps ==
  ASSUME AccOK, NEW up \in BOOLEAN, Go(Braked, up)
  PROVE  AccOK'
<1>1. idx \in Nat /\ idx <= Size - 1 /\ Size \in Nat /\ Size > 0
  BY MotorAssumption DEF AccOK
<1>2. Braked \in {"stop", "accel", "decel", "full"}
  BY DEF Braked, AccOK
<1>3. Braked = state \/ (Braked = "decel" /\ state \in {"full", "accel"})
  BY DEF Braked
<1>4. ASSUME Slower(up) PROVE AccOK'
  <2>1. idx' \in 0 .. Size - 1
    BY <1>1, <1>4 DEF Slower
  <2>2. forward' \in BOOLEAN
    BY <1>4 DEF Slower, AccOK
  <2>3. (state' = "stop" /\ idx' = 0) \/ state' = "decel"
    BY <1>4 DEF Slower
  <2> QED
    BY <2>1, <2>2, <2>3 DEF AccOK
<1>5. ASSUME Faster, UNCHANGED forward PROVE AccOK'
  <2>1. idx' \in 0 .. Size - 1
    BY <1>1, <1>5 DEF Faster
  <2>2. state' = "accel" \/ (state' = "full" /\ idx' = Size - 1)
    BY <1>1, <1>5 DEF Faster
  <2> QED
    BY <1>5, <2>1, <2>2 DEF AccOK
<1>6. CASE Braked = "stop" /\ state' = "accel" /\ forward' = up /\ UNCHANGED idx
  BY <1>6 DEF AccOK
<1>7. CASE Braked = "full" /\ UNCHANGED <<idx, forward>> /\ state' \in {"full", "decel"}
  BY <1>3, <1>7 DEF AccOK
<1> QED
  BY <1>4, <1>5, <1>6, <1>7 DEF Go

LEMMA PollKeeps ==
  ASSUME TypeOK, Poll
  PROVE  TypeOK'
<1>1. AccOK /\ StepOK
  BY TypeParts
<1>2. AccOK'
  <2>1. (Delta > 0) \in BOOLEAN
    OBVIOUS
  <2> QED
    BY <1>1, <2>1, GoKeeps DEF Poll
<1>3. count' \in Positions
  <2>1. Steps \in Nat /\ Steps > 1
    BY MotorAssumption
  <2>2. count \in Int
    BY <1>1, <2>1 DEF StepOK, Positions
  <2>3. PICK d \in {1, -1} : count' = (count + d) % Steps
    BY DEF Poll, StepTo
  <2>4. count + d \in Int
    BY <2>2
  <2> QED
    BY <2>1, <2>3, <2>4, ModRange DEF Positions
<1>4. phase' \in 0 .. Phases - 1
  <2>1. phase \in Int
    BY <1>1 DEF StepOK, Phases
  <2>2. PICK d \in {1, -1} : phase' = (phase + d) % 8
    BY DEF Poll, StepTo, Phases
  <2>3. phase + d \in Int
    BY <2>1
  <2>4. (phase + d) % 8 \in 0 .. 7
    BY <2>3, SMT
  <2> QED
    BY <2>2, <2>4 DEF Phases
<1>5. target' \in Positions /\ rotate_to' \in Positions \cup {Nowhere}
  BY <1>1, <1>3 DEF Poll, StepOK
<1> QED
  BY <1>2, <1>3, <1>4, <1>5, TypeParts DEF StepOK

LEMMA CommandKeeps ==
  ASSUME TypeOK, NEW t \in Int, Seek(t) \/ Rotate(t) \/ (t \in Positions /\ Zero(t))
  PROVE  TypeOK'
<1>1. AccOK /\ StepOK /\ Steps \in Nat /\ Steps > 1
  BY TypeParts, MotorAssumption
<1>2. UNCHANGED accVars /\ phase' = phase
  BY DEF Seek, Rotate, Zero
<1>3. AccOK'
  BY <1>1, <1>2 DEF accVars, AccOK
<1>4. CASE Seek(t)
  <2>1. Clip(t) \in Positions
    BY <1>1 DEF Clip, Positions
  <2> QED
    BY <1>1, <1>2, <1>3, <1>4, <2>1, TypeParts DEF Seek, StepOK
<1>5. CASE Rotate(t)
  <2>1. t % Steps \in Positions
    BY <1>1, ModRange DEF Positions
  <2> QED
    BY <1>1, <1>2, <1>3, <1>5, <2>1, TypeParts DEF Rotate, StepOK
<1>6. CASE t \in Positions /\ Zero(t)
  BY <1>1, <1>2, <1>3, <1>6, TypeParts DEF Zero, StepOK
<1> QED
  BY <1>4, <1>5, <1>6

LEMMA StepKeeps == TypeOK /\ [Next]_vars => TypeOK'
<1> SUFFICES ASSUME TypeOK, [Next]_vars PROVE TypeOK'
  OBVIOUS
<1>1. CASE Poll
  BY <1>1, PollKeeps
<1>2. ASSUME NEW t \in -1 .. Steps, Seek(t) \/ Rotate(t) PROVE TypeOK'
  <2>1. t \in Int
    BY MotorAssumption
  <2> QED
    BY <1>2, <2>1, CommandKeeps
<1>3. ASSUME NEW t \in Positions, Zero(t) PROVE TypeOK'
  <2>1. t \in Int
    BY MotorAssumption DEF Positions
  <2> QED
    BY <1>3, <2>1, CommandKeeps
<1>4. CASE UNCHANGED vars
  BY <1>4 DEF vars, accVars, stepVars, TypeOK
<1> QED
  BY <1>1, <1>2, <1>3, <1>4 DEF Next

\* The asserts of the accelerator hold and the position stays on the circle,
\* whatever commands come while the motor moves (motor.cpp:204, 213, 271).
THEOREM MotorTypes == Spec => []TypeOK
<1>1. Init => TypeOK
  <2>1. 0 \in 0 .. Size - 1 /\ 0 \in Positions /\ 0 \in 0 .. Phases - 1
    BY MotorAssumption DEF Positions, Phases
  <2> QED
    BY <2>1 DEF Init, TypeOK
<1> QED
  BY <1>1, StepKeeps, PTL DEF Spec

\* Two successive steps in opposite directions have a stop between them: go()
\* turns only where it starts from rest or has just come to it (motor.cpp:156-247).
THEOREM TurnsOnlyAtRest == Spec => TurnsAtRest
<1>1. Next => (forward' # forward => state = "stop" \/ state' = "stop")
  <2> SUFFICES ASSUME Next, forward' # forward PROVE state = "stop" \/ state' = "stop"
    OBVIOUS
  <2>1. CASE Poll
    <3>1. Go(Braked, Delta > 0)
      BY <2>1 DEF Poll
    <3>2. Braked = "stop" => state = "stop"
      BY DEF Braked
    <3> QED
      BY <3>1, <3>2 DEF Go, Slower
  <2>2. CASE UNCHANGED accVars
    BY <2>2 DEF accVars
  <2> QED
    BY <2>1, <2>2 DEF Next, Seek, Rotate, Zero
<1>2. [Next]_vars => [forward' # forward => state = "stop" \/ state' = "stop"]_vars
  BY <1>1
<1> QED
  BY <1>2, PTL DEF Spec, TurnsAtRest

-----------------------------------------------------------------------------
(* The braking distance.  A seek() of a motor at rest is followed from its *)
(* start: the way left to the target, seen in the direction of the seek(), *)
(* is at least the speed, less one step.                                   *)

\* The way left: negative once the target is passed.
Left == IF side = 1 THEN target - count ELSE count - target

\* It turns towards the target.
Ahead == forward = (side = 1)

\* By the state of the accelerator; at the lowest speed it may have turned back.
Brakes ==
  \/ state = "stop" /\ Left >= -1
  \/ state = "accel" /\ idx = 0 /\ Left = 0
  \/ state = "accel" /\ Ahead /\ Left >= idx - 1 /\ Left >= 0
  \/ state = "decel" /\ Ahead /\ Left >= idx - 1 /\ idx > 0
  \/ state = "full" /\ Ahead /\ Left >= idx

\* A seek() that comes after zero() has ended a rotation is without effect.
SeekInv ==
  /\ side \in {-1, 0, 1}
  /\ side # 0 =>
       \/ rotate_to = count /\ state = "stop" /\ Left >= 0
       \/ rotate_to = Nowhere /\ (target \in 1 .. Steps - 2 => Brakes)

\* The numbers, and the step of the count away from the ends of the range.
LEMMA MotorNumbers ==
  ASSUME TypeOK
  PROVE  /\ Steps \in Nat /\ Steps > 1 /\ Size \in Nat /\ Size > 0
         /\ count \in Int /\ 0 <= count /\ count < Steps /\ target \in Int
         /\ idx \in Int /\ 0 <= idx /\ idx <= Size - 1 /\ forward \in BOOLEAN
         /\ state = "full" => idx = Size - 1
         /\ state = "stop" => idx = 0
  BY MotorAssumption DEF TypeOK, Positions

LEMMA StepAlong ==
  ASSUME TypeOK, forward' \in BOOLEAN
  PROVE  /\ forward' /\ count + 1 < Steps => StepTo(count, Steps) = count + 1
         /\ ~forward' /\ count > 0 => StepTo(count, Steps) = count - 1
<1>1. /\ Steps \in Nat \ {0} /\ count \in Int /\ 0 <= count /\ count < Steps
  BY MotorNumbers
<1>2. ASSUME forward', count + 1 < Steps PROVE StepTo(count, Steps) = count + 1
  <2>1. count + 1 \in 0 .. Steps - 1
    BY <1>1, <1>2
  <2>2. (count + 1) % Steps = count + 1
    BY <1>1, <2>1, WrapFacts
  <2> QED
    BY <1>2, <2>2 DEF StepTo
<1>3. ASSUME ~forward', count > 0 PROVE StepTo(count, Steps) = count - 1
  <2>1. count + -1 \in 0 .. Steps - 1 /\ count + -1 = count - 1
    BY <1>1, <1>3
  <2>2. (count + -1) % Steps = count + -1
    BY <1>1, <2>1, WrapFacts
  <2> QED
    BY <1>3, <2>1, <2>2 DEF StepTo
<1> QED
  BY <1>2, <1>3

\* What a step of the motor does to the way left.
LEMMA WayLeft ==
  ASSUME TypeOK, side \in {-1, 1}, target \in 1 .. Steps - 2, forward' \in BOOLEAN,
         count' = StepTo(count, Steps), UNCHANGED <<target, side>>
  PROVE  /\ Left \in Int
         /\ Left >= 0 /\ Ahead' => Left' = Left - 1
         /\ Left \in {-1, 0} /\ ~Ahead' => Left' = Left + 1
<1>1. /\ Steps \in Nat /\ count \in Int /\ 0 <= count /\ count < Steps
      /\ target \in Int /\ 1 <= target /\ target <= Steps - 2
  BY MotorNumbers
<1>2. CASE side = 1
  <2>1. Left = target - count /\ Left' = target - count' /\ (Ahead' <=> forward')
    BY <1>2 DEF Left, Ahead
  <2>2. ASSUME Left >= 0, forward' PROVE Left' = Left - 1
    <3>1. count' = count + 1
      BY <1>1, <2>1, <2>2, StepAlong
    <3> QED
      BY <1>1, <2>1, <3>1
  <2>3. ASSUME Left \in {-1, 0}, ~forward' PROVE Left' = Left + 1
    <3>1. count' = count - 1
      BY <1>1, <2>1, <2>3, StepAlong
    <3> QED
      BY <1>1, <2>1, <3>1
  <2> QED
    BY <1>1, <2>1, <2>2, <2>3
<1>3. CASE side = -1
  <2>1. Left = count - target /\ Left' = count' - target /\ (Ahead' <=> ~forward')
    BY <1>3 DEF Left, Ahead
  <2>2. ASSUME Left >= 0, ~forward' PROVE Left' = Left - 1
    <3>1. count' = count - 1
      BY <1>1, <2>1, <2>2, StepAlong
    <3> QED
      BY <1>1, <2>1, <3>1
  <2>3. ASSUME Left \in {-1, 0}, forward' PROVE Left' = Left + 1
    <3>1. count' = count + 1
      BY <1>1, <2>1, <2>3, StepAlong
    <3> QED
      BY <1>1, <2>1, <3>1
  <2> QED
    BY <1>1, <2>1, <2>2, <2>3
<1> QED
  BY <1>2, <1>3

\* Decelerating, the motor may turn only where it comes to rest.
LEMMA SlowerBrakes ==
  ASSUME TypeOK, side \in {-1, 1}, NEW up \in BOOLEAN, Slower(up), idx > 0, Ahead,
         Left \in Int, Left >= idx - 1, Left > 0 => up = (side = 1), side' = side,
         Left >= 0 /\ Ahead' => Left' = Left - 1,
         Left \in {-1, 0} /\ ~Ahead' => Left' = Left + 1
  PROVE  Brakes'
<1>1. idx \in Int /\ idx' = idx - 1
  BY MotorNumbers DEF Slower
<1>2. CASE idx = 1
  <2>1. idx' = 0 /\ state' = "stop" /\ forward' = up
    BY <1>1, <1>2 DEF Slower
  <2>2. CASE Ahead'
    BY <1>2, <2>1, <2>2 DEF Brakes
  <2>3. CASE ~Ahead'
    <3>1. Left = 0
      BY <1>2, <2>1, <2>3 DEF Ahead
    <3> QED
      BY <2>1, <2>3, <3>1 DEF Brakes
  <2> QED
    BY <2>2, <2>3
<1>3. CASE idx # 1
  <2>1. idx' > 0 /\ idx' \in Int /\ state' = "decel" /\ forward' = forward
    BY <1>1, <1>3 DEF Slower
  <2>2. Ahead' /\ Left' = Left - 1
    BY <1>1, <1>3, <2>1 DEF Ahead
  <2> QED
    BY <1>1, <2>1, <2>2 DEF Brakes
<1> QED
  BY <1>2, <1>3

\* One step of a seek().
LEMMA PollBrakes ==
  ASSUME TypeOK, side \in {-1, 1}, rotate_to = Nowhere, target \in 1 .. Steps - 2, Brakes, Poll
  PROVE  Brakes'
<1> DEFINE up == Delta > 0
<1>0. /\ idx \in Int /\ 0 <= idx /\ idx <= Size - 1 /\ Size \in Int /\ forward \in BOOLEAN
      /\ state = "full" => idx = Size - 1
      /\ state = "stop" => idx = 0
  BY MotorNumbers
<1>1. count' = StepTo(count, Steps) /\ UNCHANGED <<target, side>> /\ Go(Braked, up) /\ ~Ready
  BY DEF Poll
<1>2. up \in BOOLEAN /\ forward' \in BOOLEAN
  <2>1. up \in BOOLEAN
    OBVIOUS
  <2>2. AccOK /\ Go(Braked, up)
    BY <1>1, TypeParts
  <2> HIDE DEF up
  <2>3. AccOK'
    BY <2>1, <2>2, GoKeeps
  <2> QED
    BY <2>1, <2>3 DEF AccOK
<1>3. /\ Left \in Int
      /\ Left >= 0 /\ Ahead' => Left' = Left - 1
      /\ Left \in {-1, 0} /\ ~Ahead' => Left' = Left + 1
  BY <1>1, <1>2, WayLeft
<1>4. Delta = (IF side = 1 THEN Left ELSE 0 - Left)
  BY MotorNumbers DEF Delta, Left
<1>5. /\ Left > 0 => up = (side = 1)
      /\ Left < 0 => up # (side = 1)
      /\ Left = 0 => idx # 0
      /\ Left >= 0 => Abs(Delta) = Left
  <2>1. Left = 0 => idx # 0
    <3>1. Left = 0 => Delta = 0
      BY <1>4
    <3> QED
      BY <1>1, <3>1 DEF Ready
  <2>2. CASE side = 1
    BY <1>3, <1>4, <2>1, <2>2 DEF Abs
  <2>3. CASE side = -1
    BY <1>3, <1>4, <2>1, <2>3 DEF Abs
  <2> QED
    BY <2>2, <2>3
<1> HIDE DEF up
<1>6. ASSUME Slower(up), idx > 0, Ahead, Left >= idx - 1 PROVE Brakes'
  BY <1>1, <1>2, <1>3, <1>5, <1>6, SlowerBrakes
<1>7. CASE state = "stop" /\ Left >= -1
  <2>1. state' = "accel" /\ forward' = up /\ idx' = 0 /\ idx = 0 /\ Left # 0
    BY <1>0, <1>1, <1>5, <1>7 DEF Go, Braked
  <2>2. CASE Left > 0
    <3>1. Ahead' /\ Left' = Left - 1
      BY <1>1, <1>3, <1>5, <2>1, <2>2 DEF Ahead
    <3> QED
      BY <1>3, <2>1, <2>2, <3>1 DEF Brakes
  <2>3. CASE Left = -1
    <3>1. ~Ahead' /\ Left' = 0
      BY <1>1, <1>3, <1>5, <2>1, <2>3 DEF Ahead
    <3> QED
      BY <2>1, <3>1 DEF Brakes
  <2> QED
    BY <1>3, <1>7, <2>1, <2>2, <2>3
<1>8. CASE state = "accel" /\ Ahead /\ Left >= idx - 1 /\ Left >= 0
  <2>1. CASE Left <= idx
    <3>1. Braked = "decel"
      BY <1>5, <1>8, <2>1 DEF Braked
    <3>2. Slower(up)
      BY <1>1, <3>1 DEF Go
    <3>3. idx > 0
      BY <1>0, <1>3, <1>5, <1>8, <2>1
    <3> QED
      BY <1>6, <1>8, <3>2, <3>3
  <2>2. CASE Left > idx
    <3>1. Braked = "accel" /\ forward = up
      BY <1>0, <1>3, <1>5, <1>8, <2>2 DEF Braked, Ahead
    <3>2. Faster /\ forward' = forward
      BY <1>1, <3>1 DEF Go
    <3>3. Ahead' /\ Left' = Left - 1
      BY <1>1, <1>3, <1>8, <3>2 DEF Ahead
    <3> QED
      BY <1>0, <1>3, <2>2, <3>2, <3>3 DEF Faster, Brakes
  <2> QED
    BY <1>0, <1>3, <2>1, <2>2
<1>9. CASE state = "decel" /\ Ahead /\ Left >= idx - 1 /\ idx > 0
  <2>1. Slower(up)
    BY <1>1, <1>9 DEF Go, Braked
  <2> QED
    BY <1>6, <1>9, <2>1
<1>10. CASE state = "full" /\ Ahead /\ Left >= idx
  <2>1. CASE Left <= idx
    <3>1. Braked = "decel"
      BY <1>0, <1>3, <1>5, <1>10, <2>1 DEF Braked
    <3>2. Slower(up)
      BY <1>1, <3>1 DEF Go
    <3>3. idx > 0 /\ Left >= idx - 1
      BY <1>0, <1>3, <1>5, <1>10, <2>1
    <3> QED
      BY <1>6, <1>10, <3>2, <3>3
  <2>2. CASE Left > idx
    <3>1. Braked = "full" /\ forward = up
      BY <1>0, <1>3, <1>5, <1>10, <2>2 DEF Braked, Ahead
    <3>2. state' = "full" /\ idx' = idx /\ forward' = forward
      BY <1>1, <3>1 DEF Go
    <3>3. Ahead' /\ Left' = Left - 1
      BY <1>0, <1>1, <1>3, <1>10, <3>2 DEF Ahead
    <3> QED
      BY <1>0, <1>3, <2>2, <3>2, <3>3 DEF Brakes
  <2> QED
    BY <1>0, <1>3, <2>1, <2>2
<1>11. CASE state = "accel" /\ idx = 0 /\ Left = 0
  BY <1>5, <1>11
<1> QED
  BY <1>7, <1>8, <1>9, <1>10, <1>11 DEF Brakes

\* What a command makes of it: only a seek() of a motor at rest is followed.
LEMMA SignIs ==
  \A n \in Int : /\ Sign(n) \in {-1, 0, 1}
                 /\ Sign(n) = 1 <=> n > 0
                 /\ Sign(n) = -1 <=> n < 0
<1> TAKE n \in Int
<1>1. CASE n > 0
  <2>1. n \div n = 1
    BY <1>1, SMT
  <2> QED
    BY <1>1, <2>1 DEF Sign, Abs
<1>2. CASE n < 0
  <2>1. n \div (-n) = -1
    BY <1>2, SMT
  <2> QED
    BY <1>2, <2>1 DEF Sign, Abs
<1> QED
  BY <1>1, <1>2 DEF Sign

LEMMA SeekFollowed ==
  ASSUME TypeOK, SeekInv, NEW t \in Int, Seek(t)
  PROVE  SeekInv'
<1>1. /\ UNCHANGED <<accVars, count, rotate_to>> /\ target' = Clip(t)
      /\ side' = IF Ready /\ state = "stop" THEN Sign(target' - count) ELSE 0
  BY DEF Seek
<1>2. count \in Int /\ target' \in Int /\ target' - count \in Int
  BY <1>1, MotorNumbers DEF Clip
<1>3. CASE Ready /\ state = "stop"
  <2>1. side' \in {-1, 0, 1} /\ (side' = 1 <=> target' - count > 0) /\ (side' = -1 <=> target' - count < 0)
    BY <1>1, <1>2, <1>3, SignIs
  <2>2. side' # 0 => Left' \in Int /\ Left' >= 0
    BY <1>1, <1>2, <2>1 DEF Left
  <2>3. state' = "stop" /\ rotate_to' = rotate_to /\ count' = count
    BY <1>1, <1>3 DEF accVars
  <2>4. rotate_to = Nowhere \/ rotate_to = count
    <3>1. rotate_to # Nowhere => RotateDelta = 0 /\ rotate_to \in Int
      BY <1>3 DEF Ready, Delta, TypeOK, Positions
    <3> QED
      BY <1>2, <3>1 DEF RotateDelta
  <2>5. side' # 0 => Brakes'
    BY <2>2, <2>3 DEF Brakes
  <2> QED
    BY <2>1, <2>2, <2>3, <2>4, <2>5 DEF SeekInv
<1>4. CASE ~(Ready /\ state = "stop")
  BY <1>1, <1>4 DEF SeekInv
<1> QED
  BY <1>3, <1>4

LEMMA SeekSame ==
  ASSUME SeekInv, UNCHANGED <<accVars, count, target, rotate_to, side>>
  PROVE  SeekInv'
<1>1. /\ state' = state /\ idx' = idx /\ forward' = forward /\ count' = count
      /\ target' = target /\ rotate_to' = rotate_to /\ side' = side
  BY DEF accVars
<1>2. Left' = Left /\ (Ahead' <=> Ahead)
  BY <1>1 DEF Left, Ahead
<1> QED
  BY <1>1, <1>2 DEF SeekInv, Brakes

LEMMA SeekKept == TypeOK /\ SeekInv /\ [Next]_vars => SeekInv'
<1> SUFFICES ASSUME TypeOK, SeekInv, [Next]_vars PROVE SeekInv'
  OBVIOUS
<1>1. CASE Poll
  <2>1. side' = side /\ ~Ready /\ (rotate_to = Nowhere => rotate_to' = Nowhere /\ target' = target)
    BY <1>1 DEF Poll
  <2>2. CASE side = 0
    BY <2>1, <2>2 DEF SeekInv
  <2>3. CASE side # 0 /\ rotate_to = count /\ state = "stop"
    <3>1. rotate_to # Nowhere /\ idx = 0 /\ rotate_to - count = 0 /\ Steps \in Nat
      BY <2>3, MotorNumbers DEF Nowhere
    <3>2. 0 \in -(Steps \div 2) .. 0
      <4>1. Steps \div 2 \in Int /\ Steps \div 2 >= 0
        BY <3>1, SMT
      <4> QED
        BY <4>1
    <3>3. Delta = 0
      BY <3>1, <3>2 DEF Delta, RotateDelta
    <3> QED
      BY <2>1, <3>1, <3>3 DEF Ready
  <2>4. CASE side # 0 /\ rotate_to = Nowhere /\ (target \in 1 .. Steps - 2 => Brakes)
    <3>1. side \in {-1, 1}
      BY <2>4 DEF SeekInv
    <3>2. target \in 1 .. Steps - 2 => Brakes'
      BY <1>1, <2>4, <3>1, PollBrakes
    <3> QED
      BY <2>1, <2>4, <3>1, <3>2 DEF SeekInv
  <2> QED
    BY <2>2, <2>3, <2>4 DEF SeekInv
<1>2. ASSUME NEW t \in -1 .. Steps, Seek(t) PROVE SeekInv'
  <2>1. t \in Int
    BY MotorAssumption
  <2> QED
    BY <1>2, <2>1, SeekFollowed
<1>3. ASSUME NEW t, Rotate(t) PROVE SeekInv'
  <2>1. CASE t % Steps # count
    BY <1>3, <2>1 DEF Rotate, SeekInv
  <2>2. CASE t % Steps = count
    BY <1>3, <2>2, SeekSame DEF Rotate
  <2> QED
    BY <2>1, <2>2
<1>4. ASSUME NEW t, Zero(t) PROVE SeekInv'
  BY <1>4 DEF Zero, SeekInv
<1>5. CASE UNCHANGED vars
  BY <1>5, SeekSame DEF vars, stepVars
<1> QED
  BY <1>1, <1>2, <1>3, <1>4, <1>5 DEF Next

\* However long the way and however many the speeds, a motor at rest that is told
\* to seek() passes its target by one step at most: it starts to brake when the
\* way left is its speed, and loses one speed a step (motor.cpp:335-338).
THEOREM PassesByOne == Spec => []NoOvershoot
<1>1. Init => SeekInv
  BY DEF Init, SeekInv
<1>2. Init => TypeOK
  BY MotorAssumption DEF Init, TypeOK, Positions, Phases
<1>3. TypeOK /\ SeekInv => NoOvershoot
  <2> SUFFICES ASSUME TypeOK, SeekInv, side # 0, target \in 1 .. Steps - 2
               PROVE  side * (target - count) >= -1
    BY DEF NoOvershoot
  <2>1. count \in Int /\ target \in Int /\ idx \in Int /\ idx >= 0
    BY MotorNumbers
  <2>2. side \in {-1, 1} /\ Left \in Int /\ Left >= -1
    BY <2>1 DEF SeekInv, Brakes, Left
  <2>3. side * (target - count) = Left
    BY <2>1, <2>2 DEF Left
  <2> QED
    BY <2>2, <2>3
<1> QED
  BY <1>1, <1>2, <1>3, SeekKept, StepKeeps, PTL DEF Spec

\* The motor has time to brake before it turns and before its target
\* (motor.cpp:156-247, 335-338).
THEOREM BrakesFirst == Spec => BrakesInTime
<1> QED
  BY TurnsOnlyAtRest, PassesByOne, PTL DEF BrakesInTime, TurnsAtRest

-----------------------------------------------------------------------------
(* The mutexes.  Locks are counted by where they are in the stacks of the  *)
(* contexts.                                                               *)

\* The places of a sequence that hold one of S.
At(q, S) == {i \in DOMAIN q : q[i] \in S}
Num(q, S) == Cardinality(At(q, S))

LEMMA AtFinite ==
  ASSUME NEW T, NEW q \in Seq(T), NEW S
  PROVE  IsFiniteSet(At(q, S)) /\ Num(q, S) \in Nat /\ At(q, S) \subseteq 1 .. Len(q)
<1>1. IsFiniteSet(1 .. Len(q))
  <2>1. 1 \in Int /\ Len(q) \in Int
    OBVIOUS
  <2> QED
    BY <2>1, FS_Interval
<1>2. At(q, S) \subseteq 1 .. Len(q)
  BY DEF At
<1> QED
  BY <1>1, <1>2, FS_Subset, FS_CardinalityType DEF Num

LEMMA NumNone ==
  ASSUME NEW T, NEW q \in Seq(T), NEW S
  PROVE  Num(q, S) = 0 <=> At(q, S) = {}
  BY AtFinite, FS_EmptySet DEF Num

LEMMA AppendAt ==
  ASSUME NEW T, NEW q \in Seq(T), NEW m \in T, NEW S
  PROVE  /\ At(Append(q, m), S) = IF m \in S THEN At(q, S) \cup {Len(q) + 1} ELSE At(q, S)
         /\ Num(Append(q, m), S) = IF m \in S THEN Num(q, S) + 1 ELSE Num(q, S)
<1> DEFINE n == Len(q)
           r == Append(q, m)
<1>1. /\ n \in Nat /\ DOMAIN q = 1 .. n /\ DOMAIN r = 1 .. n + 1
      /\ \A i \in 1 .. n : r[i] = q[i]
      /\ r[n + 1] = m
  OBVIOUS
<1> HIDE DEF r, n
<1>2. At(r, S) = IF m \in S THEN At(q, S) \cup {n + 1} ELSE At(q, S)
  <2>1. \A i \in 1 .. n + 1 : i \in 1 .. n \/ i = n + 1
    BY <1>1
  <2>2. \A i \in 1 .. n : i \in 1 .. n + 1
    BY <1>1
  <2>3. n + 1 \in 1 .. n + 1 /\ n + 1 \notin 1 .. n
    BY <1>1
  <2> QED
    BY <1>1, <2>1, <2>2, <2>3 DEF At
<1>3. n + 1 \notin At(q, S) /\ IsFiniteSet(At(q, S))
  <2>1. n + 1 \notin 1 .. n
    BY <1>1
  <2> QED
    BY <2>1, AtFinite DEF n
<1>4. Cardinality(At(q, S) \cup {n + 1}) = Cardinality(At(q, S)) + 1
  BY <1>3, FS_AddElement
<1> QED
  BY <1>2, <1>4 DEF Num, r, n

LEMMA FrontAt ==
  ASSUME NEW T, NEW q \in Seq(T), q # <<>>, NEW S
  PROVE  /\ SubSeq(q, 1, Len(q) - 1) \in Seq(T)
         /\ \A i \in 1 .. Len(q) - 1 : SubSeq(q, 1, Len(q) - 1)[i] = q[i]
         /\ q[Len(q)] \in T
         /\ At(SubSeq(q, 1, Len(q) - 1), S) = At(q, S) \ {Len(q)}
         /\ Num(SubSeq(q, 1, Len(q) - 1), S) =
              IF q[Len(q)] \in S THEN Num(q, S) - 1 ELSE Num(q, S)
<1> DEFINE n == Len(q)
           r == SubSeq(q, 1, Len(q) - 1)
<1>1. /\ n \in Nat /\ n > 0 /\ DOMAIN q = 1 .. n /\ r \in Seq(T) /\ Len(r) = n - 1
      /\ DOMAIN r = 1 .. n - 1
      /\ \A i \in 1 .. n - 1 : r[i] = q[i]
  <2>1. n \in Nat /\ n > 0 /\ DOMAIN q = 1 .. n /\ \A i \in 1 .. n - 1 : q[i] \in T
    OBVIOUS
  <2>2. 1 \in Int /\ n - 1 \in Int
    BY <2>1
  <2>3. /\ r \in Seq(T) /\ Len(r) = (IF 1 <= n - 1 THEN (n - 1) - 1 + 1 ELSE 0)
        /\ \A i \in 1 .. (n - 1) - 1 + 1 : r[i] = q[1 + i - 1]
    BY <2>1, <2>2, SubSeqProperties
  <2> HIDE DEF r, n
  <2>4. Len(r) = n - 1 /\ DOMAIN r = 1 .. Len(r)
    BY <2>1, <2>3
  <2>5. \A i \in 1 .. n - 1 : r[i] = q[i]
    BY <2>1, <2>3
  <2> QED
    BY <2>1, <2>3, <2>4, <2>5
<1>2. q[n] \in T
  BY <1>1
<1> HIDE DEF r, n
<1>3. At(r, S) = At(q, S) \ {n}
  <2>1. \A i \in 1 .. n - 1 : i \in 1 .. n /\ i # n
    BY <1>1
  <2>2. \A i \in 1 .. n : i = n \/ i \in 1 .. n - 1
    BY <1>1
  <2> QED
    BY <1>1, <2>1, <2>2 DEF At
<1>4. n \in At(q, S) <=> q[n] \in S
  BY <1>1 DEF At
<1>5. IsFiniteSet(At(q, S))
  BY AtFinite
<1>6. Num(r, S) = IF q[n] \in S THEN Num(q, S) - 1 ELSE Num(q, S)
  BY <1>3, <1>4, <1>5, FS_RemoveElement DEF Num
<1> QED
  BY <1>1, <1>2, <1>3, <1>6 DEF r, n

-----------------------------------------------------------------------------
AllMutexes == DOMAIN Types
OfType(k) == {m \in AllMutexes : Type(m) = k}
Owned == OfType("SYSTEM") \cup OfType("RECURSIVE")

\* The task that runs, or that the interrupt has stopped.
Current == IF cpu = "isr" THEN below ELSE cpu

\* Where a context is in critical sections.
Critical(c) == At(held[c], OfType("CRITICAL_SECTION"))

MutexTypes ==
  /\ arch \in {"stm32", "riscv32", "linux"}
  /\ cpu \in Contexts /\ below \in Tasks /\ irq \in BOOLEAN
  /\ mutex \in [AllMutexes -> [owner : Tasks, count : Int, old : BOOLEAN]]
  /\ held \in [Contexts -> Seq(AllMutexes)]

\* The scheduler is suspended once for each task lock, all of one task.
TaskInv ==
  /\ suspended = Num(held[Current], OfType("TASK_LOCK"))
  /\ \A c \in Contexts \ {Current} : At(held[c], OfType("TASK_LOCK")) = {}

\* A mutex with an owner counts his locks.
OwnedInv ==
  \A m \in Owned :
    /\ mutex[m].count = Num(held[mutex[m].owner], {m})
    /\ \A c \in Contexts \ {mutex[m].owner} : At(held[c], {m}) = {}

\* Interrupts are off in critical sections, which only whoever runs is in; the
\* outermost keeps that they were on, the others that they were off, and on STM32
\* there is only that one.
IrqInv ==
  /\ irq <=> Critical(cpu) = {}
  /\ \A c \in Contexts \ {cpu} : Critical(c) = {}
  /\ \A i \in Critical(cpu) :
       /\ mutex[held[cpu][i]].old <=> \A j \in Critical(cpu) : j >= i
       /\ arch = "stm32" => mutex[held[cpu][i]].old
       /\ \A j \in Critical(cpu) : held[cpu][i] = held[cpu][j] => i = j
  /\ held["isr"] # <<>> => cpu = "isr"

MutexInv == MutexTypes /\ TaskInv /\ OwnedInv /\ IrqInv

LEMMA TypesDiffer ==
  ASSUME MutexesAssumption, NEW m \in AllMutexes
  PROVE  Type(m) \in Kinds /\ "SYSTEM" \in Kinds
  BY DEF MutexesAssumption, Type, AllMutexes, Kinds

LEMMA MutexStart == MutexesAssumption /\ MutexInit => MutexInv
<1> SUFFICES ASSUME MutexesAssumption, MutexInit PROVE MutexInv
  OBVIOUS
<1>1. "isr" \notin Tasks /\ cpu \in Tasks /\ below = cpu /\ suspended = 0 /\ irq = TRUE
  BY DEF MutexInit, MutexesAssumption
<1>2. \A c \in Contexts : held[c] = <<>>
  BY DEF MutexInit
<1>3. \A S : At(<<>>, S) = {} /\ Num(<<>>, S) = 0
  <2>1. \A S : At(<<>>, S) = {}
    BY DEF At
  <2> QED
    BY <2>1, FS_EmptySet DEF Num
<1>4. \A m \in AllMutexes : mutex[m].owner = cpu /\ mutex[m].count = 0
  BY DEF MutexInit, AllMutexes
<1>5. Current = cpu /\ cpu \in Contexts
  BY <1>1 DEF Current, Contexts
<1>6. MutexTypes
  <2>1. <<>> \in Seq(AllMutexes)
    BY EmptySeq
  <2>2. mutex \in [AllMutexes -> [owner : Tasks, count : Int, old : BOOLEAN]]
    BY <1>1 DEF MutexInit, AllMutexes
  <2>3. held \in [Contexts -> Seq(AllMutexes)]
    BY <2>1 DEF MutexInit
  <2> QED
    BY <1>1, <1>5, <2>2, <2>3 DEF MutexInit, MutexTypes
<1>7. TaskInv
  BY <1>1, <1>2, <1>3, <1>5 DEF TaskInv
<1>8. OwnedInv
  BY <1>2, <1>3, <1>4, <1>5 DEF OwnedInv, Owned, OfType
<1>9. IrqInv
  BY <1>1, <1>2, <1>3, <1>5 DEF IrqInv, Critical, Contexts
<1> QED
  BY <1>6, <1>7, <1>8, <1>9 DEF MutexInv

\* What the stacks are after a lock and an unlock.
LEMMA LockHeld ==
  ASSUME MutexTypes, NEW m \in AllMutexes, Lock(m), NEW S
  PROVE  /\ At(held'[cpu], S) = IF m \in S THEN At(held[cpu], S) \cup {Len(held[cpu]) + 1}
                                ELSE At(held[cpu], S)
         /\ Num(held'[cpu], S) = IF m \in S THEN Num(held[cpu], S) + 1 ELSE Num(held[cpu], S)
         /\ \A c \in Contexts \ {cpu} : held'[c] = held[c]
         /\ \A i \in 1 .. Len(held[cpu]) : held'[cpu][i] = held[cpu][i]
         /\ held'[cpu][Len(held[cpu]) + 1] = m
         /\ held' \in [Contexts -> Seq(AllMutexes)]
         /\ held[cpu] \in Seq(AllMutexes) /\ cpu \in Contexts
<1>1. held[cpu] \in Seq(AllMutexes) /\ cpu \in Contexts /\ held \in [Contexts -> Seq(AllMutexes)]
  BY DEF MutexTypes
<1>2. held' = [held EXCEPT ![cpu] = Append(held[cpu], m)]
  BY DEF Lock
<1>3. held'[cpu] = Append(held[cpu], m) /\ \A c \in Contexts \ {cpu} : held'[c] = held[c]
  BY <1>1, <1>2
<1>4. /\ Append(held[cpu], m) \in Seq(AllMutexes)
      /\ \A i \in 1 .. Len(held[cpu]) : Append(held[cpu], m)[i] = held[cpu][i]
      /\ Append(held[cpu], m)[Len(held[cpu]) + 1] = m
  BY <1>1
<1>5. held' \in [Contexts -> Seq(AllMutexes)]
  BY <1>1, <1>2, <1>4
<1> QED
  BY <1>1, <1>3, <1>4, <1>5, AppendAt

LEMMA UnlockHeld ==
  ASSUME MutexTypes, Unlock, NEW S
  PROVE  /\ held[cpu] \in Seq(AllMutexes) /\ cpu \in Contexts
         /\ Len(held[cpu]) \in Nat \ {0}
         /\ held[cpu][Len(held[cpu])] \in AllMutexes
         /\ At(held'[cpu], S) = At(held[cpu], S) \ {Len(held[cpu])}
         /\ Num(held'[cpu], S) = IF held[cpu][Len(held[cpu])] \in S
                                 THEN Num(held[cpu], S) - 1 ELSE Num(held[cpu], S)
         /\ \A c \in Contexts \ {cpu} : held'[c] = held[c]
         /\ \A i \in 1 .. Len(held[cpu]) - 1 : held'[cpu][i] = held[cpu][i]
         /\ held' \in [Contexts -> Seq(AllMutexes)]
<1>1. held[cpu] \in Seq(AllMutexes) /\ cpu \in Contexts /\ held[cpu] # <<>>
      /\ held \in [Contexts -> Seq(AllMutexes)]
  BY DEF MutexTypes, Unlock
<1> DEFINE front == SubSeq(held[cpu], 1, Len(held[cpu]) - 1)
<1>2. held' = [held EXCEPT ![cpu] = front]
  BY DEF Unlock
<1>3. /\ front \in Seq(AllMutexes)
      /\ \A i \in 1 .. Len(held[cpu]) - 1 : front[i] = held[cpu][i]
      /\ held[cpu][Len(held[cpu])] \in AllMutexes
      /\ At(front, S) = At(held[cpu], S) \ {Len(held[cpu])}
      /\ Num(front, S) = IF held[cpu][Len(held[cpu])] \in S
                         THEN Num(held[cpu], S) - 1 ELSE Num(held[cpu], S)
  BY <1>1, FrontAt
<1> HIDE DEF front
<1>4. held'[cpu] = front /\ \A c \in Contexts \ {cpu} : held'[c] = held[c]
  BY <1>1, <1>2
<1>5. held' \in [Contexts -> Seq(AllMutexes)]
  BY <1>1, <1>2, <1>3
<1>6. Len(held[cpu]) \in Nat \ {0}
  BY <1>1
<1> QED
  BY <1>1, <1>3, <1>4, <1>5, <1>6

\* What each lock and release does to everything but the stacks, by the type.
LEMMA LockKinds ==
  ASSUME MutexTypes, NEW m \in AllMutexes, Lock(m)
  PROVE  /\ UNCHANGED <<arch, cpu, below>>
         /\ m \in OfType("TASK_LOCK") =>
              cpu # "isr" /\ suspended' = suspended + 1 /\ irq' = irq /\ mutex' = mutex
         /\ m \in OfType("CRITICAL_SECTION") =>
              /\ arch = "stm32" => irq
              /\ ~Holds(cpu, m)
              /\ mutex' = [mutex EXCEPT ![m].old = irq] /\ irq' = FALSE
              /\ suspended' = suspended
         /\ m \in Owned =>
              /\ cpu # "isr" /\ irq' = irq /\ suspended' = suspended
              /\ mutex[m].count = 0 \/ mutex[m].owner = cpu
              /\ mutex' = [mutex EXCEPT ![m].owner = cpu, ![m].count = mutex[m].count + 1]
         /\ m \in OfType("TASK_LOCK") \cup OfType("CRITICAL_SECTION") \cup Owned
<1>1. UNCHANGED <<arch, cpu, below>>
      /\ (TaskLock(m) \/ CriticalLock(m) \/ SystemLock(m) \/ RecursiveLock(m))
  BY DEF Lock
<1>2. CASE TaskLock(m)
  BY <1>1, <1>2 DEF TaskLock, OfType, Owned
<1>3. CASE CriticalLock(m)
  BY <1>1, <1>3 DEF CriticalLock, OfType, Owned
<1>4. CASE SystemLock(m)
  <2>1. mutex' = [mutex EXCEPT ![m].owner = cpu, ![m].count = mutex[m].count + 1]
    BY <1>4 DEF SystemLock, MutexTypes
  <2> QED
    BY <1>1, <1>4, <2>1 DEF SystemLock, OfType, Owned
<1>5. CASE RecursiveLock(m)
  <2>1. mutex' = [mutex EXCEPT ![m].owner = cpu, ![m].count = mutex[m].count + 1]
    BY <1>5 DEF RecursiveLock, MutexTypes
  <2> QED
    BY <1>1, <1>5, <2>1 DEF RecursiveLock, OfType, Owned
<1> QED
  BY <1>1, <1>2, <1>3, <1>4, <1>5

LEMMA UnlockKinds ==
  ASSUME MutexesAssumption, MutexTypes, Unlock,
         NEW m \in AllMutexes, m = held[cpu][Len(held[cpu])]
  PROVE  /\ UNCHANGED <<arch, cpu, below>>
         /\ m \in OfType("TASK_LOCK") =>
              suspended' = suspended - 1 /\ irq' = irq /\ mutex' = mutex
         /\ m \in OfType("CRITICAL_SECTION") =>
              irq' = arch_restore_irq(mutex[m].old) /\ suspended' = suspended /\ mutex' = mutex
         /\ m \in Owned =>
              /\ irq' = irq /\ suspended' = suspended
              /\ mutex' = [mutex EXCEPT ![m].count = mutex[m].count - 1]
         /\ m \in OfType("TASK_LOCK") \cup OfType("CRITICAL_SECTION") \cup Owned
<1>1. UNCHANGED <<arch, cpu, below>> /\ Release(m)
  BY DEF Unlock
<1>2. Type(m) \in Kinds
  BY TypesDiffer
<1>3. CASE Type(m) = "TASK_LOCK"
  BY <1>1, <1>3 DEF Release, OfType, Owned
<1>4. CASE Type(m) = "CRITICAL_SECTION"
  BY <1>1, <1>4 DEF Release, OfType, Owned
<1>5. CASE Type(m) \in {"SYSTEM", "RECURSIVE"}
  <2>1. mutex' = [mutex EXCEPT ![m].count = @ - 1] /\ UNCHANGED <<suspended, irq>>
    BY <1>1, <1>5 DEF Release
  <2> QED
    BY <1>1, <1>5, <2>1 DEF OfType, Owned
<1> QED
  BY <1>2, <1>3, <1>4, <1>5 DEF Kinds

\* The types do not change, and no mutex has two.
LEMMA TypesKept ==
  /\ arch' = arch => \A k : OfType(k)' = OfType(k)
  /\ arch' = arch => Owned' = Owned
  /\ OfType("TASK_LOCK") \cap OfType("CRITICAL_SECTION") = {}
  /\ OfType("TASK_LOCK") \cap Owned = {} /\ OfType("CRITICAL_SECTION") \cap Owned = {}
  BY DEF OfType, Owned, Type, AllMutexes

-----------------------------------------------------------------------------
LEMMA TypesLock ==
  ASSUME MutexTypes, NEW m \in AllMutexes, Lock(m)
  PROVE  MutexTypes'
<1>1. held' \in [Contexts -> Seq(AllMutexes)]
  BY LockHeld
<1>2. mutex \in [AllMutexes -> [owner : Tasks, count : Int, old : BOOLEAN]]
      /\ irq \in BOOLEAN /\ cpu \in Contexts
  BY DEF MutexTypes
<1>3. mutex' \in [AllMutexes -> [owner : Tasks, count : Int, old : BOOLEAN]] /\ irq' \in BOOLEAN
  <2>1. CASE m \in OfType("TASK_LOCK")
    BY <1>2, <2>1, LockKinds
  <2>2. CASE m \in OfType("CRITICAL_SECTION")
    <3>1. mutex' = [mutex EXCEPT ![m].old = irq] /\ irq' = FALSE
      BY <2>2, LockKinds
    <3>2. \A b \in BOOLEAN :
            [mutex EXCEPT ![m].old = b] \in [AllMutexes -> [owner : Tasks, count : Int, old : BOOLEAN]]
      BY <1>2
    <3> QED
      BY <1>2, <3>1, <3>2
  <2>3. CASE m \in Owned
    <3>1. /\ mutex' = [mutex EXCEPT ![m].owner = cpu, ![m].count = mutex[m].count + 1]
          /\ irq' = irq /\ cpu \in Tasks
      BY <1>2, <2>3, LockKinds DEF Contexts
    <3>2. mutex[m].count + 1 \in Int
      BY <1>2
    <3>3. \A t \in Tasks, n \in Int :
            [mutex EXCEPT ![m].owner = t, ![m].count = n]
              \in [AllMutexes -> [owner : Tasks, count : Int, old : BOOLEAN]]
      BY <1>2
    <3> QED
      BY <1>2, <3>1, <3>2, <3>3
  <2> QED
    BY <2>1, <2>2, <2>3, LockKinds
<1>4. UNCHANGED <<arch, cpu, below>>
  BY LockKinds
<1> QED
  BY <1>1, <1>3, <1>4 DEF MutexTypes, AllMutexes, Contexts

LEMMA TypesUnlock ==
  ASSUME MutexesAssumption, MutexTypes, Unlock
  PROVE  MutexTypes'
<1>1. held' \in [Contexts -> Seq(AllMutexes)]
  BY UnlockHeld
<1>2. mutex \in [AllMutexes -> [owner : Tasks, count : Int, old : BOOLEAN]]
      /\ irq \in BOOLEAN
  BY DEF MutexTypes
<1>3. PICK m \in AllMutexes : m = held[cpu][Len(held[cpu])]
  BY UnlockHeld
<1>4. mutex' \in [AllMutexes -> [owner : Tasks, count : Int, old : BOOLEAN]] /\ irq' \in BOOLEAN
  <2>1. CASE m \in OfType("TASK_LOCK")
    BY <1>2, <1>3, <2>1, UnlockKinds
  <2>2. CASE m \in OfType("CRITICAL_SECTION")
    BY <1>2, <1>3, <2>2, UnlockKinds DEF arch_restore_irq
  <2>3. CASE m \in Owned
    BY <1>2, <1>3, <2>3, UnlockKinds
  <2> QED
    BY <1>3, <2>1, <2>2, <2>3, UnlockKinds
<1>5. UNCHANGED <<arch, cpu, below>>
  BY <1>3, UnlockKinds
<1> QED
  BY <1>1, <1>4, <1>5 DEF MutexTypes, AllMutexes, Contexts

-----------------------------------------------------------------------------
LEMMA TaskLocks ==
  ASSUME MutexTypes, TaskInv, NEW m \in AllMutexes, Lock(m)
  PROVE  TaskInv'
<1> DEFINE S == OfType("TASK_LOCK")
<1>1. UNCHANGED <<arch, cpu, below>> /\ S' = S /\ Current' = Current
  BY LockKinds, TypesKept DEF Current
<1> HIDE DEF S
<1>2. /\ At(held'[cpu], S) = IF m \in S THEN At(held[cpu], S) \cup {Len(held[cpu]) + 1}
                             ELSE At(held[cpu], S)
      /\ Num(held'[cpu], S) = IF m \in S THEN Num(held[cpu], S) + 1 ELSE Num(held[cpu], S)
      /\ \A c \in Contexts \ {cpu} : held'[c] = held[c]
      /\ cpu \in Contexts
  BY LockHeld
<1>3. suspended = Num(held[Current], S) /\ \A c \in Contexts \ {Current} : At(held[c], S) = {}
  BY DEF TaskInv, S
<1>4. Current \in Contexts
  BY DEF MutexTypes, Current, Contexts
<1>5. suspended' = Num(held'[Current], S) /\ \A c \in Contexts \ {Current} : At(held'[c], S) = {}
  <2>1. CASE m \in S
    <3>1. cpu = Current /\ suspended' = suspended + 1
      BY <2>1, LockKinds DEF S, Current
    <3> QED
      BY <1>2, <1>3, <1>4, <2>1, <3>1
  <2>2. CASE m \notin S
    <3>1. suspended' = suspended
      BY <2>2, LockKinds DEF S
    <3> QED
      BY <1>2, <1>3, <1>4, <2>2, <3>1
  <2> QED
    BY <2>1, <2>2
<1> QED
  BY <1>1, <1>5 DEF TaskInv, S, Contexts

LEMMA TaskUnlocks ==
  ASSUME MutexesAssumption, MutexTypes, TaskInv, Unlock
  PROVE  TaskInv'
<1> DEFINE S == OfType("TASK_LOCK")
<1>1. PICK m \in AllMutexes : m = held[cpu][Len(held[cpu])]
  BY UnlockHeld
<1>2. UNCHANGED <<arch, cpu, below>> /\ S' = S /\ Current' = Current
  BY <1>1, UnlockKinds, TypesKept DEF Current
<1> HIDE DEF S
<1>3. /\ At(held'[cpu], S) = At(held[cpu], S) \ {Len(held[cpu])}
      /\ Num(held'[cpu], S) = IF m \in S THEN Num(held[cpu], S) - 1 ELSE Num(held[cpu], S)
      /\ \A c \in Contexts \ {cpu} : held'[c] = held[c]
      /\ cpu \in Contexts /\ held[cpu] \in Seq(AllMutexes) /\ Len(held[cpu]) \in Nat \ {0}
  BY <1>1, UnlockHeld
<1>4. suspended = Num(held[Current], S) /\ \A c \in Contexts \ {Current} : At(held[c], S) = {}
  BY DEF TaskInv, S
<1>5. Current \in Contexts
  BY DEF MutexTypes, Current, Contexts
<1>6. suspended' = Num(held'[Current], S) /\ \A c \in Contexts \ {Current} : At(held'[c], S) = {}
  <2>1. CASE m \in S
    <3>1. suspended' = suspended - 1
      BY <1>1, <2>1, UnlockKinds DEF S
    <3>2. Len(held[cpu]) \in At(held[cpu], S)
      BY <1>1, <1>3, <2>1 DEF At
    <3>3. cpu = Current
      BY <1>3, <1>4, <3>2
    <3> QED
      BY <1>3, <1>4, <1>5, <2>1, <3>1, <3>3
  <2>2. CASE m \notin S
    <3>1. suspended' = suspended
      BY <1>1, <2>2, UnlockKinds DEF S
    <3> QED
      BY <1>3, <1>4, <1>5, <2>2, <3>1
  <2> QED
    BY <2>1, <2>2
<1> QED
  BY <1>2, <1>6 DEF TaskInv, S, Contexts

-----------------------------------------------------------------------------
LEMMA OwnedLocks ==
  ASSUME MutexTypes, OwnedInv, NEW m \in AllMutexes, Lock(m)
  PROVE  OwnedInv'
<1>1. UNCHANGED <<arch, cpu, below>> /\ Owned' = Owned
  BY LockKinds, TypesKept
<1>2. mutex \in [AllMutexes -> [owner : Tasks, count : Int, old : BOOLEAN]]
  BY DEF MutexTypes
<1>3. ASSUME NEW l \in Owned
      PROVE  /\ mutex'[l].count = Num(held'[mutex'[l].owner], {l})
             /\ \A c \in Contexts \ {mutex'[l].owner} : At(held'[c], {l}) = {}
  <2>1. /\ At(held'[cpu], {l}) = IF m = l THEN At(held[cpu], {l}) \cup {Len(held[cpu]) + 1}
                                 ELSE At(held[cpu], {l})
        /\ Num(held'[cpu], {l}) = IF m = l THEN Num(held[cpu], {l}) + 1 ELSE Num(held[cpu], {l})
        /\ \A c \in Contexts \ {cpu} : held'[c] = held[c]
        /\ cpu \in Contexts /\ held[cpu] \in Seq(AllMutexes)
    <3>1. PICK S : S = {l}
      OBVIOUS
    <3>2. m \in S <=> m = l
      BY <3>1
    <3> QED
      BY <3>1, <3>2, LockHeld
  <2>2. /\ mutex[l].count = Num(held[mutex[l].owner], {l})
        /\ \A c \in Contexts \ {mutex[l].owner} : At(held[c], {l}) = {}
    BY DEF OwnedInv
  <2>3. l \in AllMutexes /\ mutex[l].owner \in Contexts
    BY <1>2 DEF Owned, OfType, Contexts
  <2>4. CASE m = l
    <3>1. /\ mutex[l].count = 0 \/ mutex[l].owner = cpu
          /\ mutex' = [mutex EXCEPT ![l].owner = cpu, ![l].count = mutex[l].count + 1]
      BY <2>4, LockKinds
    <3>2. mutex'[l].owner = cpu /\ mutex'[l].count = mutex[l].count + 1
      BY <1>2, <2>3, <3>1
    <3>3. CASE mutex[l].owner = cpu
      BY <2>1, <2>2, <2>4, <3>2, <3>3
    <3>4. CASE mutex[l].owner # cpu
      <4>1. mutex[l].count = 0
        BY <3>1, <3>4
      <4>2. At(held[mutex[l].owner], {l}) = {}
        <5>1. held[mutex[l].owner] \in Seq(AllMutexes)
          BY <2>3 DEF MutexTypes
        <5> QED
          BY <2>2, <4>1, <5>1, NumNone
      <4>3. \A c \in Contexts : At(held[c], {l}) = {}
        BY <2>2, <4>2
      <4>4. Num(held[cpu], {l}) = 0
        BY <2>1, <4>3, NumNone
      <4> QED
        BY <2>1, <2>4, <3>2, <4>1, <4>3, <4>4
    <3> QED
      BY <3>3, <3>4
  <2>5. CASE m # l
    <3>1. mutex'[l].owner = mutex[l].owner /\ mutex'[l].count = mutex[l].count
      <4>1. CASE m \in OfType("TASK_LOCK")
        BY <4>1, LockKinds
      <4>2. CASE m \in OfType("CRITICAL_SECTION")
        BY <1>2, <2>3, <2>5, <4>2, LockKinds
      <4>3. CASE m \in Owned
        BY <1>2, <2>3, <2>5, <4>3, LockKinds
      <4> QED
        BY <4>1, <4>2, <4>3, LockKinds
    <3> QED
      BY <2>1, <2>2, <2>3, <2>5, <3>1
  <2> QED
    BY <2>4, <2>5
<1> QED
  BY <1>1, <1>3 DEF OwnedInv, Contexts

LEMMA OwnedUnlocks ==
  ASSUME MutexesAssumption, MutexTypes, OwnedInv, Unlock
  PROVE  OwnedInv'
<1>1. PICK m \in AllMutexes : m = held[cpu][Len(held[cpu])]
  BY UnlockHeld
<1>2. UNCHANGED <<arch, cpu, below>> /\ Owned' = Owned
  BY <1>1, UnlockKinds, TypesKept
<1>3. mutex \in [AllMutexes -> [owner : Tasks, count : Int, old : BOOLEAN]]
  BY DEF MutexTypes
<1>4. ASSUME NEW l \in Owned
      PROVE  /\ mutex'[l].count = Num(held'[mutex'[l].owner], {l})
             /\ \A c \in Contexts \ {mutex'[l].owner} : At(held'[c], {l}) = {}
  <2>1. /\ At(held'[cpu], {l}) = At(held[cpu], {l}) \ {Len(held[cpu])}
        /\ Num(held'[cpu], {l}) = IF m = l THEN Num(held[cpu], {l}) - 1 ELSE Num(held[cpu], {l})
        /\ \A c \in Contexts \ {cpu} : held'[c] = held[c]
        /\ cpu \in Contexts /\ held[cpu] \in Seq(AllMutexes) /\ Len(held[cpu]) \in Nat \ {0}
    <3>1. PICK S : S = {l}
      OBVIOUS
    <3>2. m \in S <=> m = l
      BY <3>1
    <3> QED
      BY <1>1, <3>1, <3>2, UnlockHeld
  <2>2. /\ mutex[l].count = Num(held[mutex[l].owner], {l})
        /\ \A c \in Contexts \ {mutex[l].owner} : At(held[c], {l}) = {}
    BY DEF OwnedInv
  <2>3. l \in AllMutexes /\ mutex[l].owner \in Contexts
    BY <1>3 DEF Owned, OfType, Contexts
  <2>4. CASE m = l
    <3>1. mutex' = [mutex EXCEPT ![l].count = mutex[l].count - 1]
      BY <1>1, <2>4, UnlockKinds
    <3>2. mutex'[l].owner = mutex[l].owner /\ mutex'[l].count = mutex[l].count - 1
      <4>1. mutex' = [mutex EXCEPT ![l].count = mutex[l].count - 1]
        BY <2>4, <3>1
      <4>2. \A n : LET f == [mutex EXCEPT ![l].count = n]
                   IN f[l].owner = mutex[l].owner /\ f[l].count = n
        BY <1>3, <2>3
      <4> QED
        BY <4>1, <4>2
    <3>3. Len(held[cpu]) \in At(held[cpu], {l})
      <4>1. Len(held[cpu]) \in DOMAIN held[cpu]
        BY <2>1
      <4>2. held[cpu][Len(held[cpu])] \in {l}
        BY <1>1, <2>4
      <4> QED
        BY <4>1, <4>2 DEF At
    <3>4. mutex[l].owner = cpu
      BY <2>1, <2>2, <3>3
    <3> QED
      BY <2>1, <2>2, <2>4, <3>2, <3>4
  <2>5. CASE m # l
    <3>1. mutex'[l].owner = mutex[l].owner /\ mutex'[l].count = mutex[l].count
      <4>1. CASE m \in OfType("TASK_LOCK")
        BY <1>1, <4>1, UnlockKinds
      <4>2. CASE m \in OfType("CRITICAL_SECTION")
        BY <1>1, <4>2, UnlockKinds
      <4>3. CASE m \in Owned
        BY <1>1, <1>3, <2>3, <2>5, <4>3, UnlockKinds
      <4> QED
        BY <1>1, <4>1, <4>2, <4>3, UnlockKinds
    <3> QED
      BY <2>1, <2>2, <2>3, <2>5, <3>1
  <2> QED
    BY <2>4, <2>5
<1> QED
  BY <1>2, <1>4 DEF OwnedInv, Contexts

-----------------------------------------------------------------------------
LEMMA IrqLocks ==
  ASSUME MutexTypes, IrqInv, NEW m \in AllMutexes, Lock(m)
  PROVE  IrqInv'
<1> DEFINE S == OfType("CRITICAL_SECTION")
           q == held[cpu]
           n == Len(held[cpu])
<1>1. UNCHANGED <<arch, cpu, below>> /\ S' = S
  BY LockKinds, TypesKept
<1>2. /\ Critical(cpu)' = IF m \in S THEN Critical(cpu) \cup {n + 1} ELSE Critical(cpu)
      /\ \A c \in Contexts \ {cpu} : held'[c] = held[c] /\ Critical(c)' = Critical(c)
      /\ \A i \in 1 .. n : held'[cpu][i] = q[i]
      /\ held'[cpu][n + 1] = m
      /\ cpu \in Contexts /\ n \in Nat
  <2> HIDE DEF S
  <2>1. /\ At(held'[cpu], S) = IF m \in S THEN At(q, S) \cup {n + 1} ELSE At(q, S)
        /\ \A c \in Contexts \ {cpu} : held'[c] = held[c]
        /\ \A i \in 1 .. n : held'[cpu][i] = q[i]
        /\ held'[cpu][n + 1] = m
        /\ cpu \in Contexts /\ q \in Seq(AllMutexes)
    BY LockHeld
  <2>2. \A c : Critical(c) = At(held[c], S)
    BY DEF Critical, S
  <2>3. \A c \in Contexts : Critical(c)' = At(held'[c], S)
    BY <1>1 DEF Critical, S
  <2>4. Critical(cpu)' = At(held'[cpu], S)
    BY <1>1 DEF Critical, S
  <2>5. n \in Nat
    BY <2>1
  <2> QED
    BY <2>1, <2>2, <2>3, <2>4, <2>5
<1>3. Critical(cpu) \subseteq 1 .. n /\ \A i \in Critical(cpu) : q[i] \in AllMutexes /\ q[i] \in S
  <2>1. q \in Seq(AllMutexes)
    BY LockHeld
  <2> QED
    BY <2>1, AtFinite DEF Critical, At
<1>4. mutex \in [AllMutexes -> [owner : Tasks, count : Int, old : BOOLEAN]] /\ irq \in BOOLEAN
  BY DEF MutexTypes
<1>5. /\ irq <=> Critical(cpu) = {}
      /\ \A c \in Contexts \ {cpu} : Critical(c) = {}
      /\ \A i \in Critical(cpu) :
           /\ mutex[q[i]].old <=> \A j \in Critical(cpu) : j >= i
           /\ arch = "stm32" => mutex[q[i]].old
           /\ \A j \in Critical(cpu) : q[i] = q[j] => i = j
      /\ held["isr"] # <<>> => cpu = "isr"
  BY DEF IrqInv
<1>6. held'["isr"] # <<>> => cpu = "isr"
  BY <1>2, <1>5 DEF Contexts
<1>7. CASE m \in S
  <2>1. /\ arch = "stm32" => irq
        /\ ~Holds(cpu, m)
        /\ mutex' = [mutex EXCEPT ![m].old = irq] /\ irq' = FALSE
    BY <1>7, LockKinds
  <2>2. mutex'[m].old = irq /\ \A l \in AllMutexes \ {m} : mutex'[l].old = mutex[l].old
    BY <1>4, <2>1
  <2>3. \A i \in Critical(cpu) : q[i] # m
    BY <1>3, <2>1 DEF Holds, Critical, At
  <2> HIDE DEF S
  <2>4. DEFINE C == Critical(cpu)
               D == Critical(cpu)'
  <2>5. D = C \cup {n + 1} /\ C \subseteq 1 .. n /\ n + 1 \notin C
    BY <1>2, <1>3, <1>7
  <2>6. \A i \in C : /\ held'[cpu][i] = q[i]
                     /\ mutex'[q[i]].old = mutex[q[i]].old
    BY <1>2, <1>3, <2>2, <2>3
  <2> HIDE DEF C, D
  <2>7. ASSUME NEW i \in D
        PROVE  /\ mutex'[held'[cpu][i]].old <=> \A j \in D : j >= i
               /\ arch = "stm32" => mutex'[held'[cpu][i]].old
               /\ \A j \in D : held'[cpu][i] = held'[cpu][j] => i = j
    <3>1. CASE i \in C
      <4>1. mutex[q[i]].old <=> \A j \in C : j >= i
        BY <1>5, <3>1 DEF C
      <4>2. (\A j \in C : j >= i) <=> (\A j \in D : j >= i)
        BY <1>2, <2>5, <3>1
      <4>3. mutex'[held'[cpu][i]].old = mutex[q[i]].old
        BY <2>6, <3>1
      <4>4. arch = "stm32" => mutex'[held'[cpu][i]].old
        BY <1>5, <3>1, <4>3 DEF C
      <4>5. \A j \in D : held'[cpu][i] = held'[cpu][j] => i = j
        BY <1>2, <1>5, <2>3, <2>5, <2>6, <3>1 DEF C
      <4> QED
        BY <4>1, <4>2, <4>3, <4>4, <4>5
    <3>2. CASE i = n + 1
      <4>1. mutex'[held'[cpu][i]].old = irq
        BY <1>2, <2>2, <3>2
      <4>2. (\A j \in D : j >= i) <=> C = {}
        BY <1>2, <2>5, <3>2
      <4>3. irq <=> C = {}
        BY <1>5 DEF C
      <4>4. \A j \in D : held'[cpu][i] = held'[cpu][j] => i = j
        BY <1>2, <2>3, <2>5, <2>6, <3>2 DEF C
      <4>5. arch = "stm32" => mutex'[held'[cpu][i]].old
        BY <2>1, <4>1
      <4> QED
        BY <4>1, <4>2, <4>3, <4>4, <4>5
    <3> QED
      BY <2>5, <3>1, <3>2
  <2>8. D # {}
    BY <2>5
  <2> QED
    BY <1>1, <1>2, <1>5, <1>6, <2>1, <2>7, <2>8 DEF IrqInv, D, Contexts
<1>8. CASE m \notin S
  <2>1. irq' = irq /\ \A l \in AllMutexes : l \in S => mutex'[l].old = mutex[l].old
    <3>1. CASE m \in OfType("TASK_LOCK")
      BY <3>1, LockKinds
    <3>2. CASE m \in Owned
      <4>1. mutex' = [mutex EXCEPT ![m].owner = cpu, ![m].count = mutex[m].count + 1]
            /\ irq' = irq
        BY <3>2, LockKinds
      <4> QED
        BY <1>4, <1>8, <4>1
    <3> QED
      BY <1>8, <3>1, <3>2, LockKinds
  <2>2. Critical(cpu)' = Critical(cpu)
    BY <1>2, <1>8
  <2>3. \A i \in Critical(cpu) : held'[cpu][i] = q[i] /\ mutex'[q[i]].old = mutex[q[i]].old
    BY <1>2, <1>3, <2>1
  <2> HIDE DEF S, q, n
  <2>4. \A i \in Critical(cpu) :
           /\ mutex'[held'[cpu][i]].old <=> \A j \in Critical(cpu) : j >= i
           /\ arch = "stm32" => mutex'[held'[cpu][i]].old
           /\ \A j \in Critical(cpu) : held'[cpu][i] = held'[cpu][j] => i = j
    BY <1>5, <2>3
  <2> QED
    BY <1>1, <1>2, <1>5, <1>6, <2>1, <2>2, <2>4 DEF IrqInv, Contexts
<1> QED
  BY <1>7, <1>8

LEMMA IrqUnlocks ==
  ASSUME MutexesAssumption, MutexTypes, IrqInv, Unlock
  PROVE  IrqInv'
<1> DEFINE S == OfType("CRITICAL_SECTION")
           q == held[cpu]
           n == Len(held[cpu])
<1>1. PICK m \in AllMutexes : m = held[cpu][Len(held[cpu])]
  BY UnlockHeld
<1>2. UNCHANGED <<arch, cpu, below>> /\ S' = S
  BY <1>1, UnlockKinds, TypesKept
<1>3. /\ Critical(cpu)' = Critical(cpu) \ {n}
      /\ \A c \in Contexts \ {cpu} : held'[c] = held[c] /\ Critical(c)' = Critical(c)
      /\ \A i \in 1 .. n - 1 : held'[cpu][i] = q[i]
      /\ cpu \in Contexts /\ n \in Nat \ {0} /\ q \in Seq(AllMutexes) /\ q # <<>>
  <2> HIDE DEF S
  <2>1. /\ At(held'[cpu], S) = At(q, S) \ {n}
        /\ \A c \in Contexts \ {cpu} : held'[c] = held[c]
        /\ \A i \in 1 .. n - 1 : held'[cpu][i] = q[i]
        /\ cpu \in Contexts /\ q \in Seq(AllMutexes) /\ n \in Nat \ {0}
    BY UnlockHeld
  <2>2. \A c : Critical(c) = At(held[c], S)
    BY DEF Critical, S
  <2>3. \A c \in Contexts : Critical(c)' = At(held'[c], S)
    BY <1>2 DEF Critical, S
  <2>4. Critical(cpu)' = At(held'[cpu], S)
    BY <1>2 DEF Critical, S
  <2>5. q # <<>>
    BY DEF Unlock
  <2> QED
    BY <2>1, <2>2, <2>3, <2>4, <2>5
<1>4. /\ Critical(cpu) \subseteq 1 .. n /\ \A i \in Critical(cpu) : q[i] \in AllMutexes /\ q[i] \in S
      /\ n \in Critical(cpu) <=> m \in S
  <2>1. DOMAIN q = 1 .. n /\ n \in 1 .. n
    BY <1>3
  <2>2. Critical(cpu) \subseteq 1 .. n
    BY <1>3, AtFinite DEF Critical
  <2>3. \A i \in Critical(cpu) : q[i] \in S /\ q[i] \in AllMutexes
    BY DEF Critical, At, OfType
  <2>4. n \in Critical(cpu) <=> m \in S
    BY <1>1, <2>1 DEF Critical, At
  <2> QED
    BY <2>2, <2>3, <2>4
<1>5. /\ irq <=> Critical(cpu) = {}
      /\ \A c \in Contexts \ {cpu} : Critical(c) = {}
      /\ \A i \in Critical(cpu) :
           /\ mutex[q[i]].old <=> \A j \in Critical(cpu) : j >= i
           /\ arch = "stm32" => mutex[q[i]].old
           /\ \A j \in Critical(cpu) : q[i] = q[j] => i = j
      /\ held["isr"] # <<>> => cpu = "isr"
  BY DEF IrqInv
<1>6. held'["isr"] # <<>> => cpu = "isr"
  BY <1>3, <1>5 DEF Contexts
<1>7. \A l \in AllMutexes : l \in S => mutex'[l].old = mutex[l].old
  <2>1. CASE m \in Owned
    <3>1. mutex' = [mutex EXCEPT ![m].count = mutex[m].count - 1]
      BY <1>1, <2>1, UnlockKinds
    <3>2. m \notin S
      BY <2>1, TypesKept
    <3>3. mutex \in [AllMutexes -> [owner : Tasks, count : Int, old : BOOLEAN]]
      BY DEF MutexTypes
    <3> QED
      BY <3>1, <3>2, <3>3
  <2>2. CASE m \notin Owned
    BY <1>1, <2>2, UnlockKinds
  <2> QED
    BY <2>1, <2>2
<1>8. \A i \in Critical(cpu) \ {n} : /\ held'[cpu][i] = q[i]
                                     /\ mutex'[q[i]].old = mutex[q[i]].old
  <2>1. \A i \in 1 .. n : i # n => i \in 1 .. n - 1
    BY <1>3
  <2> QED
    BY <1>3, <1>4, <1>7, <2>1
<1>9. \A i \in Critical(cpu) \ {n} :
        /\ mutex'[held'[cpu][i]].old <=> \A j \in Critical(cpu) \ {n} : j >= i
        /\ arch = "stm32" => mutex'[held'[cpu][i]].old
        /\ \A j \in Critical(cpu) \ {n} : held'[cpu][i] = held'[cpu][j] => i = j
  <2>1. SUFFICES ASSUME NEW i \in Critical(cpu) \ {n}
                 PROVE  /\ mutex'[held'[cpu][i]].old <=> \A j \in Critical(cpu) \ {n} : j >= i
                        /\ arch = "stm32" => mutex'[held'[cpu][i]].old
                        /\ \A j \in Critical(cpu) \ {n} : held'[cpu][i] = held'[cpu][j] => i = j
    OBVIOUS
  <2>2. (\A j \in Critical(cpu) : j >= i) <=> (\A j \in Critical(cpu) \ {n} : j >= i)
    BY <1>3, <1>4
  <2>3. mutex[q[i]].old <=> \A j \in Critical(cpu) : j >= i
    BY <1>5
  <2>4. mutex'[held'[cpu][i]].old = mutex[q[i]].old
    BY <1>8
  <2>5. arch = "stm32" => mutex'[held'[cpu][i]].old
    BY <1>5, <2>4
  <2>6. \A j \in Critical(cpu) \ {n} : held'[cpu][i] = held'[cpu][j] => i = j
    BY <1>5, <1>8
  <2> QED
    BY <2>2, <2>3, <2>4, <2>5, <2>6
<1>10. irq' <=> Critical(cpu) \ {n} = {}
  <2>1. CASE m \in S
    <3>1. irq' = arch_restore_irq(mutex[m].old)
      BY <1>1, <2>1, UnlockKinds
    <3>2. n \in Critical(cpu) /\ q[n] = m
      BY <1>1, <1>4, <2>1
    <3>3. mutex[m].old <=> \A j \in Critical(cpu) : j >= n
      BY <1>5, <3>2
    <3>4. (\A j \in Critical(cpu) : j >= n) <=> Critical(cpu) \ {n} = {}
      BY <1>3, <1>4
    <3>5. CASE arch = "stm32"
      <4>1. irq' = TRUE
        BY <3>1, <3>5 DEF arch_restore_irq
      <4>2. mutex[m].old
        BY <1>5, <3>2, <3>5
      <4> QED
        BY <3>3, <3>4, <4>1, <4>2
    <3>6. CASE arch # "stm32"
      <4>1. irq' = mutex[m].old
        BY <3>1, <3>6 DEF arch_restore_irq
      <4> QED
        BY <3>3, <3>4, <4>1
    <3> QED
      BY <3>5, <3>6
  <2>2. CASE m \notin S
    <3>1. irq' = irq
      BY <1>1, <2>2, UnlockKinds
    <3>2. n \notin Critical(cpu)
      BY <1>4, <2>2
    <3> QED
      BY <1>5, <3>1, <3>2
  <2> QED
    BY <2>1, <2>2
<1> QED
  BY <1>2, <1>3, <1>5, <1>6, <1>9, <1>10 DEF IrqInv, Contexts

-----------------------------------------------------------------------------
\* The core changes hands.
LEMMA CoreMoves ==
  ASSUME MutexesAssumption, MutexInv, UNCHANGED <<arch, suspended, irq, mutex, held>>, irq,
         cpu = "isr" => held["isr"] = <<>>, cpu' \in Contexts, below' \in Tasks,
         Current' = Current \/ suspended = 0
  PROVE  MutexInv'
<1>1. /\ OfType("TASK_LOCK")' = OfType("TASK_LOCK") /\ Owned' = Owned
      /\ OfType("CRITICAL_SECTION")' = OfType("CRITICAL_SECTION")
  BY TypesKept
<1>2. MutexTypes'
  BY DEF MutexInv, MutexTypes, Contexts, AllMutexes
<1>3. OwnedInv'
  BY <1>1 DEF MutexInv, OwnedInv, Contexts
<1>4. Current \in Contexts /\ Current' \in Contexts
  <2>1. cpu \in Contexts /\ below \in Tasks
    BY DEF MutexInv, MutexTypes
  <2> QED
    BY <2>1 DEF Current, Contexts
<1>5. TaskInv'
  <2> DEFINE S == OfType("TASK_LOCK")
  <2>1. suspended = Num(held[Current], S) /\ \A c \in Contexts \ {Current} : At(held[c], S) = {}
    BY DEF MutexInv, TaskInv
  <2>2. \A c \in Contexts : held[c] \in Seq(AllMutexes)
    BY DEF MutexInv, MutexTypes
  <2> HIDE DEF S
  <2>3. suspended = Num(held[Current'], S) /\ \A c \in Contexts \ {Current'} : At(held[c], S) = {}
    <3>1. CASE Current' = Current
      BY <2>1, <3>1
    <3>2. CASE suspended = 0
      <4>1. At(held[Current], S) = {}
        BY <1>4, <2>1, <2>2, <3>2, NumNone
      <4>2. \A c \in Contexts : At(held[c], S) = {}
        BY <2>1, <4>1
      <4>3. Num(held[Current'], S) = 0
        BY <1>4, <2>2, <4>2, NumNone
      <4> QED
        BY <3>2, <4>2, <4>3
    <3> QED
      BY <3>1, <3>2
  <2> QED
    BY <1>1, <2>3 DEF TaskInv, S, Contexts
<1>6. IrqInv'
  <2>1. \A c \in Contexts : Critical(c) = {}
    BY DEF MutexInv, IrqInv
  <2>2. \A c \in Contexts : At(held[c], OfType("CRITICAL_SECTION")) = {}
    BY <2>1 DEF Critical
  <2>3. held["isr"] = <<>>
    BY DEF MutexInv, IrqInv
  <2>4. \A c \in Contexts : Critical(c)' = {}
    BY <1>1, <2>2 DEF Critical
  <2>5. Critical(cpu)' = {}
    BY <1>1, <2>2 DEF Critical
  <2> QED
    BY <2>3, <2>4, <2>5 DEF IrqInv, Contexts
<1> QED
  BY <1>2, <1>3, <1>5, <1>6 DEF MutexInv

LEMMA MutexStep == MutexesAssumption /\ MutexInv /\ [MutexNext]_mutexVars => MutexInv'
<1> SUFFICES ASSUME MutexesAssumption, MutexInv, [MutexNext]_mutexVars PROVE MutexInv'
  OBVIOUS
<1>1. ASSUME NEW m \in AllMutexes, Lock(m) PROVE MutexInv'
  BY <1>1, TypesLock, TaskLocks, OwnedLocks, IrqLocks DEF MutexInv
<1>2. CASE Unlock
  BY <1>2, TypesUnlock, TaskUnlocks, OwnedUnlocks, IrqUnlocks DEF MutexInv
<1>3. ASSUME NEW t \in Tasks, Switch(t) PROVE MutexInv'
  <2>1. cpu' \in Contexts /\ below' \in Tasks /\ suspended = 0 /\ irq /\ cpu # "isr"
        /\ UNCHANGED <<arch, suspended, irq, mutex, held>>
    BY <1>3 DEF Switch, Contexts, MutexInv, MutexTypes
  <2> QED
    BY <2>1, CoreMoves
<1>4. CASE InterruptBegin
  <2>1. cpu' = "isr" /\ cpu # "isr" /\ below' = cpu /\ irq /\ cpu \in Contexts
        /\ UNCHANGED <<arch, suspended, irq, mutex, held>>
    BY <1>4 DEF InterruptBegin, MutexInv, MutexTypes
  <2>2. Current' = Current /\ cpu' \in Contexts /\ below' \in Tasks
    BY <2>1 DEF Current, Contexts
  <2> QED
    BY <2>1, <2>2, CoreMoves
<1>5. CASE InterruptEnd
  <2>1. cpu = "isr" /\ held["isr"] = <<>> /\ below' = below /\ below \in Tasks
        /\ UNCHANGED <<arch, suspended, irq, mutex, held>>
    BY <1>5 DEF InterruptEnd, MutexInv, MutexTypes
  <2>2. cpu' \in Tasks /\ (suspended = 0 \/ cpu' = below)
    BY <1>5, <2>1 DEF InterruptEnd
  <2>3. Current' = Current \/ suspended = 0
    BY <2>1, <2>2 DEF Current, MutexesAssumption
  <2>4. irq
    <3>1. Critical(cpu) = {}
      BY <2>1 DEF Critical, At
    <3> QED
      BY <3>1 DEF MutexInv, IrqInv
  <2> QED
    BY <2>1, <2>2, <2>3, <2>4, CoreMoves DEF Contexts
<1>6. CASE UNCHANGED mutexVars
  <2>1. UNCHANGED <<arch, cpu, below, suspended, irq, mutex, held>>
    BY <1>6 DEF mutexVars
  <2>2. /\ OfType("TASK_LOCK")' = OfType("TASK_LOCK") /\ Owned' = Owned
        /\ OfType("CRITICAL_SECTION")' = OfType("CRITICAL_SECTION")
    BY <2>1, TypesKept
  <2>3. MutexTypes' /\ OwnedInv'
    BY <2>1, <2>2 DEF MutexInv, MutexTypes, OwnedInv, AllMutexes, Contexts
  <2>4. TaskInv'
    BY <2>1, <2>2 DEF MutexInv, TaskInv, Current, Contexts
  <2>5. IrqInv'
    <3>1. \A c \in Contexts : Critical(c)' = Critical(c)
      BY <2>1, <2>2 DEF Critical
    <3>2. cpu \in Contexts
      BY DEF MutexInv, MutexTypes
    <3> QED
      BY <2>1, <3>1, <3>2 DEF MutexInv, IrqInv
  <2> QED
    BY <2>3, <2>4, <2>5 DEF MutexInv
<1> QED
  BY <1>1, <1>2, <1>3, <1>4, <1>5, <1>6 DEF MutexNext, AllMutexes

LEMMA InvExcludes == MutexesAssumption /\ MutexInv => MutexExcludes
<1> SUFFICES ASSUME MutexesAssumption, MutexInv PROVE MutexExcludes
  OBVIOUS
<1>1. \A c \in Contexts : held[c] \in Seq(AllMutexes)
  BY DEF MutexInv, MutexTypes
<1>2. ASSUME NEW c \in Contexts, NEW m \in AllMutexes, Holds(c, m), NEW S, m \in S
      PROVE  At(held[c], S) # {}
  BY <1>2 DEF Holds, At
<1>3. ASSUME NEW m \in AllMutexes, NEW c \in Contexts, Holds(c, m)
      PROVE  /\ \A d \in Contexts \ {c} : ~Holds(d, m)
             /\ Type(m) = "TASK_LOCK" => cpu \in {c, "isr"}
             /\ Type(m) = "CRITICAL_SECTION" => cpu = c
  <2>1. CASE Type(m) = "TASK_LOCK"
    <3>1. m \in OfType("TASK_LOCK")
      BY <2>1 DEF OfType
    <3>2. \A d \in Contexts : Holds(d, m) => d = Current
      BY <1>2, <3>1 DEF MutexInv, TaskInv
    <3> QED
      BY <1>3, <2>1, <3>2 DEF Current
  <2>2. CASE Type(m) = "CRITICAL_SECTION"
    <3>1. m \in OfType("CRITICAL_SECTION")
      BY <2>2 DEF OfType
    <3>2. \A d \in Contexts : Holds(d, m) => d = cpu
      BY <1>2, <3>1 DEF MutexInv, IrqInv, Critical
    <3> QED
      BY <1>3, <2>2, <3>2
  <2>3. CASE Type(m) \in {"SYSTEM", "RECURSIVE"}
    <3>1. m \in Owned
      BY <2>3 DEF Owned, OfType
    <3>2. PICK S : S = {m}
      OBVIOUS
    <3>3. \A d \in Contexts \ {mutex[m].owner} : At(held[d], S) = {}
      BY <3>1, <3>2 DEF MutexInv, OwnedInv
    <3>4. \A d \in Contexts : Holds(d, m) => d = mutex[m].owner
      BY <1>2, <3>2, <3>3
    <3> QED
      BY <1>3, <2>3, <3>4
  <2> QED
    BY <2>1, <2>2, <2>3, TypesDiffer DEF Kinds
<1>4. ASSUME \A c \in Contexts : held[c] = <<>> PROVE suspended = 0 /\ irq
  <2>1. Current \in Contexts /\ cpu \in Contexts
    BY DEF MutexInv, MutexTypes, Current, Contexts
  <2>2. \A c \in Contexts : \A S : At(held[c], S) = {}
    BY <1>4 DEF At
  <2>3. Num(held[Current], OfType("TASK_LOCK")) = 0
    BY <1>1, <2>1, <2>2, NumNone
  <2>4. Critical(cpu) = {}
    BY <2>1, <2>2 DEF Critical
  <2> QED
    BY <2>3, <2>4 DEF MutexInv, TaskInv, IrqInv
<1> QED
  BY <1>3, <1>4 DEF MutexExcludes, AllMutexes

\* A mutex of every type keeps out those it has to, however the locks are nested
\* and wherever tasks are switched or interrupted: one context holds it, nothing
\* runs within a critical section, and when all is released the scheduler and the
\* interrupts are on (src/stm32/hal.cpp:15, src/freertos/mutex.cpp), on every
\* architecture, for any tasks and mutexes.
THEOREM Excludes ==
  ASSUME MutexesAssumption
  PROVE  MutexSpec => []MutexExcludes
<1>1. MutexInit => MutexInv
  BY MutexStart
<1>2. MutexInv /\ [MutexNext]_mutexVars => MutexInv'
  BY MutexStep
<1>3. MutexInv => MutexExcludes
  BY InvExcludes
<1> QED
  BY <1>1, <1>2, <1>3, PTL DEF MutexSpec

-----------------------------------------------------------------------------
(* The pins.  That they are owned is inductive as it stands.               *)

LEMMA ClaimKeeps ==
  ASSUME PinsAreOwned, ~halted, NEW kind, NEW pins, Claim(kind, pins)
  PROVE  PinsAreOwned'
<1> DEFINE new == [kind |-> kind, pins |-> ToSet(pins)]
           free == IsInjective(pins) /\ ToSet(pins) \cap used = {}
<1>1. /\ halted' = ~free /\ used' = used \cup ToSet(pins)
      /\ owners' = IF free THEN owners \cup {new} ELSE owners
  BY DEF Claim, Checked
<1>2. SUFFICES ASSUME free PROVE PinsAreOwned'
  BY <1>1 DEF PinsAreOwned
<1>3. used = UNION {o.pins : o \in owners} /\ \A o, p \in owners : o # p => o.pins \cap p.pins = {}
  BY DEF PinsAreOwned
<1>4. new.pins = ToSet(pins) /\ owners' = owners \cup {new} /\ ToSet(pins) \cap used = {}
  BY <1>1, <1>2
<1> HIDE DEF new, free
<1>5. used' = UNION {o.pins : o \in owners'}
  BY <1>1, <1>3, <1>4
<1>6. \A o \in owners : o.pins \cap new.pins = {}
  BY <1>3, <1>4
<1>7. \A o, p \in owners' : o # p => o.pins \cap p.pins = {}
  BY <1>3, <1>4, <1>6
<1> QED
  BY <1>5, <1>7 DEF PinsAreOwned

LEMMA ClaimsKeeps ==
  ASSUME PinsAreOwned, NEW kind, NEW pins, Claims(kind, pins)
  PROVE  PinsAreOwned'
  BY ClaimKeeps DEF Claims, Task

LEMMA ConstructorsKeep ==
  ASSUME PinsAreOwned, Constructors
  PROVE  PinsAreOwned'
<1>1. CASE EspUart
  BY <1>1, ClaimsKeeps DEF EspUart
<1>2. CASE EspI2c
  BY <1>2, ClaimsKeeps DEF EspI2c
<1>3. CASE EspPwm
  BY <1>3, ClaimsKeeps DEF EspPwm
<1>4. CASE EspGpio
  BY <1>4, ClaimsKeeps DEF EspGpio
<1>5. CASE ArmI2s
  BY <1>5, ClaimsKeeps DEF ArmI2s
<1>6. CASE ArmDac
  BY <1>6, ClaimsKeeps DEF ArmDac
<1>7. CASE ArmTimer
  <2>1. PICK pins : Claims("timer", pins)
    BY <1>7 DEF ArmTimer, Alloc
  <2> QED
    BY <2>1, ClaimsKeeps
<1>8. CASE TimerInit
  <2>1. PICK pins : Claims("events", pins)
    BY <1>8 DEF TimerInit, Alloc
  <2> QED
    BY <2>1, ClaimsKeeps
<1>9. CASE ArmGpio
  <2>1. ~halted /\ \E p \in ArmPins : Claim("gpio", <<p>>)
    BY <1>9 DEF ArmGpio, Task
  <2> QED
    BY <2>1, ClaimKeeps
<1> QED
  BY <1>1, <1>2, <1>3, <1>4, <1>5, <1>6, <1>7, <1>8, <1>9 DEF Constructors

LEMMA DeleteKeeps ==
  ASSUME PinsAreOwned, NEW o \in owners, Delete(o)
  PROVE  PinsAreOwned'
<1> DEFINE gone == IF o.kind = "uart" THEN {[kind |-> "uart gone", pins |-> {}]} ELSE {}
<1>1. ~halted /\ used' = used \ o.pins /\ owners' = (owners \ {o}) \cup gone
  BY DEF Delete, Task
<1>2. \A g \in gone : g.pins = {}
  <2>1. gone \subseteq {[kind |-> "uart gone", pins |-> {}]}
    OBVIOUS
  <2>2. [kind |-> "uart gone", pins |-> {}].pins = {}
    OBVIOUS
  <2> HIDE DEF gone
  <2> QED
    BY <2>1, <2>2
<1> HIDE DEF gone
<1>3. used = UNION {p.pins : p \in owners} /\ \A p, q \in owners : p # q => p.pins \cap q.pins = {}
  BY <1>1 DEF PinsAreOwned
<1>4. used' = UNION {p.pins : p \in owners'}
  BY <1>1, <1>2, <1>3
<1>5. \A p, q \in owners' : p # q => p.pins \cap q.pins = {}
  BY <1>1, <1>2, <1>3
<1> QED
  BY <1>4, <1>5 DEF PinsAreOwned

\* No pin and no timer has two owners, and exactly those with an owner are marked,
\* whatever is constructed and deleted in whatever order (src/esp32/gpio.cpp:25,
\* src/stm32/gpio.cpp, timer.cpp); else an assertion has stopped the program.
THEOREM PinsOwned == PinsSpec => []PinsAreOwned
<1>1. PinsInit => PinsAreOwned
  BY DEF PinsInit, PinsAreOwned
<1>2. PinsAreOwned /\ [PinsNext]_pinVars => PinsAreOwned'
  <2> SUFFICES ASSUME PinsAreOwned, [PinsNext]_pinVars PROVE PinsAreOwned'
    OBVIOUS
  <2>1. CASE Constructors
    BY <2>1, ConstructorsKeep
  <2>2. ASSUME NEW o \in owners, Delete(o) PROVE PinsAreOwned'
    BY <2>2, DeleteKeeps
  <2>3. ASSUME ~halted, UNCHANGED <<used, owners>> PROVE PinsAreOwned'
    BY <2>3 DEF PinsAreOwned
  <2>4. CASE ArmTable \/ SetFunction \/ SetArgument
    BY <2>3, <2>4 DEF ArmTable, SetFunction, SetArgument, Task
  <2>5. CASE Edge \/ Interrupt \/ Look \/ Call
    BY <2>3, <2>5 DEF Edge, Interrupt, Look, Call
  <2>6. CASE UNCHANGED pinVars
    BY <2>6 DEF pinVars, PinsAreOwned
  <2> QED
    BY <2>1, <2>2, <2>4, <2>5, <2>6 DEF PinsNext
<1> QED
  BY <1>1, <1>2, PTL DEF PinsSpec

-----------------------------------------------------------------------------
(* The edges.  An ESP32 pin that loses its handler has its flag cleared    *)
(* only in the second step, and by then no call is owed for it.            *)

EdgesInv ==
  ~halted =>
  /\ NoEdgeIsLost
  /\ isr = [rest |-> isr.rest, calls |-> isr.calls]
  /\ isr.calls = None \/ \E n : isr.calls = <<n>>
  /\ handler = [p \in AllPins |-> handler[p]] /\ table = [n \in Lines |-> table[n]]
  /\ mcu = "esp32" => \A p \in EspPins : table[p] = None \/ table[p] = <<p>>
  /\ mcu = "esp32" /\ todo # None /\ todo[1] = "argument" =>
       /\ todo[2] \in EspPins
       /\ handler[todo[2]] = "half" \/ (handler[todo[2]] = "none" /\ todo[2] \notin pending)

LEMMA CallSets == ToSet(None) = {} /\ \A n : ToSet(<<n>>) = {n}
<1>1. ToSet(None) = {}
  BY DEF None, ToSet
<1>2. ASSUME NEW n PROVE ToSet(<<n>>) = {n}
  <2>1. DOMAIN <<n>> = {1} /\ <<n>>[1] = n
    OBVIOUS
  <2> QED
    BY <2>1 DEF ToSet
<1> QED
  BY <1>1, <1>2

LEMMA EspLines == mcu = "esp32" => AllPins = EspPins /\ Lines = EspPins /\ \A p : Line(p) = p
  BY DEF AllPins, Lines, Line

LEMMA EdgesStart == PinsInit => EdgesInv
<1> SUFFICES ASSUME PinsInit PROVE EdgesInv
  OBVIOUS
<1>1. isr = Idle /\ todo = None /\ pending = {}
  BY DEF PinsInit
<1>2. Idle = [rest |-> Idle.rest, calls |-> Idle.calls] /\ Idle.calls = None
  BY DEF Idle
<1>3. \A n \in Lines : table[n] = None
  BY DEF PinsInit
<1>4. handler = [p \in AllPins |-> handler[p]] /\ table = [n \in Lines |-> table[n]]
  BY DEF PinsInit
<1> QED
  BY <1>1, <1>2, <1>3, <1>4, EspLines DEF EdgesInv, NoEdgeIsLost

\* Lines and pins are those of the microcontroller.
LEMMA PinsKept == mcu' = mcu => AllPins' = AllPins /\ Lines' = Lines
  BY DEF AllPins, Lines, Line

LEMMA SetFunctionOk == EdgesInv /\ SetFunction => EdgesInv'
<1> SUFFICES ASSUME EdgesInv, SetFunction PROVE EdgesInv'
  OBVIOUS
<1>1. PICK p \in Gpios, on \in BOOLEAN :
        /\ handler' = [handler EXCEPT ![p] = IF on THEN "half" ELSE "none"]
        /\ pending' = IF on THEN pending ELSE pending \ {Line(p)}
        /\ todo' = <<"argument", p>>
  BY DEF SetFunction
<1>2. UNCHANGED <<mcu, halted, table, flags, isr>> /\ ~halted /\ todo' # None
  BY <1>1 DEF SetFunction, Task, None
<1>3. AllPins' = AllPins /\ Lines' = Lines
  BY <1>2, PinsKept
<1>4. p \in AllPins /\ todo'[2] = p
  BY <1>1 DEF Gpios
<1>5. NoEdgeIsLost'
  BY <1>1, <1>2 DEF EdgesInv, NoEdgeIsLost
<1>6. handler' = [q \in AllPins |-> handler'[q]] /\ handler'[p] = IF on THEN "half" ELSE "none"
  BY <1>1, <1>2, <1>4 DEF EdgesInv
<1>7. mcu = "esp32" => p \in EspPins /\ (handler'[p] = "half" \/ (handler'[p] = "none" /\ p \notin pending'))
  BY <1>1, <1>4, <1>6, EspLines
<1> QED
  BY <1>2, <1>3, <1>4, <1>5, <1>6, <1>7 DEF EdgesInv

LEMMA SetArgumentOk == EdgesInv /\ SetArgument => EdgesInv'
<1> SUFFICES ASSUME EdgesInv, SetArgument PROVE EdgesInv'
  OBVIOUS
<1> DEFINE p == todo[2]
           on == handler[p] = "half"
<1>1. /\ UNCHANGED <<mcu, halted, isr, pending>> /\ ~halted /\ isr = Idle /\ todo' = None
      /\ todo # None /\ todo[1] = "argument"
      /\ handler' = [handler EXCEPT ![p] = IF on THEN "set" ELSE "none"]
      /\ mcu # "esp32" => UNCHANGED <<table, flags>>
      /\ mcu = "esp32" => /\ table' = [table EXCEPT ![p] = IF on THEN <<p>> ELSE None]
                          /\ flags' = IF on THEN flags ELSE flags \ {p}
  BY DEF SetArgument
<1>2. AllPins' = AllPins /\ Lines' = Lines
  BY <1>1, PinsKept
<1>3. pending \subseteq flags
  <2>1. ToSet(isr.calls) = {}
    BY <1>1, CallSets DEF Idle
  <2> QED
    BY <1>1, <2>1 DEF EdgesInv, NoEdgeIsLost
<1>4. mcu = "esp32" => p \in EspPins /\ (on \/ p \notin pending)
  BY <1>1 DEF EdgesInv
<1> HIDE DEF p, on
<1>5. NoEdgeIsLost'
  <2>1. pending \subseteq flags'
    BY <1>1, <1>3, <1>4
  <2> QED
    BY <1>1, <2>1 DEF NoEdgeIsLost
<1>6. handler' = [q \in AllPins |-> handler'[q]] /\ table' = [n \in Lines |-> table'[n]]
  BY <1>1 DEF EdgesInv
<1>7. mcu = "esp32" => \A q \in EspPins : table'[q] = None \/ table'[q] = <<q>>
  <2>1. SUFFICES ASSUME mcu = "esp32", NEW q \in EspPins
                 PROVE  table'[q] = None \/ table'[q] = <<q>>
    OBVIOUS
  <2>2. q \in Lines /\ table = [n \in Lines |-> table[n]]
    BY <1>1, <2>1, EspLines DEF EdgesInv
  <2>3. CASE q = p
    BY <1>1, <2>1, <2>2, <2>3
  <2>4. CASE q # p
    <3>1. table'[q] = table[q]
      BY <1>1, <2>1, <2>2, <2>4
    <3> QED
      BY <1>1, <2>1, <3>1 DEF EdgesInv
  <2> QED
    BY <2>3, <2>4
<1> QED
  BY <1>1, <1>2, <1>5, <1>6, <1>7 DEF EdgesInv

LEMMA ArmTableOk == EdgesInv /\ ArmTable => EdgesInv'
<1> SUFFICES ASSUME EdgesInv, ArmTable, ~halted' PROVE EdgesInv'
  BY DEF EdgesInv
<1>1. /\ UNCHANGED <<mcu, handler, flags, isr, pending>> /\ ~halted /\ todo' = None
      /\ \E l : table' = table \/ (table' = [table EXCEPT ![l] = <<todo[2]>>] /\ l = Line(todo[2]))
  BY DEF ArmTable
<1>2. AllPins' = AllPins /\ Lines' = Lines
  BY <1>1, PinsKept
<1>3. NoEdgeIsLost'
  BY <1>1 DEF EdgesInv, NoEdgeIsLost
<1>4. table' = [n \in Lines |-> table'[n]]
  BY <1>1 DEF EdgesInv
<1>5. mcu = "esp32" => \A q \in EspPins : table'[q] = None \/ table'[q] = <<q>>
  <2>1. SUFFICES ASSUME mcu = "esp32", NEW q \in EspPins
                 PROVE  table'[q] = None \/ table'[q] = <<q>>
    OBVIOUS
  <2>2. q \in Lines /\ Line(todo[2]) = todo[2] /\ table = [n \in Lines |-> table[n]]
        /\ (table[q] = None \/ table[q] = <<q>>)
    BY <1>1, <2>1, EspLines DEF EdgesInv
  <2> QED
    BY <1>1, <2>2
<1> QED
  BY <1>1, <1>2, <1>3, <1>4, <1>5 DEF EdgesInv

LEMMA EdgeOk == EdgesInv /\ Edge => EdgesInv'
<1> SUFFICES ASSUME EdgesInv, Edge PROVE EdgesInv'
  OBVIOUS
<1>1. PICK n \in armed :
        /\ flags' = flags \cup {n}
        /\ pending' = IF Called(n) THEN pending \cup {n} ELSE pending
  BY DEF Edge
<1>2. UNCHANGED <<mcu, halted, handler, table, isr, todo>> /\ ~halted
  BY DEF Edge
<1>3. AllPins' = AllPins /\ Lines' = Lines
  BY <1>2, PinsKept
<1>4. NoEdgeIsLost'
  BY <1>1, <1>2 DEF EdgesInv, NoEdgeIsLost
<1>5. ASSUME mcu = "esp32", todo # None, todo[1] = "argument", handler[todo[2]] = "none"
      PROVE  todo[2] \notin pending'
  <2>1. todo[2] \in EspPins /\ todo[2] \notin pending
    BY <1>2, <1>5 DEF EdgesInv
  <2>2. table[todo[2]] = None \/ table[todo[2]] = <<todo[2]>>
    BY <1>2, <1>5, <2>1 DEF EdgesInv
  <2>3. ~Called(todo[2])
    BY <1>5, <2>2 DEF Called
  <2> QED
    BY <1>1, <2>1, <2>3
<1> QED
  BY <1>2, <1>3, <1>4, <1>5 DEF EdgesInv

LEMMA HandlerOk == EdgesInv /\ (Interrupt \/ Look \/ Call) => EdgesInv'
<1> SUFFICES ASSUME EdgesInv, Interrupt \/ Look \/ Call, ~halted' PROVE EdgesInv'
  BY DEF EdgesInv
<1>1. UNCHANGED <<mcu, handler, table, todo>> /\ ~halted /\ pending' \subseteq pending
  BY DEF Interrupt, Look, Call
<1>2. AllPins' = AllPins /\ Lines' = Lines
  BY <1>1, PinsKept
<1>3. /\ pending \subseteq flags \cup ToSet(isr.calls)
      /\ isr = [rest |-> isr.rest, calls |-> isr.calls]
      /\ isr.calls = None \/ \E n : isr.calls = <<n>>
  BY <1>1 DEF EdgesInv, NoEdgeIsLost
<1>4. /\ pending' \subseteq flags' \cup ToSet(isr'.calls)
      /\ isr' = [rest |-> isr'.rest, calls |-> isr'.calls]
      /\ isr'.calls = None \/ \E n : isr'.calls = <<n>>
  <2>1. CASE Interrupt
    <3>1. isr.calls = None /\ isr'.calls = None /\ isr' = [rest |-> isr'.rest, calls |-> isr'.calls]
          /\ UNCHANGED <<pending, flags>>
      BY <2>1 DEF Interrupt, Idle
    <3> QED
      BY <1>3, <3>1
  <2>2. CASE Look
    <3>1. isr.calls = None /\ pending' = pending /\ pending \subseteq flags
      BY <1>3, <2>2, CallSets DEF Look
    <3>2. CASE Head(isr.rest) \in flags
      <4>1. PICK n : n = Head(isr.rest)
        OBVIOUS
      <4>2. flags' = flags \ {n} /\ isr' = [isr EXCEPT !.calls = <<n>>]
        BY <2>2, <3>2, <4>1 DEF Look
      <4>3. isr' = [rest |-> isr'.rest, calls |-> isr'.calls] /\ isr'.calls = <<n>>
        BY <1>3, <4>2
      <4>4. ToSet(isr'.calls) = {n}
        BY <4>3, CallSets
      <4> QED
        BY <3>1, <4>2, <4>3, <4>4
    <3>3. CASE Head(isr.rest) \notin flags
      <4>1. flags' = flags /\ isr' = [isr EXCEPT !.rest = Tail(isr.rest)]
        BY <2>2, <3>3 DEF Look
      <4>2. isr' = [rest |-> isr'.rest, calls |-> isr'.calls] /\ isr'.calls = None
        BY <1>3, <3>1, <4>1
      <4> QED
        BY <3>1, <4>1, <4>2
    <3> QED
      BY <3>2, <3>3
  <2>3. CASE Call
    <3>1. PICK n : isr.calls = <<n>>
      BY <1>3, <2>3 DEF Call
    <3>2. pending' = pending \ {n} /\ flags' = flags /\ isr' = [rest |-> Tail(isr.rest), calls |-> None]
      BY <2>3, <3>1 DEF Call
    <3>3. ToSet(isr.calls) = {n}
      BY <3>1, CallSets
    <3> QED
      BY <1>3, <3>2, <3>3
  <2> QED
    BY <2>1, <2>2, <2>3
<1> QED
  BY <1>1, <1>2, <1>3, <1>4 DEF EdgesInv, NoEdgeIsLost

\* An edge at a pin with a handler is not lost, also when it comes while the
\* handler that the pin shares with others is running, or is set or taken away
\* meanwhile: its flag is set until the handler's next act is the call
\* (src/stm32/gpio.cpp:320, src/esp32/gpio.cpp), for any pins.
THEOREM EdgesKept == PinsSpec => []NoEdgeIsLost
<1>1. EdgesInv /\ [PinsNext]_pinVars => EdgesInv'
  <2> SUFFICES ASSUME EdgesInv, [PinsNext]_pinVars PROVE EdgesInv'
    OBVIOUS
  <2>1. ASSUME UNCHANGED <<mcu, handler, table, flags, isr, pending, todo>>, ~halted PROVE EdgesInv'
    BY <2>1, PinsKept DEF EdgesInv, NoEdgeIsLost
  <2>2. ASSUME NEW kind, NEW pins, Claims(kind, pins) PROVE EdgesInv'
    BY <2>1, <2>2 DEF Claims, Task, irqVars
  <2>3. CASE EspGpio \/ EspUart \/ EspI2c \/ EspPwm
    BY <2>2, <2>3 DEF EspGpio, EspUart, EspI2c, EspPwm
  <2>4. CASE ArmI2s \/ ArmDac
    BY <2>2, <2>4 DEF ArmI2s, ArmDac
  <2>5. CASE ArmTimer \/ TimerInit
    <3>1. PICK kind, pins : Claims(kind, pins)
      BY <2>5 DEF ArmTimer, TimerInit, Alloc
    <3> QED
      BY <2>2, <3>1
  <2>6. CASE mcu # "esp32" /\ ArmGpio
    <3>1. UNCHANGED <<mcu, handler, table, flags, isr, pending>> /\ ~halted
      BY <2>6 DEF ArmGpio, Task
    <3> QED
      BY <2>6, <3>1, PinsKept DEF EdgesInv, NoEdgeIsLost
  <2>7. CASE ArmTable \/ SetFunction \/ SetArgument
    BY <2>7, ArmTableOk, SetFunctionOk, SetArgumentOk
  <2>8. CASE Edge \/ Interrupt \/ Look \/ Call
    BY <2>8, EdgeOk, HandlerOk
  <2>9. ASSUME NEW o \in owners, Delete(o) PROVE EdgesInv'
    BY <2>1, <2>9 DEF Delete, Task, irqVars
  <2>10. CASE UNCHANGED pinVars
    BY <2>10, PinsKept DEF pinVars, EdgesInv, NoEdgeIsLost
  <2> QED
    BY <2>3, <2>4, <2>5, <2>6, <2>7, <2>8, <2>9, <2>10 DEF PinsNext, Constructors
<1>2. EdgesInv => NoEdgeIsLost
  BY DEF EdgesInv, NoEdgeIsLost
<1> QED
  BY EdgesStart, <1>1, <1>2, PTL DEF PinsSpec

-----------------------------------------------------------------------------
(* The LED strip.  What was sent of a frame is what is in the array, unless *)
(* an LED was set since.                                                    *)

Triples == [1 .. 3 -> Int]

LedTypes ==
  /\ data \in [Leds -> Triples] /\ asked \in [Leds -> Triples] /\ rgb \in [Leds -> Triples]
  /\ task \in Int
  /\ wire \in Seq(Triples) /\ Len(wire) <= nleds + 1

\* What set() wrote, and how far the frame is.
Sending ==
  /\ \A l \in Leds : data[l] = Bits(asked[l])
  /\ sent /\ wire # Still => \A l \in Leds : l + 2 <= Len(wire) => wire[l + 2] = data[l]

LedInv == LedTypes /\ Sending /\ StripShows

LEMMA TripleIs ==
  ASSUME NEW a, NEW b, NEW c
  PROVE  /\ a \in Int /\ b \in Int /\ c \in Int => <<a, b, c>> \in Triples
         /\ \A t \in Triples : t = <<t[1], t[2], t[3]>>
<1>1. a \in Int /\ b \in Int /\ c \in Int => <<a, b, c>> \in Triples
  BY DEF Triples
<1>2. ASSUME NEW t \in Triples PROVE t = <<t[1], t[2], t[3]>>
  BY DEF Triples
<1> QED
  BY <1>1, <1>2

LEMMA ColourIs == ASSUME LedAssumption PROVE Colours \subseteq Triples /\ Unset \in Triples /\ Black \in Triples
<1>1. ASSUME NEW c \in Colours PROVE c \in Triples
  <2>1. c \in (0 .. 255) \X (0 .. 255) \X (0 .. 255)
    BY DEF LedAssumption
  <2>2. c = <<c[1], c[2], c[3]>> /\ c[1] \in 0 .. 255 /\ c[2] \in 0 .. 255 /\ c[3] \in 0 .. 255
    BY <2>1
  <2>3. <<c[1], c[2], c[3]>> \in Triples
    BY <2>2, TripleIs
  <2> QED
    BY <2>2, <2>3
<1>2. Unset \in Triples /\ Black \in Triples
  <2>1. -1 \in Int /\ 0 \in Int
    OBVIOUS
  <2> QED
    BY <2>1, TripleIs DEF Unset, Black
<1> QED
  BY <1>1, <1>2

\* An LED shows the colour that the bits were made of.
LEMMA BitsDecode == ASSUME NEW t \in Triples PROVE Bits(t) \in Triples /\ Decoded(Bits(t)) = t
<1>1. t[1] \in Int /\ t[2] \in Int /\ t[3] \in Int
  BY DEF Triples
<1>2. CASE type = "SK68XX"
  <2>1. Bits(t) = <<t[1], t[2], t[3]>> /\ Decoded(Bits(t)) = Bits(t)
    BY <1>2 DEF Bits, Decoded, Word
  <2> QED
    BY <2>1, TripleIs
<1>3. CASE type # "SK68XX"
  <2>1. Bits(t) = <<t[2], t[1], t[3]>>
    BY <1>3 DEF Bits, Word
  <2>2. Decoded(Bits(t)) = <<t[1], t[2], t[3]>>
    BY <1>3, <2>1 DEF Decoded
  <2> QED
    BY <1>1, <2>1, <2>2, TripleIs
<1> QED
  BY <1>2, <1>3

LEMMA LedStart == ASSUME LedAssumption PROVE LedInit => LedInv
<1> SUFFICES ASSUME LedInit PROVE LedInv
  OBVIOUS
<1>1. /\ data = [l \in Leds |-> Unset] /\ asked = [l \in Leds |-> Unset] /\ rgb = [l \in Leds |-> Unset]
      /\ wire = <<>> /\ task = Resting /\ sent = FALSE
  BY DEF LedInit, Still
<1>2. Bits(Unset) = Unset
  BY DEF Bits, Word, Unset
<1>3. wire \in Seq(Triples) /\ Len(wire) = 0
  BY <1>1
<1>4. Resting \in Int
  BY DEF Resting
<1>5. LedTypes
  BY <1>1, <1>3, <1>4, ColourIs DEF LedTypes, LedAssumption
<1>6. Sending /\ StripShows
  BY <1>1, <1>2 DEF Sending, StripShows
<1> QED
  BY <1>5, <1>6 DEF LedInv

\* Setting LEDs, whatever is being sent.
LEMMA SetKept ==
  ASSUME LedInv, UNCHANGED <<type, wire, shown, rgb>>, ~sent', task' \in Int, asked' \in [Leds -> Triples],
         data' \in [Leds -> Triples], \A l \in Leds : data'[l] = Bits(asked'[l])
  PROVE  LedInv'
<1>1. LedTypes'
  BY DEF LedInv, LedTypes
<1>3. Sending'
  BY DEF Sending, Bits
<1>4. StripShows'
  BY DEF StripShows
<1> QED
  BY <1>1, <1>3, <1>4 DEF LedInv

LEMMA SetLedKeeps == ASSUME LedInv, NEW l \in Leds, NEW c \in Triples, set(l, c), task' \in Int,
                            UNCHANGED <<type, wire, shown, rgb>> PROVE LedInv'
<1>1. data' = [data EXCEPT ![l] = Bits(c)] /\ asked' = [asked EXCEPT ![l] = c] /\ sent' = FALSE
  BY DEF set
<1>2. Bits(c) \in Triples
  BY BitsDecode
<1>3. data' \in [Leds -> Triples] /\ asked' \in [Leds -> Triples]
  BY <1>1, <1>2 DEF LedInv, LedTypes
<1>4. \A k \in Leds : data'[k] = Bits(asked'[k])
  <2>1. \A k \in Leds : data[k] = Bits(asked[k])
    BY DEF LedInv, Sending
  <2>2. ASSUME NEW k \in Leds PROVE data'[k] = Bits(asked'[k])
    <3>1. CASE k = l
      <4>1. data'[k] = Bits(c) /\ asked'[k] = c
        BY <1>1, <3>1 DEF LedInv, LedTypes
      <4> QED
        BY <4>1
    <3>2. CASE k # l
      <4>1. data'[k] = data[k] /\ asked'[k] = asked[k]
        BY <1>1, <3>2 DEF LedInv, LedTypes
      <4> QED
        BY <2>1, <4>1
    <3> QED
      BY <3>1, <3>2
  <2> QED
    BY <2>2
<1> QED
  BY <1>1, <1>3, <1>4, SetKept

LEMMA SetAllKeeps == ASSUME LedAssumption, LedInv, SetAll PROVE LedInv'
<1>1. PICK c \in Colours : data' = [l \in Leds |-> Bits(c)] /\ asked' = [l \in Leds |-> c]
  BY DEF SetAll
<1>2. c \in Triples /\ Bits(c) \in Triples
  BY ColourIs, BitsDecode
<1>3. /\ data' \in [Leds -> Triples] /\ asked' \in [Leds -> Triples]
      /\ \A l \in Leds : data'[l] = Bits(asked'[l])
  BY <1>1, <1>2
<1>4. task' \in Int /\ ~sent' /\ UNCHANGED <<type, wire, shown, rgb>>
  BY DEF SetAll, LedInv, LedTypes
<1> QED
  BY <1>3, <1>4, SetKept

\* A frame that is taken begins with the reset; a send() that fails changes nothing.
LEMMA SendKeeps == ASSUME LedAssumption, LedInv, send, task' \in Int PROVE LedInv'
<1>1. UNCHANGED <<type, data, shown, rgb, asked>>
  BY DEF send
<1>2. CASE UNCHANGED <<wire, sent>>
  BY <1>1, <1>2 DEF LedInv, LedTypes, Sending, StripShows, Bits
<1>3. CASE wire' = <<Reset>> /\ sent' = TRUE
  <2>1. <<Reset>> \in Seq(Triples) /\ Len(<<Reset>>) = 1 /\ <<Reset>> # Still
    BY ColourIs DEF Reset, Still
  <2>2. LedTypes'
    BY <1>1, <1>3, <2>1 DEF LedInv, LedTypes, LedAssumption
  <2>3. \A l \in Leds : ~(l + 2 <= Len(wire'))
    BY <1>3, <2>1 DEF Leds, LedAssumption
  <2>4. Sending'
    BY <1>1, <2>3 DEF LedInv, Sending, Bits
  <2>5. StripShows'
    BY <1>3, <2>1 DEF StripShows
  <2> QED
    BY <2>2, <2>4, <2>5 DEF LedInv
<1> QED
  BY <1>2, <1>3 DEF send, Send4, Send5, Transmit

LEMMA SendLedKeeps == ASSUME LedAssumption, LedInv, SendLed PROVE LedInv'
<1>1. /\ wire # Still /\ Len(wire) <= nleds /\ wire' = Append(wire, data[Len(wire) - 1])
      /\ UNCHANGED <<type, data, shown, rgb, task, asked, sent>>
  BY DEF SendLed
<1>2. wire \in Seq(Triples) /\ Len(wire) \in Nat /\ Len(wire) # 0 /\ nleds \in Nat
  BY <1>1, LenProperties, EmptySeq DEF LedInv, LedTypes, Still, LedAssumption
<1> DEFINE n == Len(wire)
<1>3. n - 1 \in Leds
  BY <1>1, <1>2 DEF Leds
<1>4. data[n - 1] \in Triples
  BY <1>3 DEF LedInv, LedTypes
<1>5. /\ wire' \in Seq(Triples) /\ Len(wire') = n + 1 /\ wire'[n + 1] = data[n - 1]
      /\ \A i \in 1 .. n : wire'[i] = wire[i]
  BY <1>1, <1>2, <1>4, AppendProperties
<1>6. LedTypes'
  BY <1>1, <1>2, <1>5 DEF LedInv, LedTypes
<1>7. wire' # Still
  BY <1>2, <1>5 DEF Still
<1>8. ASSUME sent, NEW l \in Leds, l + 2 <= n + 1 PROVE wire'[l + 2] = data[l]
  <2>1. CASE l + 2 = n + 1
    <3>1. l = n - 1
      BY <1>2, <2>1 DEF Leds
    <3> QED
      BY <1>5, <2>1, <3>1
  <2>2. CASE l + 2 # n + 1
    <3>1. l + 2 \in 1 .. n /\ l + 2 <= n
      BY <1>2, <1>8, <2>2 DEF Leds
    <3>2. wire[l + 2] = data[l]
      BY <1>1, <1>8, <3>1 DEF LedInv, Sending
    <3> QED
      BY <1>5, <3>1, <3>2
  <2> QED
    BY <2>1, <2>2
<1>9. Sending'
  BY <1>1, <1>5, <1>8 DEF LedInv, Sending, Bits
<1>10. StripShows'
  BY <1>7 DEF StripShows
<1> QED
  BY <1>6, <1>9, <1>10 DEF LedInv

LEMMA FrameEndsKeeps == ASSUME LedAssumption, LedInv, FrameEnds PROVE LedInv'
<1>1. /\ Len(wire) = nleds + 1 /\ shown' = [l \in Leds |-> Decoded(wire[l + 2])] /\ wire' = Still
      /\ UNCHANGED <<type, data, rgb, task, asked, sent>>
  BY DEF FrameEnds
<1>2. Still \in Seq(Triples) /\ Len(Still) = 0 /\ nleds \in Nat \ {0}
  BY DEF Still, LedAssumption
<1>3. LedTypes' /\ Sending'
  BY <1>1, <1>2 DEF LedInv, LedTypes, Sending, Bits
<1>4. ASSUME sent PROVE shown' = asked
  <2>1. wire # Still
    BY <1>1, <1>2
  <2>2. ASSUME NEW l \in Leds PROVE Decoded(wire[l + 2]) = asked[l]
    <3>1. l + 2 <= Len(wire)
      BY <1>1, <1>2 DEF Leds
    <3>2. wire[l + 2] = Bits(asked[l])
      BY <1>4, <2>1, <3>1 DEF LedInv, Sending
    <3>3. asked[l] \in Triples
      BY DEF LedInv, LedTypes
    <3> QED
      BY <3>2, <3>3, BitsDecode
  <2>3. asked = [l \in Leds |-> asked[l]]
    BY DEF LedInv, LedTypes
  <2> QED
    BY <1>1, <2>2, <2>3
<1>5. StripShows'
  BY <1>1, <1>4 DEF StripShows
<1> QED
  BY <1>3, <1>5 DEF LedInv

\* The hands are whole numbers.
LEMMA HandIs ==
  ASSUME LedAssumption, NEW angle \in Int, NEW max \in Int
  PROVE  calc_angle(angle, max).bright0 \in Int /\ calc_angle(angle, max).bright1 \in Int
<1>1. PICK rest \in Int : rest = (angle * nleds) % 360
  <2>1. angle * nleds \in Int
    BY DEF LedAssumption
  <2> QED
    BY <2>1
<1>2. (max * (360 - rest)) \in Int /\ max * rest \in Int
  OBVIOUS
<1>3. (max * (360 - rest)) \div 360 \in Int /\ (max * rest) \div 360 \in Int
  BY <1>2
<1> QED
  BY <1>1, <1>3 DEF calc_angle

LEMMA AngleIs ==
  ASSUME NEW circle \in [Leds -> Triples], NEW k \in 1 .. 3, NEW hand, hand.bright0 \in Int, hand.bright1 \in Int
  PROVE  set_angle(circle, k, hand) \in [Leds -> Triples]
<1>1. ASSUME NEW c \in [Leds -> Triples], NEW i, NEW v \in Int PROVE [c EXCEPT ![i][k] = v] \in [Leds -> Triples]
  <2>1. \A l \in Leds : [c[l] EXCEPT ![k] = v] \in Triples
    BY DEF Triples
  <2>2. [c EXCEPT ![i] = [c[i] EXCEPT ![k] = v]] \in [Leds -> Triples]
    BY <2>1
  <2> QED
    BY <2>2
<1> DEFINE c == [circle EXCEPT ![hand.idx0][k] = hand.bright0]
<1>2. c \in [Leds -> Triples]
  BY <1>1
<1> HIDE DEF c
<1>3. [c EXCEPT ![hand.idx1][k] = hand.bright1] \in [Leds -> Triples]
  BY <1>1, <1>2
<1>4. set_angle(circle, k, hand) = [c EXCEPT ![hand.idx1][k] = hand.bright1]
  BY DEF set_angle, c
<1> QED
  BY <1>3, <1>4

LEMMA CircleKeeps == ASSUME LedAssumption, LedInv, SetTime \/ SetCircle PROVE LedInv'
<1>1. UNCHANGED <<type, data, wire, shown, task, asked, sent>>
  BY DEF SetTime, SetCircle
<1>2. rgb \in [Leds -> Triples]
  BY DEF LedInv, LedTypes
<1>3. rgb' \in [Leds -> Triples]
  <2>1. CASE SetTime
    <3>1. PICK t \in Times :
            rgb' = set_angle(set_angle(set_angle(rgb, 3, calc_angle(t[1], 64)), 1, calc_angle(t[2], 128)),
                             2, calc_angle(t[3], 255))
      BY <2>1 DEF SetTime
    <3>2. t[1] \in Int /\ t[2] \in Int /\ t[3] \in Int
      BY DEF LedAssumption
    <3> DEFINE b == set_angle(rgb, 3, calc_angle(t[1], 64))
               r == set_angle(b, 1, calc_angle(t[2], 128))
    <3> 1 \in 1 .. 3 /\ 2 \in 1 .. 3 /\ 3 \in 1 .. 3
      OBVIOUS
    <3>6. /\ calc_angle(t[1], 64).bright0 \in Int /\ calc_angle(t[1], 64).bright1 \in Int
          /\ calc_angle(t[2], 128).bright0 \in Int /\ calc_angle(t[2], 128).bright1 \in Int
          /\ calc_angle(t[3], 255).bright0 \in Int /\ calc_angle(t[3], 255).bright1 \in Int
      BY <3>2, HandIs
    <3>3. b \in [Leds -> Triples]
      BY <1>2, <3>6, AngleIs, Zenon
    <3> HIDE DEF b
    <3>4. r \in [Leds -> Triples]
      BY <3>3, <3>6, AngleIs, Zenon
    <3> HIDE DEF r
    <3>5. rgb' = set_angle(r, 2, calc_angle(t[3], 255))
      BY <3>1 DEF b, r
    <3> QED
      BY <3>4, <3>5, <3>6, AngleIs, Zenon
  <2>2. CASE SetCircle
    BY <1>2, <2>2, ColourIs DEF SetCircle
  <2> QED
    BY <2>1, <2>2
<1> QED
  BY <1>1, <1>3 DEF LedInv, LedTypes, Sending, StripShows, Bits

\* When a frame that send() accepted has ended and no LED was set since, every LED
\* shows the colour it was last set to (src/esp32/rmt_strip.cpp), for any number of
\* LEDs and colours, both kinds of LEDs and both versions of the driver.
THEOREM StripIsShown == ASSUME LedAssumption PROVE LedSpec => []StripShows
<1>1. LedInit => LedInv
  BY LedStart
<1>2. LedInv /\ [LedNext]_ledVars => LedInv'
  <2> SUFFICES ASSUME LedInv, [LedNext]_ledVars PROVE LedInv'
    OBVIOUS
  <2>0. task \in Int /\ Resting \in Int /\ 0 \in Int /\ task + 1 \in Int
    BY DEF LedInv, LedTypes, Resting
  <2>1. ASSUME UNCHANGED <<type, data, wire, shown, rgb, asked, sent>>, task' \in Int PROVE LedInv'
    BY <2>1 DEF LedInv, LedTypes, Sending, StripShows, Bits
  <2>2. CASE InitStrip \/ Draw \/ UNCHANGED ledVars
    BY <2>0, <2>1, <2>2 DEF InitStrip, Draw, ledVars
  <2>3. CASE SetLed
    <3>1. PICK l \in Leds, c \in Colours : set(l, c)
      BY <2>3 DEF SetLed
    <3>2. c \in Triples
      BY ColourIs
    <3>3. UNCHANGED <<type, wire, shown, rgb>> /\ task' = task
      BY <2>3 DEF SetLed
    <3> QED
      BY <2>0, <3>1, <3>2, <3>3, SetLedKeeps
  <2>4. CASE DrawLed
    <3>1. task \in Leds /\ set(task, rgb[task]) /\ task' = task + 1 /\ UNCHANGED <<type, wire, shown, rgb>>
      BY <2>4 DEF DrawLed
    <3>2. rgb[task] \in Triples
      BY <3>1 DEF LedInv, LedTypes
    <3> QED
      BY <2>0, <3>1, <3>2, SetLedKeeps
  <2>5. CASE Send \/ DrawEnds
    <3>1. send /\ task' \in Int
      BY <2>0, <2>5 DEF Send, DrawEnds
    <3> QED
      BY <3>1, SendKeeps
  <2> QED
    BY <2>2, <2>3, <2>4, <2>5, SetAllKeeps, SendLedKeeps, FrameEndsKeeps, CircleKeeps DEF LedNext
<1>3. LedInv => StripShows
  BY DEF LedInv
<1> QED
  BY <1>1, <1>2, <1>3, PTL DEF LedSpec

-----------------------------------------------------------------------------
(* The thermometers.  All sensors have found the same chip, and what is on *)
(* the stack is a frame of its.                                            *)

FoundOne == devices # Nothing /\ find(device_code) # 0
Therm == devices.list[find(device_code)]

ChipTypes ==
  /\ chip \in [Chips -> [pad : Int, converts : BOOLEAN, measured : SUBSET Int]]
  /\ \A c \in Chips : chip[c].pad \in chip[c].measured \cup {PowerOn}
  /\ devices = Nothing \/ devices.list \in Seq(Chips)

SensorIs(s) ==
  sensor[s] # Nothing =>
    FoundOne /\ sensor[s] = [addr |-> Therm, resolution |-> "R_12_BIT", age |-> sensor[s].age]

Received(v) == FoundOne /\ v \in chip[Therm].measured \cup {0}

WireInv ==
  /\ ChipTypes
  /\ sensor = [s \in Sensors |-> sensor[s]] /\ \A s \in Sensors : SensorIs(s)
  /\ frame = BadFrame \/ \E v \in Int : frame = <<v>> /\ (Received(v) \/ (FoundOne /\ v = PowerOn))
  /\ reading = Nothing \/ \E s \in Sensors, v \in Int :
       reading = <<s, v>> /\ Received(v) /\ sensor[s].addr = Therm

\* The list is one of chips, and find() finds a thermometer in it.
LEMMA ListedIs == ASSUME OneWireAssumption, NEW d \in Listed PROVE d.list \in Seq(Chips)
<1>0. PICK S \in SUBSET Chips : \E s \in SetToSeqs(S) : d = [list |-> Reverse(s)]
  BY DEF Listed
<1>1. PICK s \in SetToSeqs(S) : d = [list |-> Reverse(s)]
  BY <1>0
<1>2. IsFiniteSet(S) /\ Cardinality(S) \in Nat
  BY FS_Subset, FS_CardinalityType DEF OneWireAssumption
<1>3. s \in Seq(Chips)
  BY <1>1, <1>2 DEF SetToSeqs
<1>4. Len(s) \in Nat /\ \A i \in 1 .. Len(s) : s[i] \in Chips
  BY <1>3, LenProperties
<1>5. \A i \in 1 .. Len(s) : (Len(s) - i) + 1 \in 1 .. Len(s)
  BY <1>4
<1>6. Reverse(s) \in [1 .. Len(s) -> Chips]
  BY <1>4, <1>5 DEF Reverse
<1> QED
  BY <1>1, <1>4, <1>6

LEMMA ThermIs ==
  ASSUME ChipTypes, FoundOne
  PROVE  Therm \in Chips /\ Therm.family = device_code
<1> DEFINE I == {i \in 1 .. Len(devices.list) : devices.list[i].family = device_code}
<1>1. devices.list \in Seq(Chips)
  BY DEF ChipTypes, FoundOne
<1>2. find(device_code) = IF I # {} THEN Min(I) ELSE 0
  BY DEF find, SelectInSeq
<1>3. I # {} /\ find(device_code) = Min(I)
  BY <1>2 DEF FoundOne
<1>4. I \subseteq Nat
  BY <1>1, LenProperties
<1>5. Min(I) \in I
  BY <1>3, <1>4, MinFact
<1> QED
  BY <1>1, <1>3, <1>5, LenProperties DEF Therm

LEMMA ThermKept == ASSUME UNCHANGED devices PROVE FoundOne' = FoundOne /\ Therm' = Therm
  BY DEF FoundOne, Therm, find, SelectInSeq

LEMMA WireStart == ASSUME OneWireAssumption PROVE OneWireInit => WireInv
  BY DEF OneWireInit, WireInv, ChipTypes, SensorIs, PowerOn, BadFrame

\* The bus is listed once.
LEMMA BusKeeps == ASSUME OneWireAssumption, WireInv, RmtInit \/ BitbangInit PROVE WireInv'
<1>1. devices = Nothing /\ (devices' = Nothing \/ devices' \in Listed) /\ UNCHANGED <<sensor, chip, frame, reading>>
  BY DEF RmtInit, BitbangInit
<1>2. devices' = Nothing \/ devices'.list \in Seq(Chips)
  BY <1>1, ListedIs
<1>3. ~FoundOne
  BY <1>1 DEF FoundOne
<1>4. frame = BadFrame /\ reading = Nothing /\ \A s \in Sensors : sensor[s] = Nothing
  BY <1>3 DEF WireInv, Received, SensorIs
<1> QED
  BY <1>1, <1>2, <1>4 DEF WireInv, ChipTypes, SensorIs

\* What a chip has measured is kept, and a sensor keeps its chip.
LEMMA WireKeeps ==
  ASSUME WireInv, UNCHANGED <<devices, frame, reading>>, ChipTypes',
         \A c \in Chips : chip[c].measured \subseteq chip'[c].measured,
         sensor' = [s \in Sensors |-> sensor'[s]],
         \A s \in Sensors : \/ sensor'[s] = sensor[s]
                            \/ FoundOne /\ \E n : sensor'[s] = [addr |-> Therm, resolution |-> "R_12_BIT", age |-> n]
  PROVE  WireInv'
<1>1. FoundOne' = FoundOne /\ Therm' = Therm
  BY ThermKept
<1>2. ASSUME NEW v, Received(v) PROVE Received(v)'
  BY <1>1, <1>2, ThermIs DEF Received, WireInv
<1>3. ASSUME NEW s \in Sensors PROVE SensorIs(s)' /\ (sensor[s].addr = Therm => sensor'[s].addr = Therm)
  <2>1. CASE sensor'[s] = sensor[s]
    BY <1>1, <2>1 DEF WireInv, SensorIs
  <2>2. CASE FoundOne /\ \E n : sensor'[s] = [addr |-> Therm, resolution |-> "R_12_BIT", age |-> n]
    BY <1>1, <2>2 DEF SensorIs
  <2> QED
    BY <2>1, <2>2
<1>4. frame' = BadFrame \/ \E v \in Int : frame' = <<v>> /\ (Received(v)' \/ (FoundOne' /\ v = PowerOn))
  BY <1>1, <1>2 DEF WireInv
<1>5. reading' = Nothing \/ \E s \in Sensors, v \in Int :
        reading' = <<s, v>> /\ Received(v)' /\ sensor'[s].addr = Therm'
  BY <1>1, <1>2, <1>3 DEF WireInv
<1> QED
  BY <1>3, <1>4, <1>5 DEF WireInv

LEMMA ChipMoves ==
  ASSUME OneWireAssumption, WireInv, NEW c \in Chips, start_conversion(c) \/ Convert(c) \/ PowerCycle(c),
         UNCHANGED devices
  PROVE  ChipTypes' /\ \A d \in Chips : chip[d].measured \subseteq chip'[d].measured
<1>2. /\ chip \in [Chips -> [pad : Int, converts : BOOLEAN, measured : SUBSET Int]]
      /\ \A d \in Chips : chip[d].pad \in chip[d].measured \cup {PowerOn}
  BY DEF WireInv, ChipTypes
<1>3. PICK x \in [pad : Int, converts : BOOLEAN, measured : SUBSET Int] :
        /\ chip' = [chip EXCEPT ![c] = x]
        /\ x.pad \in x.measured \cup {PowerOn} /\ chip[c].measured \subseteq x.measured
  <2>1. PowerOn \in Int
    BY DEF PowerOn
  <2>2. CASE chip' = chip
    <3>1. chip' = [chip EXCEPT ![c] = chip[c]] /\ chip[c] \in [pad : Int, converts : BOOLEAN, measured : SUBSET Int]
      BY <1>2, <2>2
    <3> QED
      BY <1>2, <3>1
  <2>3. CASE chip' = [chip EXCEPT ![c].converts = TRUE]
    <3> DEFINE x == [chip[c] EXCEPT !.converts = TRUE]
    <3>1. x \in [pad : Int, converts : BOOLEAN, measured : SUBSET Int] /\ x.pad = chip[c].pad /\ x.measured = chip[c].measured
      BY <1>2
    <3>2. chip' = [chip EXCEPT ![c] = x]
      BY <2>3
    <3> QED
      BY <1>2, <3>1, <3>2
  <2>4. CASE Convert(c)
    <3>1. PICK t \in Temps : chip' = [chip EXCEPT ![c] =
            [pad |-> 16 * t, converts |-> FALSE, measured |-> chip[c].measured \cup {16 * t}]]
      BY <1>2, <2>4 DEF Convert
    <3>2. PICK v \in Int : v = 16 * t
      BY DEF OneWireAssumption
    <3> DEFINE x == [pad |-> v, converts |-> FALSE, measured |-> chip[c].measured \cup {v}]
    <3>3. x \in [pad : Int, converts : BOOLEAN, measured : SUBSET Int] /\ x.pad = v /\ x.measured = chip[c].measured \cup {v}
      BY <1>2
    <3>4. chip' = [chip EXCEPT ![c] = x]
      BY <3>1, <3>2
    <3> HIDE DEF x
    <3> QED
      BY <3>3, <3>4
  <2>5. CASE PowerCycle(c)
    <3> DEFINE x == [pad |-> PowerOn, converts |-> FALSE, measured |-> chip[c].measured]
    <3>1. x \in [pad : Int, converts : BOOLEAN, measured : SUBSET Int] /\ x.pad = PowerOn /\ x.measured = chip[c].measured
      BY <1>2, <2>1
    <3>2. chip' = [chip EXCEPT ![c].pad = PowerOn, ![c].converts = FALSE]
      BY <2>5 DEF PowerCycle
    <3>3. chip' = [chip EXCEPT ![c] = x]
      <4>1. [[chip[c] EXCEPT !.pad = PowerOn] EXCEPT !.converts = FALSE] = x
        <5>1. PICK p, b, m : chip[c] = [pad |-> p, converts |-> b, measured |-> m]
          BY <1>2
        <5>2. [[pad |-> p, converts |-> b, measured |-> m] EXCEPT !.pad = PowerOn]
                = [pad |-> PowerOn, converts |-> b, measured |-> m]
          OBVIOUS
        <5>3. ASSUME NEW f
              PROVE  [[pad |-> PowerOn, converts |-> b, measured |-> m] EXCEPT !.converts = f]
                       = [pad |-> PowerOn, converts |-> f, measured |-> m]
          OBVIOUS
        <5> QED
          BY <5>1, <5>2, <5>3
      <4>2. chip' = [[chip EXCEPT ![c].pad = PowerOn] EXCEPT ![c].converts = FALSE]
        BY <3>2
      <4> QED
        BY <1>2, <4>1, <4>2
    <3> QED
      BY <3>1, <3>3
  <2> QED
    BY <2>2, <2>3, <2>4, <2>5 DEF start_conversion
<1>4. ChipTypes'
  BY <1>2, <1>3 DEF WireInv, ChipTypes
<1>5. \A d \in Chips : chip[d].measured \subseteq chip'[d].measured
  BY <1>2, <1>3
<1> QED
  BY <1>4, <1>5

LEMMA GetTempKeeps == ASSUME OneWireAssumption, WireInv, NEW s \in Sensors, GetTemp(s) PROVE WireInv'
<1>1. sensor[s] # Nothing /\ UNCHANGED <<devices, sensor, chip>>
  BY DEF GetTemp
<1>2. FoundOne /\ sensor[s].addr = Therm /\ sensor[s].resolution = "R_12_BIT"
  BY <1>1 DEF WireInv, SensorIs
<1>3. /\ Therm \in Chips /\ chip[Therm].pad \in chip[Therm].measured \cup {PowerOn}
      /\ chip[Therm].measured \subseteq Int
  BY <1>2, ThermIs DEF WireInv, ChipTypes
<1>4. FoundOne' = FoundOne /\ Therm' = Therm /\ \A v : Received(v)' = Received(v)
  BY <1>1, ThermKept DEF Received
<1>5. ChipTypes' /\ sensor' = [r \in Sensors |-> sensor'[r]] /\ \A r \in Sensors : SensorIs(r)'
  BY <1>1, <1>4 DEF WireInv, ChipTypes, SensorIs
<1>6. CASE reading' = Nothing /\ UNCHANGED frame
  BY <1>4, <1>5, <1>6 DEF WireInv
<1>7. CASE \E rx \in {<<chip[sensor[s].addr].pad>>, BadFrame, frame, Zeros} : frame' = rx /\ reading' = Value(s, rx)
  <2>1. PICK rx \in {<<chip[Therm].pad>>, BadFrame, frame, Zeros} : frame' = rx /\ reading' = Value(s, rx)
    BY <1>2, <1>7
  <2>2. rx = BadFrame \/ \E v \in Int : rx = <<v>> /\ (Received(v) \/ v = PowerOn)
    <3>1. PowerOn \in Int /\ 0 \in Int
      BY DEF PowerOn
    <3>2. chip[Therm].pad \in Int /\ (Received(chip[Therm].pad) \/ chip[Therm].pad = PowerOn) /\ Received(0)
      BY <1>2, <1>3, <3>1 DEF Received
    <3> QED
      BY <2>1, <3>1, <3>2 DEF WireInv, Zeros
  <2>3. frame' = BadFrame \/ \E v \in Int : frame' = <<v>> /\ (Received(v)' \/ (FoundOne' /\ v = PowerOn))
    BY <1>2, <1>4, <2>1, <2>2
  <2>4. CASE rx = BadFrame
    <3>1. reading' = Nothing
      BY <2>1, <2>4 DEF Value
    <3> QED
      BY <1>5, <2>3, <3>1 DEF WireInv
  <2>5. CASE \E v \in Int : rx = <<v>> /\ (Received(v) \/ v = PowerOn)
    <3>1. PICK v \in Int : rx = <<v>> /\ (Received(v) \/ v = PowerOn)
      BY <2>5
    <3>2. Weight[sensor[s].resolution] = 1 /\ rx[1] * 1 = v /\ PowerOn \in Int
      BY <1>2, <3>1 DEF Weight, PowerOn
    <3>3. reading' = Nothing \/ (reading' = <<s, v>> /\ ~(v >= PowerOn))
      BY <2>1, <3>2 DEF Value
    <3>4. reading' = Nothing \/ (reading' = <<s, v>> /\ Received(v))
      BY <3>1, <3>2, <3>3
    <3>5. reading' = Nothing \/ \E r \in Sensors, x \in Int :
            reading' = <<r, x>> /\ Received(x)' /\ sensor'[r].addr = Therm'
      BY <1>1, <1>2, <1>4, <3>4
    <3> QED
      BY <1>5, <2>3, <3>5 DEF WireInv
  <2> QED
    BY <2>2, <2>4, <2>5
<1> QED
  BY <1>6, <1>7 DEF GetTemp

LEMMA SensorActions ==
  ASSUME OneWireAssumption, WireInv, Tick \/ \E s \in Sensors : InitSensor(s) \/ StartConversion(s)
  PROVE  WireInv'
<1>1. CASE Tick
  <2>1. /\ UNCHANGED <<devices, chip, frame, reading>>
        /\ sensor' = [s \in Sensors |->
             IF sensor[s] = Nothing \/ ready(s) THEN sensor[s] ELSE [sensor[s] EXCEPT !.age = @ + 1]]
    BY <1>1 DEF Tick
  <2>2. ASSUME NEW s \in Sensors
        PROVE  \/ sensor'[s] = sensor[s]
               \/ FoundOne /\ \E n : sensor'[s] = [addr |-> Therm, resolution |-> "R_12_BIT", age |-> n]
    <3>1. CASE sensor[s] = Nothing \/ ready(s)
      BY <2>1, <3>1
    <3>2. CASE ~(sensor[s] = Nothing \/ ready(s))
      <4>1. sensor'[s] = [sensor[s] EXCEPT !.age = sensor[s].age + 1]
        BY <2>1, <3>2
      <4>2. PICK n : FoundOne /\ sensor[s] = [addr |-> Therm, resolution |-> "R_12_BIT", age |-> n]
        BY <3>2 DEF WireInv, SensorIs
      <4>3. sensor'[s] = [addr |-> Therm, resolution |-> "R_12_BIT", age |-> sensor[s].age + 1]
        BY <4>1, <4>2
      <4> QED
        BY <4>2, <4>3
    <3> QED
      BY <3>1, <3>2
  <2>3. ChipTypes' /\ \A c \in Chips : chip[c].measured \subseteq chip'[c].measured
    BY <2>1 DEF WireInv, ChipTypes
  <2> QED
    BY <2>1, <2>2, <2>3, WireKeeps
<1>2. ASSUME NEW s \in Sensors, InitSensor(s) \/ StartConversion(s) PROVE WireInv'
  <2>1. /\ FoundOne /\ start_conversion(Therm) /\ UNCHANGED <<devices, frame, reading>>
        /\ \/ UNCHANGED sensor
           \/ \E n : sensor' = [sensor EXCEPT ![s] = [addr |-> Therm, resolution |-> "R_12_BIT", age |-> n]]
    <3>1. CASE InitSensor(s)
      BY <3>1 DEF InitSensor, FoundOne, Therm
    <3>2. CASE StartConversion(s)
      <4>1. PICK n : FoundOne /\ sensor[s] = [addr |-> Therm, resolution |-> "R_12_BIT", age |-> n]
        BY <3>2 DEF StartConversion, WireInv, SensorIs
      <4>2. sensor' = [sensor EXCEPT ![s].age = 0] /\ start_conversion(Therm)
        BY <3>2, <4>1 DEF StartConversion
      <4>3. [sensor[s] EXCEPT !.age = 0] = [addr |-> Therm, resolution |-> "R_12_BIT", age |-> 0]
        BY <4>1
      <4>4. sensor' = [sensor EXCEPT ![s] = [addr |-> Therm, resolution |-> "R_12_BIT", age |-> 0]]
        BY <4>2, <4>3
      <4> QED
        BY <3>2, <4>1, <4>2, <4>4 DEF StartConversion
    <3> QED
      BY <1>2, <3>1, <3>2
  <2>2. ChipTypes' /\ \A c \in Chips : chip[c].measured \subseteq chip'[c].measured
    BY <2>1, ThermIs, ChipMoves DEF WireInv
  <2>3. sensor' = [r \in Sensors |-> sensor'[r]]
    BY <2>1 DEF WireInv
  <2>4. ASSUME NEW r \in Sensors
        PROVE  \/ sensor'[r] = sensor[r]
               \/ FoundOne /\ \E n : sensor'[r] = [addr |-> Therm, resolution |-> "R_12_BIT", age |-> n]
    BY <2>1 DEF WireInv
  <2> QED
    BY <2>1, <2>2, <2>3, <2>4, WireKeeps
<1> QED
  BY <1>1, <1>2

\* A temperature that is returned was measured by a thermometer, the one that the
\* sensor is of (src/drivers/ds18b20.cpp), for any chips and sensors, whatever is lost.
THEOREM TemperaturesMeasured == ASSUME OneWireAssumption PROVE OneWireSpec => []TemperatureIsMeasured
<1>1. OneWireInit => WireInv
  BY WireStart
<1>2. WireInv /\ [OneWireNext]_oneWireVars => WireInv'
  <2> SUFFICES ASSUME WireInv, [OneWireNext]_oneWireVars PROVE WireInv'
    OBVIOUS
  <2>1. ASSUME NEW c \in Chips, Convert(c) \/ PowerCycle(c) PROVE WireInv'
    <3>1. UNCHANGED <<devices, sensor, frame, reading>>
      BY <2>1 DEF Convert, PowerCycle
    <3>2. ChipTypes' /\ \A d \in Chips : chip[d].measured \subseteq chip'[d].measured
      BY <2>1, <3>1, ChipMoves
    <3>3. sensor' = [s \in Sensors |-> sensor'[s]]
      BY <3>1 DEF WireInv
    <3> QED
      BY <3>1, <3>2, <3>3, WireKeeps
  <2>2. CASE UNCHANGED oneWireVars
    <3>1. UNCHANGED <<devices, sensor, chip, frame, reading>>
      BY <2>2 DEF oneWireVars
    <3>2. ChipTypes' /\ \A d \in Chips : chip[d].measured \subseteq chip'[d].measured
      BY <3>1 DEF WireInv, ChipTypes
    <3>3. sensor' = [s \in Sensors |-> sensor'[s]]
      BY <3>1 DEF WireInv
    <3> QED
      BY <3>1, <3>2, <3>3, WireKeeps
  <2> QED
    BY <2>1, <2>2, BusKeeps, SensorActions, GetTempKeeps DEF OneWireNext
<1>3. WireInv => TemperatureIsMeasured
  <2> SUFFICES ASSUME WireInv, reading # Nothing
               PROVE  sensor[reading[1]].addr.family = device_code
                      /\ reading[2] \in chip[sensor[reading[1]].addr].measured \cup {0}
    BY DEF TemperatureIsMeasured
  <2>1. PICK s \in Sensors, v \in Int : reading = <<s, v>> /\ Received(v) /\ sensor[s].addr = Therm
    BY DEF WireInv
  <2>2. Therm.family = device_code
    BY <2>1, ThermIs DEF WireInv, Received
  <2> QED
    BY <2>1, <2>2 DEF Received
<1> QED
  BY <1>1, <1>2, <1>3, PTL DEF OneWireSpec

-----------------------------------------------------------------------------
(* The sentences.  A step of the parser changes the fields that it is for, *)
(* and goes on when it could set them.                                     *)

Loc(l) == \E a, b, c, d, e : l = [hms |-> a, ymd |-> b, lat |-> c, lon |-> d, alt |-> e]

LEMMA SetHms ==
  ASSUME NEW l, Loc(l), NEW v, NEW m, m = [l EXCEPT !.hms = v]
  PROVE  Loc(m) /\ m.hms = v /\ m.ymd = l.ymd /\ m.lat = l.lat /\ m.lon = l.lon /\ m.alt = l.alt
<1>1. PICK a, b, c, d, e : l = [hms |-> a, ymd |-> b, lat |-> c, lon |-> d, alt |-> e]
  BY DEF Loc
<1>2. m = [hms |-> v, ymd |-> b, lat |-> c, lon |-> d, alt |-> e]
  BY <1>1
<1>3. Loc(m)
  BY <1>2 DEF Loc
<1> QED
  BY <1>1, <1>2, <1>3

LEMMA SetYmd ==
  ASSUME NEW l, Loc(l), NEW v, NEW m, m = [l EXCEPT !.ymd = v]
  PROVE  Loc(m) /\ m.hms = l.hms /\ m.ymd = v /\ m.lat = l.lat /\ m.lon = l.lon /\ m.alt = l.alt
<1>1. PICK a, b, c, d, e : l = [hms |-> a, ymd |-> b, lat |-> c, lon |-> d, alt |-> e]
  BY DEF Loc
<1>2. m = [hms |-> a, ymd |-> v, lat |-> c, lon |-> d, alt |-> e]
  BY <1>1
<1>3. Loc(m)
  BY <1>2 DEF Loc
<1> QED
  BY <1>1, <1>2, <1>3

LEMMA SetLat ==
  ASSUME NEW l, Loc(l), NEW v, NEW m, m = [l EXCEPT !.lat = v]
  PROVE  Loc(m) /\ m.hms = l.hms /\ m.ymd = l.ymd /\ m.lat = v /\ m.lon = l.lon /\ m.alt = l.alt
<1>1. PICK a, b, c, d, e : l = [hms |-> a, ymd |-> b, lat |-> c, lon |-> d, alt |-> e]
  BY DEF Loc
<1>2. m = [hms |-> a, ymd |-> b, lat |-> v, lon |-> d, alt |-> e]
  BY <1>1
<1>3. Loc(m)
  BY <1>2 DEF Loc
<1> QED
  BY <1>1, <1>2, <1>3

LEMMA SetLon ==
  ASSUME NEW l, Loc(l), NEW v, NEW m, m = [l EXCEPT !.lon = v]
  PROVE  Loc(m) /\ m.hms = l.hms /\ m.ymd = l.ymd /\ m.lat = l.lat /\ m.lon = v /\ m.alt = l.alt
<1>1. PICK a, b, c, d, e : l = [hms |-> a, ymd |-> b, lat |-> c, lon |-> d, alt |-> e]
  BY DEF Loc
<1>2. m = [hms |-> a, ymd |-> b, lat |-> c, lon |-> v, alt |-> e]
  BY <1>1
<1>3. Loc(m)
  BY <1>2 DEF Loc
<1> QED
  BY <1>1, <1>2, <1>3

LEMMA SetAlt ==
  ASSUME NEW l, Loc(l), NEW v, NEW m, m = [l EXCEPT !.alt = v]
  PROVE  Loc(m) /\ m.hms = l.hms /\ m.ymd = l.ymd /\ m.lat = l.lat /\ m.lon = l.lon /\ m.alt = v
<1>1. PICK a, b, c, d, e : l = [hms |-> a, ymd |-> b, lat |-> c, lon |-> d, alt |-> e]
  BY DEF Loc
<1>2. m = [hms |-> a, ymd |-> b, lat |-> c, lon |-> d, alt |-> v]
  BY <1>1
<1>3. Loc(m)
  BY <1>2 DEF Loc
<1> QED
  BY <1>1, <1>2, <1>3

\* Where the next field of a position is, and its value.
Degrees(f, rose) ==
  LET a == 60 * (f.val \div 100) + (f.val % 100) IN IF rose.text \in {"S", "W"} THEN -a ELSE a

LEMMA AngleRead ==
  ASSUME NEW f, NEW rose, parse_latlon(f, rose).ok
  PROVE  parse_latlon(f, rose).val = Degrees(f, rose) /\ ~(f.len <= 2)
<1>1. IsNumber(f) /\ ~(~f.point \/ f.len <= 2 \/ rose.text \notin {"N", "E", "S", "W"})
  BY DEF parse_latlon, Bad
<1>2. parse_latlon(f, rose) = Ok(Degrees(f, rose))
  BY <1>1 DEF parse_latlon, Degrees
<1>3. parse_latlon(f, rose).val = Degrees(f, rose)
  BY <1>2 DEF Ok
<1> HIDE DEF Degrees
<1> QED
  BY <1>1, <1>3

\* parse_hms() counts the seconds.
LEMMA SecondsAre ==
  ASSUME NEW f, FieldIs(f), parse_hms(f).ok
  PROVE  f.len = 6 /\ parse_hms(f).val % 60 = (f.val % 100) % 60
<1>1. f.len = 6 /\ parse_hms(f).val = 3600 * (f.val \div 10000) + 60 * ((f.val \div 100) % 100) + (f.val % 100)
  BY DEF parse_hms, Ok, Bad
<1>2. PICK h \in Int, m \in Int, s \in Int : h = f.val \div 10000 /\ m = (f.val \div 100) % 100 /\ s = f.val % 100
  BY SMT DEF FieldIs
<1>3. parse_hms(f).val = 60 * (60 * h + m) + s
  BY <1>1, <1>2, SMT
<1>4. PICK k \in Int, n \in Nat \ {0} : k = 60 * h + m /\ n = 60
  OBVIOUS
<1>5. (n * k + s) % n = s % n
  BY TurnsVanish
<1> QED
  BY <1>1, <1>2, <1>3, <1>4, <1>5

\* parse_dmy() turns the date round.
LEMMA YearIs ==
  ASSUME NEW f, FieldIs(f), parse_dmy(f).ok
  PROVE  DmyLeft(f) \div 10000 = 2000 + (f.val % 100)
<1>1. IsNumber(f) /\ f.len = 6
  BY DEF parse_dmy, Bad
<1>2. f.val \in Nat /\ f.val \div 1 = f.val /\ f.val \div 10000 < 100
  <2>1. f.val \in Nat /\ f.val \div 10000 < 100
    BY <1>1 DEF FieldIs
  <2> QED
    BY <2>1, SMT
<1>3. DmyLeft(f) = 10000 * (2000 + (f.val % 100)) + 100 * ((f.val \div 100) % 100) + f.val \div 10000
  BY <1>1, <1>2 DEF DmyLeft
<1> DEFINE y == f.val % 100
           m == (f.val \div 100) % 100
           d == f.val \div 10000
<1>4. y \in 0 .. 99 /\ m \in 0 .. 99 /\ d \in 0 .. 99
  BY <1>2, SMT
<1>5. DmyLeft(f) = 10000 * (2000 + y) + 100 * m + d
  BY <1>3
<1> HIDE DEF y, m, d
<1>6. (10000 * (2000 + y) + 100 * m + d) \div 10000 = 2000 + y
  BY <1>4, SMT
<1>7. DmyLeft(f) \div 10000 = 2000 + y
  BY <1>5, <1>6
<1> QED
  BY <1>7 DEF y

\* What each step leaves of a Location, and what it has set if it goes on.
SameDate(m, l) == m.ymd = l.ymd /\ m.alt = l.alt
Positioned(m, p, i) ==
  /\ m.lat = Degrees(p[i], p[i + 1]) /\ ~(p[i].len <= 2)
  /\ m.lon = Degrees(p[i + 2], p[i + 3]) /\ ~(p[i + 2].len <= 2)
Dated(m, f) == m.ymd \div 10000 = 2000 + (f.val % 100)
TimedBy(m, f) == f.len = 6 /\ m.hms % 60 = (f.val % 100) % 60

LEMMA HmsIs ==
  ASSUME NEW l, Loc(l), NEW p, FieldIs(p[2])
  PROVE  LET r == Hms(l, p)
         IN /\ Loc(r.loc) /\ SameDate(r.loc, l) /\ r.loc.lat = l.lat /\ r.loc.lon = l.lon
            /\ r.ok => TimedBy(r.loc, p[2])
<1>1. CASE parse_hms(p[2]).ok
  <2>1. Hms(l, p).loc = [l EXCEPT !.hms = parse_hms(p[2]).val]
    BY <1>1 DEF Hms, GoOn
  <2>2. /\ Loc(Hms(l, p).loc) /\ Hms(l, p).loc.hms = parse_hms(p[2]).val
        /\ SameDate(Hms(l, p).loc, l) /\ Hms(l, p).loc.lat = l.lat /\ Hms(l, p).loc.lon = l.lon
    BY <2>1, SetHms DEF SameDate
  <2>3. p[2].len = 6 /\ parse_hms(p[2]).val % 60 = (p[2].val % 100) % 60
    BY <1>1, SecondsAre
  <2> QED
    BY <2>2, <2>3 DEF TimedBy
<1>2. CASE ~parse_hms(p[2]).ok
  BY <1>2 DEF Hms, Stop, SameDate
<1> QED
  BY <1>1, <1>2

Both(l, v, w) == [l EXCEPT !.lat = v, !.lon = w]

LEMMA SetBoth ==
  ASSUME NEW l, Loc(l), NEW v, NEW w, NEW m, m = Both(l, v, w)
  PROVE  Loc(m) /\ SameDate(m, l) /\ m.hms = l.hms /\ m.lat = v /\ m.lon = w
<1>1. PICK k : k = [l EXCEPT !.lat = v]
  OBVIOUS
<1>2. Loc(k) /\ SameDate(k, l) /\ k.hms = l.hms /\ k.lat = v
  BY <1>1, SetLat DEF SameDate
<1>3. m = [k EXCEPT !.lon = w]
  BY <1>1 DEF Both
<1>4. Loc(m) /\ m.hms = k.hms /\ m.ymd = k.ymd /\ m.lat = k.lat /\ m.lon = w /\ m.alt = k.alt
  BY <1>2, <1>3, SetLon
<1> QED
  BY <1>2, <1>4 DEF SameDate

LEMMA PositionIs ==
  ASSUME NEW l, Loc(l), NEW p, NEW i
  PROVE  LET r == Position(l, p, i)
         IN Loc(r.loc) /\ SameDate(r.loc, l) /\ r.loc.hms = l.hms /\ (r.ok => Positioned(r.loc, p, i))
<1> DEFINE lat == parse_latlon(p[i], p[i + 1])
           lon == parse_latlon(p[i + 2], p[i + 3])
<1>1. ASSUME NEW v, NEW m, m = [l EXCEPT !.lat = v] PROVE Loc(m) /\ SameDate(m, l) /\ m.hms = l.hms
  BY <1>1, SetLat DEF SameDate
<1>3. CASE ~lat.ok
  <2>1. Position(l, p, i).ok = FALSE /\ \E v : Position(l, p, i).loc = [l EXCEPT !.lat = v]
    BY <1>3 DEF Position, Stop
  <2> QED
    BY <1>1, <2>1
<1>4. CASE lat.ok /\ ~lon.ok
  <2>1. /\ Position(l, p, i).ok = FALSE
        /\ Position(l, p, i).loc = [l EXCEPT !.lat = lat.val, !.lon = LatLonLeft(p[i + 2], l.lon)]
    BY <1>4 DEF Position, Stop
  <2> HIDE DEF lat, lon
  <2>2. PICK w : w = LatLonLeft(p[i + 2], l.lon)
    OBVIOUS
  <2>3. PICK v : v = lat.val
    OBVIOUS
  <2>4. PICK m : m = Position(l, p, i).loc
    OBVIOUS
  <2>5. m = Both(l, v, w)
    BY <2>1, <2>2, <2>3, <2>4 DEF Both
  <2>6. Loc(m) /\ SameDate(m, l) /\ m.hms = l.hms
    BY <2>5, SetBoth
  <2> QED
    BY <2>1, <2>4, <2>6
<1>5. CASE lat.ok /\ lon.ok
  <2>1. Position(l, p, i).loc = [l EXCEPT !.lat = lat.val, !.lon = lon.val]
    BY <1>5 DEF Position, GoOn
  <2>2. /\ lat.val = Degrees(p[i], p[i + 1]) /\ ~(p[i].len <= 2)
        /\ lon.val = Degrees(p[i + 2], p[i + 3]) /\ ~(p[i + 2].len <= 2)
    BY <1>5, AngleRead
  <2>3. LET m == Position(l, p, i).loc
        IN Loc(m) /\ SameDate(m, l) /\ m.hms = l.hms /\ m.lat = lat.val /\ m.lon = lon.val
    <3> HIDE DEF lat, lon
    <3>1. PICK v : v = lat.val
      OBVIOUS
    <3>2. PICK w : w = lon.val
      OBVIOUS
    <3>3. PICK m : m = Position(l, p, i).loc
      OBVIOUS
    <3>4. m = Both(l, v, w)
      BY <2>1, <3>1, <3>2, <3>3 DEF Both
    <3>5. Loc(m) /\ SameDate(m, l) /\ m.hms = l.hms /\ m.lat = v /\ m.lon = w
      BY <3>4, SetBoth
    <3> QED
      BY <3>1, <3>2, <3>3, <3>5
  <2> HIDE DEF lat, lon
  <2> QED
    BY <2>2, <2>3 DEF Positioned
<1> QED
  BY <1>3, <1>4, <1>5

LEMMA GgaIs ==
  ASSUME NEW l, Loc(l), NEW p, NEW n, n = 15 => FieldIs(p[2])
  PROVE  LET r == gga(l, p, n)
         IN /\ Loc(r.loc)
            /\ r.ok => n = 15 /\ TimedBy(r.loc, p[2]) /\ Positioned(r.loc, p, 3) /\ r.loc.ymd = l.ymd
<1>1. CASE n # 15
  BY <1>1 DEF gga, Stop
<1>2. CASE n = 15
  <2> DEFINE h == Hms(l, p)
             q == Position(h.loc, p, 3)
  <2>1. Loc(h.loc) /\ SameDate(h.loc, l) /\ (h.ok => TimedBy(h.loc, p[2]))
    BY <1>2, HmsIs
  <2>2. Loc(q.loc) /\ SameDate(q.loc, h.loc) /\ q.loc.hms = h.loc.hms /\ (q.ok => Positioned(q.loc, p, 3))
    BY <2>1, PositionIs
  <2>3. \/ ~h.ok /\ gga(l, p, n) = h
        \/ h.ok /\ ~q.ok /\ gga(l, p, n) = q
        \/ h.ok /\ q.ok /\ gga(l, p, n).ok = FALSE /\ gga(l, p, n).loc = q.loc
        \/ h.ok /\ q.ok /\ \E v : gga(l, p, n).loc = [q.loc EXCEPT !.alt = v]
    BY <1>2 DEF gga, Then, Stop
  <2> HIDE DEF h, q
  <2>4. ASSUME NEW v, NEW m, m = [q.loc EXCEPT !.alt = v]
        PROVE  Loc(m) /\ m.hms = q.loc.hms /\ m.ymd = q.loc.ymd /\ m.lat = q.loc.lat /\ m.lon = q.loc.lon
    BY <2>2, <2>4, SetAlt
  <2>5. CASE ~h.ok \/ ~q.ok
    BY <2>1, <2>2, <2>3, <2>5
  <2>6. CASE h.ok /\ q.ok /\ gga(l, p, n).ok = FALSE /\ gga(l, p, n).loc = q.loc
    BY <2>2, <2>6
  <2>7. CASE h.ok /\ q.ok /\ \E v : gga(l, p, n).loc = [q.loc EXCEPT !.alt = v]
    <3>1. PICK v : gga(l, p, n).loc = [q.loc EXCEPT !.alt = v]
      BY <2>7
    <3>2. PICK m : m = gga(l, p, n).loc
      OBVIOUS
    <3>3. Loc(m) /\ m.hms = q.loc.hms /\ m.ymd = q.loc.ymd /\ m.lat = q.loc.lat /\ m.lon = q.loc.lon
      BY <2>4, <3>1, <3>2
    <3>4. TimedBy(m, p[2])
      BY <2>1, <2>2, <2>7, <3>3 DEF TimedBy
    <3>5. Positioned(m, p, 3)
      BY <2>2, <2>7, <3>3 DEF Positioned
    <3>6. m.ymd = l.ymd
      BY <2>1, <2>2, <3>3 DEF SameDate
    <3> QED
      BY <1>2, <3>2, <3>3, <3>4, <3>5, <3>6
  <2> QED
    BY <2>3, <2>5, <2>6, <2>7
<1> QED
  BY <1>1, <1>2

LEMMA RmcIs ==
  ASSUME NEW l, Loc(l), NEW p, NEW n, n \in {12, 13} => FieldIs(p[2]) /\ FieldIs(p[10])
  PROVE  LET r == rmc(l, p, n)
         IN /\ Loc(r.loc)
            /\ r.ok => /\ n \in {12, 13} /\ TimedBy(r.loc, p[2]) /\ r.loc.alt = l.alt
                       /\ IF p[3].text = "A" THEN Positioned(r.loc, p, 4)
                          ELSE r.loc.lat = l.lat /\ r.loc.lon = l.lon
                       /\ Dated(r.loc, p[10])
<1>1. CASE n \notin {12, 13}
  BY <1>1 DEF rmc, Stop
<1>2. CASE n \in {12, 13}
  <2> DEFINE h == Hms(l, p)
             q == IF p[3].text = "A" THEN Position(h.loc, p, 4) ELSE GoOn(h.loc)
  <2>1. /\ Loc(h.loc) /\ SameDate(h.loc, l) /\ h.loc.lat = l.lat /\ h.loc.lon = l.lon
        /\ h.ok => TimedBy(h.loc, p[2])
    BY <1>2, HmsIs
  <2>2. /\ Loc(q.loc) /\ SameDate(q.loc, h.loc) /\ q.loc.hms = h.loc.hms
        /\ q.ok => IF p[3].text = "A" THEN Positioned(q.loc, p, 4)
                   ELSE q.loc.lat = h.loc.lat /\ q.loc.lon = h.loc.lon
    <3>1. CASE p[3].text = "A"
      BY <2>1, <3>1, PositionIs
    <3>2. CASE p[3].text # "A"
      BY <2>1, <3>2 DEF GoOn, SameDate
    <3> QED
      BY <3>1, <3>2
  <2>3. \/ ~h.ok /\ rmc(l, p, n) = h
        \/ rmc(l, p, n).ok = FALSE /\ rmc(l, p, n).loc = h.loc
        \/ h.ok /\ ~q.ok /\ rmc(l, p, n) = q
        \/ rmc(l, p, n).ok = FALSE /\ rmc(l, p, n).loc = q.loc
        \/ /\ h.ok /\ q.ok /\ rmc(l, p, n).loc = [q.loc EXCEPT !.ymd = DmyLeft(p[10])]
           /\ rmc(l, p, n).ok = parse_dmy(p[10]).ok
    BY <1>2 DEF rmc, Then, Stop
  <2> HIDE DEF h, q
  <2>4. ASSUME NEW v, NEW m, m = [q.loc EXCEPT !.ymd = v]
        PROVE  /\ Loc(m) /\ m.hms = q.loc.hms /\ m.ymd = v /\ m.alt = q.loc.alt
               /\ m.lat = q.loc.lat /\ m.lon = q.loc.lon
    BY <2>2, <2>4, SetYmd
  <2>5. CASE ~h.ok /\ rmc(l, p, n) = h
    BY <2>1, <2>5
  <2>6. CASE rmc(l, p, n).ok = FALSE /\ rmc(l, p, n).loc = h.loc
    BY <2>1, <2>6
  <2>7. CASE h.ok /\ ~q.ok /\ rmc(l, p, n) = q
    BY <2>2, <2>7
  <2>8. CASE rmc(l, p, n).ok = FALSE /\ rmc(l, p, n).loc = q.loc
    BY <2>2, <2>8
  <2>9. CASE /\ h.ok /\ q.ok /\ rmc(l, p, n).loc = [q.loc EXCEPT !.ymd = DmyLeft(p[10])]
             /\ rmc(l, p, n).ok = parse_dmy(p[10]).ok
    <3>1. /\ Loc(rmc(l, p, n).loc) /\ TimedBy(rmc(l, p, n).loc, p[2]) /\ rmc(l, p, n).loc.alt = l.alt
          /\ rmc(l, p, n).loc.ymd = DmyLeft(p[10])
      BY <2>1, <2>2, <2>4, <2>9 DEF SameDate, TimedBy
    <3>2. IF p[3].text = "A" THEN Positioned(rmc(l, p, n).loc, p, 4)
          ELSE rmc(l, p, n).loc.lat = l.lat /\ rmc(l, p, n).loc.lon = l.lon
      BY <2>1, <2>2, <2>4, <2>9 DEF Positioned
    <3>3. parse_dmy(p[10]).ok => DmyLeft(p[10]) \div 10000 = 2000 + (p[10].val % 100)
      <4>1. PICK f : f = p[10]
        OBVIOUS
      <4>2. parse_dmy(f).ok => DmyLeft(f) \div 10000 = 2000 + (f.val % 100)
        BY <1>2, <4>1, YearIs
      <4> QED
        BY <4>1, <4>2
    <3>4. rmc(l, p, n).ok => Dated(rmc(l, p, n).loc, p[10])
      BY <2>9, <3>1, <3>3 DEF Dated
    <3> QED
      BY <1>2, <3>1, <3>2, <3>4
  <2> QED
    BY <2>3, <2>5, <2>6, <2>7, <2>8, <2>9
<1> QED
  BY <1>1, <1>2

NmeaInv == Loc(loc) /\ AcceptedIsWhole

LEMMA ParseKeeps == ASSUME NmeaAssumption, NmeaInv, NEW s \in Sentences, Parse(s) PROVE NmeaInv'
<1> DEFINE n == Len(s.fields)
           p == s.fields
           r == IF ~checksum(s) THEN Stop(loc)
                ELSE CASE s.type = "$GPGGA" -> gga(loc, s.fields, n)
                       [] s.type = "$GPRMC" -> rmc(loc, s.fields, n)
                       [] OTHER -> Stop(loc)
<1>1. /\ last' = s /\ before' = loc
      /\ \/ result' = "crash" /\ loc' = loc
         \/ loc' = r.loc /\ result' = IF r.ok THEN "true" ELSE "false"
  BY DEF Parse
<1>2. Loc(loc)
  BY DEF NmeaInv
<1>3. /\ n = 15 => FieldIs(p[2]) /\ FieldIs(p[3]) /\ FieldIs(p[5])
      /\ n \in {12, 13} => FieldIs(p[2]) /\ FieldIs(p[4]) /\ FieldIs(p[6]) /\ FieldIs(p[10])
  BY DEF NmeaAssumption
<1>4. /\ Loc(gga(loc, p, n).loc)
      /\ gga(loc, p, n).ok => LET l == gga(loc, p, n).loc
                              IN n = 15 /\ TimedBy(l, p[2]) /\ Positioned(l, p, 3) /\ l.ymd = loc.ymd
  <2> HIDE DEF n, p, r
  <2> QED
    BY <1>2, <1>3, GgaIs
<1>9. /\ Loc(rmc(loc, p, n).loc)
      /\ rmc(loc, p, n).ok => LET l == rmc(loc, p, n).loc
                              IN /\ n \in {12, 13} /\ TimedBy(l, p[2]) /\ l.alt = loc.alt
                                 /\ IF p[3].text = "A" THEN Positioned(l, p, 4)
                                    ELSE l.lat = loc.lat /\ l.lon = loc.lon
                                 /\ Dated(l, p[10])
  <2> HIDE DEF n, p, r
  <2> QED
    BY <1>2, <1>3, RmcIs
<1>5. \/ r.ok = FALSE /\ r.loc = loc
      \/ s.type = "$GPGGA" /\ r = gga(loc, p, n)
      \/ s.type = "$GPRMC" /\ r = rmc(loc, p, n)
  BY DEF Stop
<1> HIDE DEF n, r
<1>6. Loc(loc')
  BY <1>1, <1>2, <1>4, <1>5, <1>9
<1>7. ASSUME result' = "true" PROVE r.ok /\ loc' = r.loc
  BY <1>1, <1>7
<1>8. AcceptedIsWhole'
  <2>1. CASE result' # "true"
    BY <2>1 DEF AcceptedIsWhole
  <2>2. CASE result' = "true" /\ s.type = "$GPGGA" /\ r = gga(loc, p, n)
    <3>1. TimedBy(loc', p[2]) /\ Positioned(loc', p, 3) /\ loc'.ymd = loc.ymd
      BY <1>4, <1>7, <2>2
    <3>2. /\ loc'.lat = Degrees(p[3], p[4]) /\ p[3].len > 2
          /\ loc'.lon = Degrees(p[5], p[6]) /\ p[5].len > 2
      <4>1. FieldIs(p[3]) /\ FieldIs(p[5])
        BY <1>3, <1>4, <1>7, <2>2
      <4>2. p[3].len \in Nat /\ p[5].len \in Nat
        BY <4>1 DEF FieldIs
      <4> QED
        BY <3>1, <4>2 DEF Positioned
    <3> QED
      BY <1>1, <2>2, <3>1, <3>2 DEF AcceptedIsWhole, TimedBy, Degrees
  <2>3. CASE result' = "true" /\ s.type = "$GPRMC" /\ r = rmc(loc, p, n)
    <3>1. /\ TimedBy(loc', p[2]) /\ loc'.alt = loc.alt
          /\ IF p[3].text = "A" THEN Positioned(loc', p, 4)
             ELSE loc'.lat = loc.lat /\ loc'.lon = loc.lon
          /\ Dated(loc', p[10])
      BY <1>7, <1>9, <2>3
    <3>2. p[3].text = "A" => /\ loc'.lat = Degrees(p[4], p[5]) /\ p[4].len > 2
                             /\ loc'.lon = Degrees(p[6], p[7]) /\ p[6].len > 2
      <4>1. FieldIs(p[4]) /\ FieldIs(p[6])
        BY <1>3, <1>7, <1>9, <2>3
      <4>2. p[4].len \in Nat /\ p[6].len \in Nat
        BY <4>1 DEF FieldIs
      <4> QED
        BY <3>1, <4>2 DEF Positioned
    <3> QED
      BY <1>1, <2>3, <3>1, <3>2 DEF AcceptedIsWhole, TimedBy, Degrees, Dated
  <2> QED
    BY <1>5, <1>7, <2>1, <2>2, <2>3
<1> QED
  BY <1>6, <1>8 DEF NmeaInv

\* A sentence that is accepted has set all that it carries, and nothing else
\* (src/drivers/nmea.cpp:459), for all sentences, whatever came before.
THEOREM AcceptedWhole == ASSUME NmeaAssumption PROVE NmeaSpec => []AcceptedIsWhole
<1>1. ASSUME NmeaInit PROVE NmeaInv
  <2>1. Loc(loc)
    BY <1>1 DEF NmeaInit, StartLoc, Loc
  <2>2. result # "true"
    BY <1>1 DEF NmeaInit
  <2> QED
    BY <2>1, <2>2 DEF NmeaInv, AcceptedIsWhole
<1>2. NmeaInv /\ [NmeaNext]_nmeaVars => NmeaInv'
  <2>1. ASSUME NmeaInv, UNCHANGED nmeaVars PROVE NmeaInv'
    BY <2>1 DEF nmeaVars, NmeaInv, AcceptedIsWhole
  <2> QED
    BY <2>1, ParseKeeps DEF NmeaNext
<1>3. NmeaInv => AcceptedIsWhole
  BY DEF NmeaInv
<1> QED
  BY <1>1, <1>2, <1>3, PTL DEF NmeaSpec
=============================================================================
