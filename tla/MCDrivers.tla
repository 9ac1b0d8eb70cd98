------------------------------ MODULE MCDrivers -----------------------------
(***************************************************************************)
(* The drivers: every behaviour is one of the component that part names,   *)
(* and the others keep still.  Those that the theorems are about are       *)
(* extended, so that their constants are those of the configuration; the   *)
(* rest are instances with constants given here, on variables that they    *)
(* share.                                                                  *)
(***************************************************************************)
EXTENDS Motor, Mutexes, Pins, LedStrip, OneWire

\* A mutex of each type, and two critical sections.
SomeTypes == [c1 |-> "CRITICAL_SECTION", c2 |-> "CRITICAL_SECTION",
              t |-> "TASK_LOCK", s |-> "SYSTEM", r |-> "RECURSIVE"]

\* Of the STM32: two with one number, and two in one handler.
SomePins == {<<"A", 4>>, <<"A", 5>>, <<"A", 7>>, <<"B", 5>>}

\* The dates at the ends of the ranges, one after each end and the leap years.
SomeDates ==
  {<<s, 0, 0, 1, 1, 2000>> : s \in {9, 10, 59, 60}} \cup
  {<<0, 0, h, 1, 1, 2000>> : h \in {9, 19, 23, 24}} \cup
  {<<59, 59, 23, d, m, y>> : d \in 28 .. 31, m \in {2, 9, 10, 12}, y \in {2023, 2024, 2099}}

\* Two thermometers and another chip.
SomeChips == {[id |-> 1, family |-> 40], [id |-> 2, family |-> 40], [id |-> 3, family |-> 1]}

SomeColours == {<<255, 0, 64>>, <<0, 64, 0>>}
SomeTimes == {<<0, 90, 200>>, <<350, 0, 90>>}

VARIABLES
  part,   \* frozen: the component that the behaviour is of
  v1, v2, v3, v4, v5, v6, v7, v8, v9, v10, v11   \* of the instances, each has its own meaning of them

I2 == INSTANCE I2cBus WITH
  Bytes <- {<<0, 1, 1, 0, 0, 1, 0, 1>>, <<1, 1, 1, 1, 1, 1, 1, 1>>},
  MaxLen <- 2, MaxCalls <- 2, scl <- v1, sda <- v2, pull <- v3, bit <- v4,
  stopped <- v5, sequence <- v6, wrong <- v7, call <- v8, todo <- v9,
  in <- v10, calls <- v11

Sn == INSTANCE Sensors WITH
  Raw <- {0, 255}, Dates <- SomeDates, MaxPackets <- 3, sensor <- v1,
  at <- v2, chip <- v3, sent <- v4, reading <- v5

\* What the components assume of their constants.
ASSUME DriversAssumption ==
  /\ I2!I2cAssumption
  /\ Sn!SensorsAssumption
  /\ OneWireAssumption
  /\ MutexesAssumption
  /\ PinsAssumption
  /\ LedAssumption

shared == <<v1, v2, v3, v4, v5, v6, v7, v8, v9, v10, v11>>
allVars == <<part, vars, mutexVars, pinVars, ledVars, oneWireVars, shared>>

SharedInit ==
  \/ /\ part \in {"motor", "mutexes", "pins", "leds", "onewire"}
     /\ v1 = 0 /\ v2 = 0 /\ v3 = 0 /\ v4 = 0 /\ v5 = 0 /\ v6 = 0 /\ v7 = 0 /\ v8 = 0 /\ v9 = 0 /\ v10 = 0 /\ v11 = 0
  \/ part = "i2c" /\ I2!I2cInit
  \/ part = "sensors" /\ Sn!SensorsInit /\ v6 = 0 /\ v7 = 0 /\ v8 = 0 /\ v9 = 0 /\ v10 = 0 /\ v11 = 0

MCInit ==
  /\ SharedInit /\ Init /\ OneWireInit
  /\ MutexInit /\ (part # "mutexes" => arch = "linux" /\ cpu = CHOOSE t \in Tasks : TRUE)
  /\ PinsInit /\ (part # "pins" => mcu = "esp32")
  /\ LedInit /\ (part # "leds" => type = "SK68XX" /\ idf = 4)

MCNext ==
  \/ part = "motor" /\ Next
     /\ UNCHANGED <<part, mutexVars, pinVars, ledVars, oneWireVars, shared>>
  \/ part = "mutexes" /\ MutexNext
     /\ UNCHANGED <<part, vars, pinVars, ledVars, oneWireVars, shared>>
  \/ part = "pins" /\ PinsNext
     /\ UNCHANGED <<part, vars, mutexVars, ledVars, oneWireVars, shared>>
  \/ part = "leds" /\ LedNext
     /\ UNCHANGED <<part, vars, mutexVars, pinVars, oneWireVars, shared>>
  \/ part = "onewire" /\ OneWireNext
     /\ UNCHANGED <<part, vars, mutexVars, pinVars, ledVars, shared>>
  \/ part = "i2c" /\ I2!I2cNext
     /\ UNCHANGED <<part, vars, mutexVars, pinVars, ledVars, oneWireVars>>
  \/ part = "sensors" /\ Sn!SensorsNext
     /\ UNCHANGED <<part, vars, mutexVars, pinVars, ledVars, oneWireVars, v6, v7, v8, v9, v10, v11>>

\* The fairness of each component.
MCSpec ==
  /\ MCInit /\ [][MCNext]_allVars
  /\ WF_vars(part = "motor" /\ Poll)

-----------------------------------------------------------------------------
\* The motor comes to rest where it was sent last
\* (unit-tests/motor_test.cpp:441).
MotorArrives == part = "motor" => Arrives

\* What is at the end of a line gets what it was sent: a peripheral the
\* transfers of a call and no others, from one start to one stop
\* (unit-tests/i2c.cpp:83); and a reading of a sensor is what was measured,
\* whatever the line does to it (src/drivers/aht25.cpp:112).
LinesCarry ==
  /\ part = "i2c" => I2!BusIsFramed
  /\ part = "sensors" => Sn!ReadIsMeasured
=============================================================================
