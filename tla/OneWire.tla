------------------------------ MODULE OneWire -------------------------------
(***************************************************************************)
(* Thermometers on a one-wire bus: the search that lists the devices       *)
(* (src/esp32/one_wire.cpp and one_wire_bitbang.cpp), the list that a      *)
(* sensor finds its chip in (src/panglos/drivers/one_wire.h) and the       *)
(* sensors (src/drivers/ds18b20.cpp).  A chip converts in its own time and *)
(* may lose its power; a command may fail or not be heard, a frame may be  *)
(* corrupt, or not be received at all, and then the driver looks at what   *)
(* was on its stack.  A temperature is in sixteenths of a degree.          *)
(***************************************************************************)
EXTENDS Integers, Sequences, SequencesExt

CONSTANTS
  Chips,    \* what is on the bus: [id, family]
  Sensors,  \* the names of the devices that are initialised
  Temps     \* the degrees that are measured

OneWireAssumption ==
  /\ Temps \subseteq Int
  /\ IsFiniteSet(Chips) /\ \A c \in Chips : DOMAIN c = {"id", "family"}

VARIABLES
  devices,  \* the list of the bus, or Nothing
  sensor,   \* each sensor, or Nothing
  chip,     \* each chip: its scratchpad, whether it converts, what it has measured
  frame,    \* the array on the stack that frames are read into
  reading   \* what get_temp() returned last, and for whom

oneWireVars == <<devices, sensor, chip, frame, reading>>

Nothing == <<>>
BadFrame == <<>>      \* a frame whose CRC is not zero
Zeros == <<0>>   \* a frame of nine zeros, whose CRC is zero
PowerOn == 16 * 85
device_code == 40

-----------------------------------------------------------------------------
(* The bus                                                                 *)

\* Each chip that the search finds is pushed; an error ends the search like its end.
Listed == {[list |-> Reverse(s)] : s \in UNION {SetToSeqs(S) : S \in SUBSET Chips}}

\* init_onewire(): if the bus or its search cannot be made, there is no bus.
RmtInit ==
  /\ devices = Nothing
  /\ devices' \in Listed \cup {Nothing}
  /\ UNCHANGED <<sensor, chip, frame, reading>>

\* init_onewire_bitbang(): without a chip that answers the reset there is no bus.
BitbangInit ==
  /\ devices = Nothing
  /\ devices' \in (IF Chips = {} THEN {} ELSE Listed) \cup {Nothing}
  /\ UNCHANGED <<sensor, chip, frame, reading>>

\* Faulty: any device will do.
find_Any(family) == SelectInSeq(devices.list, LAMBDA d : TRUE)

\* find(): the place of the first of the list that has the family, or 0; it is not
\* marked as used.
find(family) == SelectInSeq(devices.list, LAMBDA d : d.family = family)

-----------------------------------------------------------------------------
(* The sensor                                                              *)

\* By resolution: the ticks to wait, in tens, and the weight of the lowest bit.
Wait == [R_9_BIT |-> 1, R_10_BIT |-> 2, R_11_BIT |-> 4, R_12_BIT |-> 8]
Weight == [R_9_BIT |-> 8, R_10_BIT |-> 4, R_11_BIT |-> 2, R_12_BIT |-> 1]

\* command(): the reset, the address and the bytes; the result only tells of errors
\* that the master sees, so the chip may or may not have heard the command.
start_conversion(c) ==
  \/ UNCHANGED chip
  \/ chip' = [chip EXCEPT ![c].converts = TRUE]

\* init_ds18b20(): one that fails is deleted, though its chip may convert.
InitSensor(s) ==
  /\ devices # Nothing /\ sensor[s] = Nothing
  /\ find(device_code) # 0
  /\ LET c == devices.list[find(device_code)]
     IN /\ start_conversion(c)
        /\ \/ sensor' = [sensor EXCEPT ![s] = [addr |-> c, resolution |-> "R_12_BIT", age |-> 0]]
           \/ UNCHANGED sensor
  /\ UNCHANGED <<devices, frame, reading>>

StartConversion(s) ==
  /\ sensor[s] # Nothing
  /\ start_conversion(sensor[s].addr)
  /\ sensor' = [sensor EXCEPT ![s].age = 0]
  /\ UNCHANGED <<devices, frame, reading>>

ready(s) == sensor[s].age >= Wait[sensor[s].resolution]

\* Faulty: takes the value of a chip that has not measured yet.
Value_PowerOn(s, rx) == IF rx = BadFrame THEN Nothing ELSE <<s, rx[1] * Weight[sensor[s].resolution]>>

\* What get_temp() makes of a frame.
Value(s, rx) ==
  IF rx = BadFrame \/ rx[1] * Weight[sensor[s].resolution] >= PowerOn THEN Nothing
  ELSE <<s, rx[1] * Weight[sensor[s].resolution]>>

\* read(): whether the command was heard is not looked at; a chip that was not asked
\* leaves the line high, which is a bad frame; without a frame the array, which is
\* not initialized, has what was there before: the last frame, zeros or anything else.
GetTemp(s) ==
  /\ sensor[s] # Nothing
  /\ \/ reading' = Nothing /\ UNCHANGED frame
     \/ /\ ready(s)
        /\ \E rx \in {<<chip[sensor[s].addr].pad>>, BadFrame, frame, Zeros} :
             frame' = rx /\ reading' = Value(s, rx)
  /\ UNCHANGED <<devices, sensor, chip>>

-----------------------------------------------------------------------------
(* Time and the chips                                                      *)

Tick ==
  /\ sensor' = [s \in Sensors |->
       IF sensor[s] = Nothing \/ ready(s) THEN sensor[s] ELSE [sensor[s] EXCEPT !.age = @ + 1]]
  /\ sensor' # sensor
  /\ UNCHANGED <<devices, chip, frame, reading>>

Convert(c) ==
  /\ chip[c].converts
  /\ \E t \in Temps : chip' = [chip EXCEPT ![c] =
       [pad |-> 16 * t, converts |-> FALSE, measured |-> @.measured \cup {16 * t}]]
  /\ UNCHANGED <<devices, sensor, frame, reading>>

PowerCycle(c) ==
  /\ chip' = [chip EXCEPT ![c].pad = PowerOn, ![c].converts = FALSE]
  /\ UNCHANGED <<devices, sensor, frame, reading>>

-----------------------------------------------------------------------------
OneWireInit ==
  /\ devices = Nothing
  /\ sensor = [s \in Sensors |-> Nothing]
  /\ chip = [c \in Chips |-> [pad |-> PowerOn, converts |-> FALSE, measured |-> {}]]
  /\ frame = BadFrame
  /\ reading = Nothing

OneWireNext ==
  \/ RmtInit \/ BitbangInit
  \/ \E s \in Sensors : InitSensor(s) \/ StartConversion(s) \/ GetTemp(s)
  \/ Tick
  \/ \E c \in Chips : Convert(c) \/ PowerCycle(c)

OneWireSpec == OneWireInit /\ [][OneWireNext]_oneWireVars

\* A temperature that is returned was measured by the chip that the sensor is of, a
\* thermometer: never the value that a chip has after power on, nor of another kind
\* of chip, whatever was lost on the way; but for the zero that is made of an array
\* of zeros when nothing was received.
TemperatureIsMeasured ==
  reading # Nothing =>
    LET c == sensor[reading[1]].addr
    IN c.family = device_code /\ reading[2] \in chip[c].measured \cup {0}
=============================================================================
