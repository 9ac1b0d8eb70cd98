-------------------------------- MODULE Pins --------------------------------
(***************************************************************************)
(* The pins of the two microcontrollers, who has them, and the interrupts  *)
(* that their edges make:                                                  *)
(*   esp32  GPIO, UART, I2C and PWM mark the pins they use                 *)
(*          (src/esp32/gpio.cpp, uart.cpp, i2c.cpp, pwm.cpp)               *)
(*   stm32  GPIO, I2S and DAC do, and each timer its number; an interrupt  *)
(*          line is shared by the pins of a number, and a handler by       *)
(*          several lines (src/stm32/gpio.cpp, i2s.cpp, dac.cpp, timer.cpp)*)
(* A constructor that finds a pin taken stops the program, as does every   *)
(* other assertion that fails.  The interrupt comes between the steps of   *)
(* the constructor and of set_interrupt_handler(), and edges come at any   *)
(* time, while the handler runs too.                                       *)
(***************************************************************************)
EXTENDS Integers, Sequences, SequencesExt, FiniteSets

CONSTANTS EspPins, ArmPins,  \* numbers; a port and a number
          Timers             \* of the STM32, numbers from 1

PinsAssumption ==
  /\ EspPins \subseteq Nat
  /\ ArmPins \subseteq {"A", "B", "C"} \X (0 .. 15)
  /\ Timers \subseteq 1 .. 9

VARIABLES
  mcu,      \* frozen: the microcontroller
  halted,   \* an assertion has failed
  used,     \* the pins that are marked, and the timers <<"T", number>>
  owners,   \* what has pins, [kind, pins]
  handler,  \* of each pin: "none", a function "half" set, or "set"
  table,    \* what an interrupt line calls, or None
  enabled,  \* the handlers of interrupts that are enabled
  armed,    \* the lines whose edges are seen
  flags,    \* the lines with an edge that was not handled yet
  isr,      \* the lines the handler has still to look at, and the one it handles
  todo,     \* the task: the step that a constructor or set_interrupt_handler() is at
  pending   \* the lines whose handler has to be called for an edge

pinVars == <<mcu, halted, used, owners, handler, table, enabled, armed, flags, isr, todo, pending>>
irqVars == <<handler, table, enabled, armed, flags, isr, pending>>

None == <<>>
Idle == [rest |-> <<>>, calls |-> None]
AllPins == IF mcu = "esp32" THEN EspPins ELSE ArmPins
Line(p) == IF mcu = "esp32" THEN p ELSE p[2]
Lines == {Line(p) : p \in AllPins}

Task == ~halted /\ isr = Idle /\ todo = None
Checked(ok) == halted' = ~ok

-----------------------------------------------------------------------------
(* Who has the pins                                                        *)

\* Faulty: does not look whether a pin is used.
Claim_Any(kind, pins) ==
  /\ Checked(TRUE)
  /\ used' = used \cup ToSet(pins)
  /\ owners' = owners \cup {[kind |-> kind, pins |-> ToSet(pins)]}

\* mark_used(), busy(): each in turn, so one that is wanted twice is refused too.
Claim(kind, pins) ==
  LET free == IsInjective(pins) /\ ToSet(pins) \cap used = {}
  IN /\ Checked(free)
     /\ used' = used \cup ToSet(pins)
     /\ owners' = IF free THEN owners \cup {[kind |-> kind, pins |-> ToSet(pins)]} ELSE owners

Claims(kind, pins) ==
  /\ Task /\ Claim(kind, pins)
  /\ UNCHANGED <<mcu, irqVars, todo>>

\* A pin may be left out; the port is taken for ever, even by one that was deleted.
EspUart ==
  /\ todo = None /\ \A o \in owners : o.kind \notin {"uart", "uart gone"}
  /\ \E rx, tx \in EspPins \cup {-1} :
       Claims("uart", SelectSeq(<<rx, tx>>, LAMBDA p : p # -1))

EspI2c == \E scl, sda \in EspPins : Claims("i2c", <<scl, sda>>)

\* Has no destructor.
EspPwm == \E pins \in SeqOf(EspPins, 2) : pins # <<>> /\ Claims("pwm", pins)

ArmI2s ==
  \E pins \in {<<<<"A", 4>>, <<"A", 5>>, <<"A", 7>>>>, <<<<"B", 3>>, <<"B", 5>>, <<"A", 15>>>>} :
    ToSet(pins) \subseteq ArmPins /\ Claims("i2s", pins)

\* DAC::create(): by channel
DacPins == {<<"A", 4>>, <<"A", 5>>}

\* DAC::init()
ArmDac == \E p \in DacPins \cap ArmPins : Claims("dac", <<p>>)

\* Timer::alloc(): each in turn, like a pin.
Alloc(kind, numbers) == Claims(kind, [i \in DOMAIN numbers |-> <<"T", numbers[i]>>])

\* Timer::create()
ArmTimer == \E n \in Timers : Alloc("timer", <<n>>)

\* Timer_Init(): the timers of the time and of the events.
Clock == IF mcu = "stm32f4" THEN 2 ELSE 4
EventTimer == IF mcu = "stm32f4" THEN 5 ELSE 2
TimerInit == Alloc("events", <<Clock, EventTimer>>)

\* Faulty: the pins stay marked.
Delete_Marked(o) ==
  /\ Task /\ mcu = "esp32"
  /\ o \in owners /\ o.kind \in {"gpio", "uart", "i2c"}
  /\ Checked(o.kind = "uart" => Cardinality(o.pins) = 2)
  /\ UNCHANGED used
  /\ owners' = (owners \ {o}) \cup (IF o.kind = "uart" THEN {[kind |-> "uart gone", pins |-> {}]} ELSE {})
  /\ UNCHANGED <<mcu, irqVars, todo>>

\* The destructors: a UART that lacks a pin fails an assertion, and leaves its port.
\* A GPIO stays registered for its interrupt.
Delete(o) ==
  /\ Task /\ mcu = "esp32"
  /\ o \in owners /\ o.kind \in {"gpio", "uart", "i2c"}
  /\ Checked(o.kind = "uart" => Cardinality(o.pins) = 2)
  /\ used' = used \ o.pins
  /\ owners' = (owners \ {o}) \cup (IF o.kind = "uart" THEN {[kind |-> "uart gone", pins |-> {}]} ELSE {})
  /\ UNCHANGED <<mcu, irqVars, todo>>

Gpios == {p \in AllPins : [kind |-> "gpio", pins |-> {p}] \in owners}

EspGpio == \E p \in EspPins : Claims("gpio", <<p>>)

\* gpio_init(), after which the line of a pin in an interrupt mode is armed
ArmGpio ==
  /\ Task
  /\ \E p \in ArmPins, interrupts \in BOOLEAN :
       /\ Claim("gpio", <<p>>)
       /\ IF interrupts /\ p \notin used
            THEN armed' = armed \cup {Line(p)} /\ todo' = <<"table", p>>
            ELSE UNCHANGED <<armed, todo>>
  /\ UNCHANGED <<mcu, handler, table, enabled, flags, isr, pending>>

-----------------------------------------------------------------------------
(* Interrupts                                                              *)

\* pin_to_irq(): the handlers, each with its lines in the order it looks at them.
Handlers ==
  IF mcu = "esp32" THEN {SetToSortSeq(EspPins, <)}
  ELSE {<<n>> : n \in 0 .. 4} \cup {[i \in 1 .. 5 |-> 4 + i], [i \in 1 .. 6 |-> 9 + i]}

HandlerOf(n) == CHOOSE h \in Handlers : n \in ToSet(h)

\* The rest of ARM_GPIO(): one pin of each number.
ArmTable ==
  /\ ~halted /\ isr = Idle /\ todo # None /\ todo[1] = "table"
  /\ LET p == todo[2] IN
       /\ enabled' = enabled \cup {HandlerOf(Line(p))}
       /\ Checked(table[Line(p)] = None)
       /\ table' = IF table[Line(p)] = None THEN [table EXCEPT ![Line(p)] = <<p>>] ELSE table
  /\ todo' = None
  /\ UNCHANGED <<mcu, used, owners, handler, armed, flags, isr, pending>>

\* set_interrupt_handler(): the function, then its argument and, on ESP32, whether
\* the interrupt is handled at all.
SetFunction ==
  /\ Task
  /\ \E p \in Gpios, on \in BOOLEAN :
       /\ mcu # "esp32" => table[Line(p)] = <<p>>
       /\ handler' = [handler EXCEPT ![p] = IF on THEN "half" ELSE "none"]
       /\ pending' = IF on THEN pending ELSE pending \ {Line(p)}
       /\ todo' = <<"argument", p>>
  /\ UNCHANGED <<mcu, halted, used, owners, table, enabled, armed, flags, isr>>

SetArgument ==
  /\ ~halted /\ isr = Idle /\ todo # None /\ todo[1] = "argument"
  /\ LET p == todo[2]
         on == handler[p] = "half"
     IN /\ handler' = [handler EXCEPT ![p] = IF on THEN "set" ELSE "none"]
        /\ IF mcu # "esp32" THEN UNCHANGED <<table, enabled, armed, flags>>
           ELSE /\ table' = [table EXCEPT ![p] = IF on THEN <<p>> ELSE None]
                /\ enabled' = IF on THEN Handlers ELSE enabled
                /\ armed' = IF on THEN armed \cup {p} ELSE armed \ {p}
                /\ flags' = IF on THEN flags ELSE flags \ {p}
  /\ todo' = None
  /\ UNCHANGED <<mcu, halted, used, owners, isr, pending>>

Called(n) == table[n] # None /\ handler[table[n][1]] # "none"

\* The hardware
Edge ==
  /\ ~halted
  /\ \E n \in armed :
       /\ flags' = flags \cup {n}
       /\ pending' = IF Called(n) THEN pending \cup {n} ELSE pending
  /\ UNCHANGED <<mcu, halted, used, owners, handler, table, enabled, armed, isr, todo>>

Interrupt ==
  /\ ~halted /\ isr = Idle
  /\ \E h \in enabled : ToSet(h) \cap flags # {} /\ isr' = [rest |-> h, calls |-> None]
  /\ UNCHANGED <<mcu, halted, used, owners, handler, table, enabled, armed, flags, todo, pending>>

\* Faulty: clears all the flags of the handler when it has found one.
Look_ClearAll ==
  /\ ~halted /\ isr # Idle /\ isr.calls = None
  /\ LET n == Head(isr.rest) IN
       IF n \in flags THEN flags' = flags \ ToSet(isr.rest) /\ isr' = [isr EXCEPT !.calls = <<n>>]
                      ELSE UNCHANGED flags /\ isr' = [isr EXCEPT !.rest = Tail(@)]
  /\ UNCHANGED <<mcu, halted, used, owners, handler, table, enabled, armed, todo, pending>>

\* EXTI9_5_IRQHandler() and the others: a flag that is found is cleared first.
Look ==
  /\ ~halted /\ isr # Idle /\ isr.calls = None
  /\ LET n == Head(isr.rest) IN
       IF n \in flags THEN flags' = flags \ {n} /\ isr' = [isr EXCEPT !.calls = <<n>>]
                      ELSE UNCHANGED flags /\ isr' = [isr EXCEPT !.rest = Tail(@)]
  /\ UNCHANGED <<mcu, halted, used, owners, handler, table, enabled, armed, todo, pending>>

\* HAL_GPIO_EXTI_Callback() needs a GPIO, on_interrupt() of ESP32 a function; of a
\* GPIO that was deleted nothing is known.
Call ==
  /\ ~halted /\ isr.calls # None
  /\ LET n == isr.calls[1] IN
       /\ Checked(table[n] # None /\ table[n][1] \in Gpios /\ (mcu = "esp32" => Called(n)))
       /\ pending' = pending \ {n}
  /\ isr' = [rest |-> Tail(isr.rest), calls |-> None]
  /\ UNCHANGED <<mcu, used, owners, handler, table, enabled, armed, flags, todo>>

-----------------------------------------------------------------------------
PinsInit ==
  /\ mcu \in {"esp32", "stm32f1", "stm32f4"}
  /\ halted = FALSE
  /\ used = {} /\ owners = {}
  /\ handler = [p \in AllPins |-> "none"]
  /\ table = [n \in Lines |-> None]
  /\ enabled = {} /\ armed = {} /\ flags = {} /\ pending = {}
  /\ isr = Idle /\ todo = None

Constructors ==
  \/ mcu = "esp32" /\ (EspGpio \/ EspUart \/ EspI2c \/ EspPwm)
  \/ mcu # "esp32" /\ (ArmGpio \/ ArmI2s \/ ArmDac \/ ArmTimer \/ TimerInit)

PinsNext ==
  \/ Constructors \/ ArmTable
  \/ \E o \in owners : Delete(o)
  \/ SetFunction \/ SetArgument
  \/ Edge \/ Interrupt \/ Look \/ Call

PinsSpec == PinsInit /\ [][PinsNext]_pinVars

\* No pin or timer has two owners, and exactly the pins with an owner are marked, whatever
\* was made and deleted before; else the program has stopped at an assertion
\* (src/esp32/gpio.cpp:25, src/stm32/gpio.cpp:73).
PinsAreOwned ==
  ~halted =>
    /\ used = UNION {o.pins : o \in owners}
    /\ \A o, p \in owners : o # p => o.pins \cap p.pins = {}

\* The edge of a pin with a handler is not lost, also when it comes while the handler
\* shared with other pins has passed this one: until it is called, the flag is set or
\* the call is the next thing the handler does (src/stm32/gpio.cpp:320).
NoEdgeIsLost == ~halted => pending \subseteq flags \cup ToSet(isr.calls)
=============================================================================
