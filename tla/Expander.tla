----------------------------- MODULE Expander -----------------------------
(***************************************************************************)
(* The MCP23S17 I/O expander (src/drivers/mcp23s17.cpp), one of its two    *)
(* ports, and what is built on it: pins as GPIO objects, with a cache of   *)
(* the output register; the keyboard (src/drivers/keyboard.cpp); and the   *)
(* interrupts of its input pins, handled by a callback of a Dispatch.      *)
(* A register is the set of its bits that are 1.  Each access of the chip  *)
(* is one step, and so is what is done under the mutex of the caches.      *)
(***************************************************************************)
EXTENDS Dispatch

CONSTANTS
  Bits,          \* the pins of the port
  Users,         \* threads that use output pins
  Handler,       \* get_interrupt_handler()
  HandlersRead,  \* whether the handlers of pins read input pins
  MaxOps         \* bound: calls of the application

ASSUME ExpanderAssumption ==
  /\ Handler \in Items
  /\ Null \notin Bits /\ Users # {}
  /\ HandlersRead \in BOOLEAN
  /\ MaxOps \in Nat

Regs == {"IODIR", "GPPU", "DEFVAL", "GPINTEN"}
Modes == {"OUTPUT", "INPUT", "INPUT_PU", "IT_FALLING", "IT_RISING"}

VARIABLES
  use,          \* frozen: "pins", "irq" or "keys", what the port is used for
  reg,          \* the registers that have no cache
  olat,         \* the latch of the output register, GPIO
  data, dirty,  \* its Cache
  pc,           \* where each user is
  maker,        \* the thread that makes and deletes pins
  mode,         \* the mode of each pin that has an object, or "none"
  level, intf,  \* the levels of the inputs, and the interrupts flagged
  found,        \* the flags _on_interrupt() has read and not yet acted on
  leds, seen,   \* Keyboard::leds; the keys that the application read last
  woken,        \* on_key() has run and the application not yet
  ops

chipVars == <<reg, olat, level, intf>>
cacheVars == <<data, dirty>>
appVars == <<leds, seen, woken>>
expVars == <<use, chipVars, cacheVars, pc, maker, mode, found, appVars, ops>>

Idle == [at |-> "idle", bit |-> Null, word |-> {}]
NotMaking == [todo |-> <<>>, read |-> Null, bit |-> Null, to |-> "none"]

\* Keyboard::init(): keys on port A, which reg stands for then, lights on port B,
\* whose output register olat is then.  The write of leds makes the cache dirty.
KeyboardInit ==
  /\ reg = [r \in Regs |-> IF r = "DEFVAL" THEN {} ELSE Bits]
  /\ leds = Bits /\ olat = leds /\ data = leds /\ dirty = TRUE

ExpInit ==
  /\ Init
  /\ use \in {"pins", "irq", "keys"}
  /\ \/ use = "keys" /\ KeyboardInit
     \/ /\ use # "keys"
        /\ reg = [r \in Regs |-> IF r = "IODIR" THEN Bits ELSE {}]
        /\ leds = {} /\ olat = {} /\ data = {} /\ dirty = FALSE
  /\ pc = [u \in Users |-> Idle]
  /\ maker = NotMaking
  /\ mode = [b \in Bits |-> "none"]
  /\ level = {} /\ intf = {} /\ found = {Null}
  /\ seen = {} /\ woken = FALSE
  /\ ops = 0

Op == ops < MaxOps /\ ops' = ops + 1
Put(S, b, on) == IF on THEN S \cup {b} ELSE S \ {b}

-----------------------------------------------------------------------------
(* The cache.                                                              *)

\* Faulty: the cache is clean again once a pin is put back.
CacheSet_Toggle(b, on) ==
  /\ data' = Put(data, b, on)
  /\ dirty' = (IF data' # data THEN ~dirty ELSE dirty)

\* set_mask() and clr_mask() of Cache
CacheSet(b, on) ==
  /\ data' = Put(data, b, on)
  /\ dirty' = (dirty \/ data' # data)

\* Cache::write(); a value that is written twice is taken to be on the chip.
CacheWrite(word) == data' = word /\ dirty' = (data # word)

FlushCache ==
  /\ dirty' = FALSE
  /\ olat' = IF dirty THEN data ELSE olat
  /\ UNCHANGED <<reg, level, intf, data>>

-----------------------------------------------------------------------------
(* Output pins.  auto is the auto_flush a pin was made with: here both     *)
(* kinds of pins are used on every bit.                                    *)

Goto(u, at, b, word) == pc' = [pc EXCEPT ![u] = [at |-> at, bit |-> b, word |-> word]]
UserFrame == UNCHANGED <<vars, use, maker, mode, found, appVars>>

Outputs == {b \in Bits : mode[b] = "OUTPUT"}

PinSet(u, b, on, auto) ==
  /\ CacheSet(b, on)
  /\ Goto(u, IF auto THEN "flush" ELSE "idle", Null, {})
  /\ UNCHANGED chipVars

\* ExpandedGpio::set()
Set(u) ==
  /\ use = "pins" /\ pc[u].at = "idle" /\ Op
  /\ \E b \in Outputs, on \in BOOLEAN, auto \in BOOLEAN : PinSet(u, b, on, auto)
  /\ UserFrame

\* toggle() reads the cache without its mutex, and sets the pin after that.
Get(u) ==
  /\ use = "pins" /\ pc[u].at = "idle" /\ Op
  /\ \E b \in Outputs : Goto(u, "toggle", b, Put({}, b, b \notin data))
  /\ UNCHANGED <<chipVars, cacheVars>> /\ UserFrame

Toggle(u) ==
  /\ pc[u].at = "toggle"
  /\ \E auto \in BOOLEAN :
       PinSet(u, pc[u].bit, pc[u].bit \in pc[u].word, auto)
  /\ UNCHANGED ops /\ UserFrame

\* flush() of a pin, and the flush at the end of set() and toggle()
Flush(u) ==
  /\ use = "pins"
  /\ \/ pc[u].at = "flush" /\ Goto(u, "idle", Null, {}) /\ UNCHANGED ops
     \/ pc[u].at = "idle" /\ Outputs # {} /\ Op /\ UNCHANGED pc
  /\ FlushCache
  /\ UserFrame

-----------------------------------------------------------------------------
(* Making and deleting pins: each register is read and then written.       *)

\* The order of the constructor's set_mask() and clr_mask().
Program(m) ==
  CASE m = "OUTPUT"     -> << <<"IODIR", FALSE>> >>
    [] m = "INPUT"      -> << <<"IODIR", TRUE>>, <<"GPPU", FALSE>> >>
    [] m = "INPUT_PU"   -> << <<"IODIR", TRUE>>, <<"GPPU", TRUE>> >>
    [] m = "IT_RISING"  -> << <<"IODIR", TRUE>>, <<"GPPU", TRUE>>,
                              <<"DEFVAL", TRUE>>, <<"GPINTEN", TRUE>> >>
    [] m = "IT_FALLING" -> << <<"IODIR", TRUE>>, <<"GPPU", TRUE>>,
                              <<"DEFVAL", FALSE>>, <<"GPINTEN", TRUE>> >>

MakerFrame == UNCHANGED <<vars, use, cacheVars, pc, found, appVars>>

Make ==
  /\ use # "keys" /\ maker = NotMaking /\ Op
  /\ \E b \in Bits, m \in Modes :
       /\ mode[b] = "none"
       /\ m \in (IF use = "irq" THEN {"INPUT", "IT_FALLING"} ELSE Modes)
       /\ maker' = [NotMaking EXCEPT !.todo = Program(m), !.bit = b, !.to = m]
  /\ UNCHANGED <<chipVars, mode>> /\ MakerFrame

\* Faulty: leaves the interrupt of the pin enabled.
Delete_Armed ==
  /\ use # "keys" /\ maker = NotMaking /\ Op
  /\ \E b \in Bits : mode[b] # "none" /\ mode' = [mode EXCEPT ![b] = "none"]
  /\ UNCHANGED <<chipVars, maker>> /\ MakerFrame

\* The destructor takes the pin from pins[], then disables its interrupt.
Delete ==
  /\ use # "keys" /\ maker = NotMaking /\ Op
  /\ \E b \in Bits :
       /\ mode[b] # "none"
       /\ mode' = [mode EXCEPT ![b] = "none"]
       /\ maker' = [NotMaking EXCEPT !.todo = << <<"GPINTEN", FALSE>> >>, !.bit = b]
  /\ UNCHANGED chipVars /\ MakerFrame

ReadReg ==
  /\ maker.todo # <<>> /\ maker.read = Null
  /\ maker' = [maker EXCEPT !.read = reg[Head(maker.todo)[1]]]
  /\ UNCHANGED <<chipVars, mode, ops>> /\ MakerFrame

WriteReg ==
  /\ maker.todo # <<>> /\ maker.read # Null
  /\ LET step == Head(maker.todo) IN
       reg' = [reg EXCEPT ![step[1]] = Put(maker.read, maker.bit, step[2])]
  /\ maker' = [maker EXCEPT !.todo = Tail(@), !.read = Null]
  /\ UNCHANGED <<olat, level, intf, mode, ops>> /\ MakerFrame

\* The constructor stores the pin in pins[] when its registers are set.
SetPin ==
  /\ maker.todo = <<>> /\ maker.bit # Null
  /\ mode' = IF maker.to = "none" THEN mode ELSE [mode EXCEPT ![maker.bit] = maker.to]
  /\ maker' = NotMaking
  /\ UNCHANGED <<chipVars, ops>> /\ MakerFrame

-----------------------------------------------------------------------------
(* Interrupts.  The chip pulls its interrupt line when the first enabled   *)
(* input changes, and lets it go when GPIO or INTCAP is read; the edge     *)
(* runs an interrupt handler of the processor.                             *)

\* The application's handler of the line puts the chip's callback.
PutHandler ==
  /\ PushTail(Handler)
  /\ Post
  /\ owed' = [owed EXCEPT ![Handler] = @ + 1]
  /\ UNCHANGED <<dead, putting, killing, runVars, puts>>

Change(b) ==
  /\ use # "pins" /\ Op
  /\ level' = Put(level, b, b \notin level)
  /\ intf' = IF b \in reg["GPINTEN"] THEN intf \cup {b} ELSE intf
  /\ LET edge == intf = {} /\ intf' # {} IN
       /\ woken' = (woken \/ (use = "keys" /\ edge))
       /\ IF use = "irq" /\ edge THEN PutHandler ELSE UNCHANGED vars
  /\ UNCHANGED <<use, reg, olat, cacheVars, pc, maker, mode, found, leds, seen>>

IrqFrame == UNCHANGED <<use, reg, olat, level, cacheVars, pc, maker, mode, appVars, ops>>

\* Faulty: clears the flags at the end, with those that came meanwhile.
OnInterrupt_Late ==
  /\ rpc = "execute" /\ cb = Handler /\ found = {Null}
  /\ found' = intf
  /\ UNCHANGED <<vars, intf>> /\ IrqFrame

\* _on_interrupt() reads INTF and GPIO in one transfer, and so clears the flags.
OnInterrupt ==
  /\ rpc = "execute" /\ cb = Handler /\ found = {Null}
  /\ found' = intf
  /\ intf' = {}
  /\ UNCHANGED vars /\ IrqFrame

\* Faulty: reads the port again for each pin.
CallPin_Again ==
  /\ rpc = "execute" /\ cb = Handler
  /\ \E b \in found \ {Null} : found' = found \ {b}
  /\ intf' = {}
  /\ UNCHANGED vars /\ IrqFrame

\* It calls on_interrupt() of each pin that was flagged and has an object.  A
\* handler that calls get() of an input pin reads GPIO, which clears the flags.
CallPin ==
  /\ rpc = "execute" /\ cb = Handler
  /\ \E b \in found \ {Null} : found' = found \ {b}
  /\ intf' \in {intf, IF HandlersRead THEN {} ELSE intf}
  /\ UNCHANGED vars /\ IrqFrame

\* The dispatcher's run(), in which the handler has these steps.
RunStep ==
  /\ Run
  /\ rpc = "execute" /\ cb = Handler => found = {}
  /\ found' = IF rpc = "execute" THEN {Null} ELSE found
  /\ UNCHANGED intf /\ IrqFrame

\* Another callback of the same dispatcher.
PutOther ==
  /\ use = "irq"
  /\ \E w \in Items \ {Handler} : PutPush(w)
  /\ UNCHANGED <<intf, found>> /\ IrqFrame

PostOther ==
  /\ \E w \in Items \ {Handler} : PutPost(w)
  /\ UNCHANGED <<intf, found>> /\ IrqFrame

-----------------------------------------------------------------------------
(* The keyboard.  One thread switches the lights: leds has no lock.        *)

KeyFrame == UNCHANGED <<vars, use, reg, level, maker, mode, found>>

\* set_led() of a light, whose bit is 0 when it is on, and led_flush()
SetLed(u) ==
  /\ use = "keys" /\ pc[u].at = "idle" /\ Op
  /\ \E b \in Bits, on \in BOOLEAN, flush \in BOOLEAN :
       /\ leds' = Put(leds, b, ~on)
       /\ Goto(u, IF flush THEN "led" ELSE "idle", Null, leds')
  /\ UNCHANGED <<olat, intf, cacheVars, seen, woken>> /\ KeyFrame

LedFlush(u) ==
  /\ use = "keys" /\ pc[u].at = "idle" /\ Op
  /\ Goto(u, "led", Null, leds)
  /\ UNCHANGED <<olat, intf, cacheVars, appVars>> /\ KeyFrame

\* MCP23S17::write() writes to the chip, and then the cache under its mutex.
WriteChip(u) ==
  /\ pc[u].at = "led"
  /\ olat' = pc[u].word
  /\ Goto(u, "cache", Null, pc[u].word)
  /\ UNCHANGED <<intf, cacheVars, appVars, ops>> /\ KeyFrame

WriteCache(u) ==
  /\ pc[u].at = "cache"
  /\ CacheWrite(pc[u].word)
  /\ Goto(u, "idle", Null, {})
  /\ UNCHANGED <<olat, intf, appVars, ops>> /\ KeyFrame

\* The application reads the keys once on_key() has told it to, or only clears
\* the interrupt (clear_interrupt() reads INTCAP), to read them after that.
ReadKeys ==
  /\ woken
  /\ woken' = FALSE
  /\ seen' = level
  /\ intf' = {}
  /\ UNCHANGED <<olat, cacheVars, pc, leds, ops>> /\ KeyFrame

\* Faulty: and takes the event for handled.
ClearInterrupt_Handled ==
  /\ woken /\ intf # {}
  /\ intf' = {}
  /\ woken' = FALSE
  /\ UNCHANGED <<olat, cacheVars, pc, leds, seen, ops>> /\ KeyFrame

ClearInterrupt ==
  /\ woken /\ intf # {}
  /\ intf' = {}
  /\ UNCHANGED <<olat, cacheVars, pc, appVars, ops>> /\ KeyFrame

-----------------------------------------------------------------------------
Lights == CHOOSE u \in Users : TRUE

ExpNext ==
  \/ \E u \in Users : Set(u) \/ Get(u) \/ Toggle(u) \/ Flush(u)
  \/ SetLed(Lights) \/ LedFlush(Lights) \/ WriteChip(Lights) \/ WriteCache(Lights)
  \/ Make \/ Delete \/ ReadReg \/ WriteReg \/ SetPin
  \/ \E b \in Bits : Change(b)
  \/ OnInterrupt \/ CallPin \/ RunStep \/ PutOther \/ PostOther
  \/ ReadKeys \/ ClearInterrupt

allVars == <<vars, expVars>>

ExpSpec == ExpInit /\ [][ExpNext]_allVars

\* The dispatcher runs, a put() that has begun ends, and the application reads
\* the keys when on_key() has told it to.
ExpFairSpec ==
  /\ ExpSpec
  /\ WF_allVars(OnInterrupt) /\ WF_allVars(CallPin) /\ WF_allVars(RunStep)
  /\ WF_allVars(PostOther)
  /\ WF_allVars(ReadKeys)

-----------------------------------------------------------------------------
(* Properties.                                                             *)

\* A cache that is not dirty holds what is on the chip, whenever no write() is
\* between the two ("don't bother if the data is unchanged", mcp23s17.cpp:232).
CleanMeansWritten ==
  ~dirty /\ (\A u \in Users : pc[u].at \notin {"led", "cache"}) => olat = data

\* While no pin is being made, the registers of the chip are those of the modes:
\* directions of the pins that exist, and interrupts of exactly the pins that
\* exist and asked for them.
RegistersFollowModes ==
  maker = NotMaking /\ use # "keys" =>
    /\ \A b \in Bits : mode[b] # "none" =>
         /\ b \in reg["IODIR"] <=> mode[b] # "OUTPUT"
         /\ mode[b] \in {"INPUT_PU", "IT_RISING", "IT_FALLING"} => b \in reg["GPPU"]
         /\ mode[b] = "INPUT" => b \notin reg["GPPU"]
    /\ reg["GPINTEN"] = (IF use = "keys" THEN Bits
                         ELSE {b \in Bits : mode[b] \in {"IT_RISING", "IT_FALLING"}})

\* The callback of the chip is never put while it is still linked, which
\* Deque::push_tail() would not survive: the line has an edge only after the
\* handler has cleared the flags, and so has been popped.
HandlerLinkedOnce == Cardinality({i \in DOMAIN items : items[i] = Handler}) <= 1

\* The program and the chip agree (mcp23s17.cpp:232 and the constructor at 311), and
\* its interrupts are put one at a time: the three above.
ChipAgrees == CleanMeansWritten /\ RegistersFollowModes /\ HandlerLinkedOnce

\* An interrupt of the chip does not stay flagged: the line would be held, and no
\* input would make an edge again.  The handler, or the reader of the keys, comes.
FlagsCleared == intf # {} ~> intf = {}

\* The application ends up with the keys as they are, however they bounce while
\* it handles the interrupt.
KeysAreSeen == use = "keys" /\ seen # level ~> seen = level

\* Every interrupt and every key is answered: the two above (mcp23s17.cpp:551,
\* keyboard.cpp:140).
InputIsSeen == FlagsCleared /\ KeysAreSeen
=============================================================================
