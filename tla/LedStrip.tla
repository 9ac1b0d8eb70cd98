------------------------------ MODULE LedStrip ------------------------------
(***************************************************************************)
(* A strip of LEDs that the RMT peripheral of the ESP32 sends colours to   *)
(* (src/esp32/rmt_strip.cpp, with the fourth and the fifth ESP-IDF), and   *)
(* the circle of LEDs that shows the time as three hands                   *)
(* (src/drivers/led_strip.cpp).  The peripheral reads the array of bits    *)
(* while it sends, LED by LED, and the program goes on writing to it; the  *)
(* LEDs take over what they received when the line has been still.         *)
(* Rounding of floating-point numbers is left out, time is in degrees.     *)
(***************************************************************************)
EXTENDS Integers, Sequences

CONSTANTS
  nleds,    \* how many LEDs
  Colours,  \* the colours that are set, <<r, g, b>>
  Times,    \* the angles of the hands, <<seconds, minutes, hours>>
  MaxCalls  \* bound: calls of the application

LedAssumption ==
  /\ nleds \in Nat \ {0} /\ MaxCalls \in Nat
  /\ Colours \subseteq (0 .. 255) \X (0 .. 255) \X (0 .. 255)
  /\ Times \subseteq (0 .. 359) \X (0 .. 359) \X (0 .. 359)

VARIABLES
  type, idf,  \* frozen: the LEDs and the version of ESP-IDF
  inited,      \* init() has succeeded
  data,       \* the bytes for each LED, in the order they are sent
  wire,       \* what was sent of the frame: the reset, then LEDs; or Still
  shown,      \* what each LED shows
  rgb,        \* LedCircle::rgb
  task,       \* the LED that draw() is at, nleds for its send(), or Resting
  asked,      \* history: the colour that set() was last called with
  sent,       \* send() has returned true, and set() was not called since
  calls

ledVars == <<type, idf, inited, data, wire, shown, rgb, task, asked, sent, calls>>

Leds == 0 .. nleds - 1
Unset == <<-1, -1, -1>>   \* memory that was never written
Still == <<>>
Reset == Unset
Black == <<0, 0, 0>>
Resting == -1

LedCall == task = Resting /\ calls < MaxCalls /\ calls' = calls + 1

-----------------------------------------------------------------------------
(* The strip                                                               *)

\* init(): the channel and its driver, or encoder, may each fail.
InitStrip ==
  /\ ~inited /\ LedCall
  /\ inited' \in BOOLEAN
  /\ UNCHANGED <<type, idf, data, wire, shown, rgb, task, asked, sent>>

\* rgb(): the byte of its second argument is sent first.
Word(r, g, b) == <<g, r, b>>

\* Faulty: one order for both kinds of LEDs.
Bits_OneOrder(c) == Word(c[1], c[2], c[3])

\* set(), by type
Bits(c) == IF type = "SK68XX" THEN Word(c[2], c[1], c[3]) ELSE Word(c[1], c[2], c[3])

set(led, c) ==
  /\ data' = [data EXCEPT ![led] = Bits(c)]
  /\ asked' = [asked EXCEPT ![led] = c]
  /\ sent' = FALSE

SetLed ==
  /\ LedCall
  /\ \E l \in Leds, c \in Colours : set(l, c)
  /\ UNCHANGED <<type, idf, inited, wire, shown, rgb, task>>

\* set_all()
SetAll ==
  /\ LedCall
  /\ \E c \in Colours :
       data' = [l \in Leds |-> Bits(c)] /\ asked' = [l \in Leds |-> c]
  /\ sent' = FALSE
  /\ UNCHANGED <<type, idf, inited, wire, shown, rgb, task>>

\* The driver takes the frame, or not.
Transmit ==
  \/ wire' = <<Reset>> /\ sent' = TRUE
  \/ UNCHANGED <<wire, sent>>

\* Faulty: counts on a frame that was still being sent.
Send5_TimesOut ==
  IF wire = Still THEN Transmit ELSE sent' = TRUE /\ UNCHANGED wire

\* send() of version 5 waits for the last frame for a second.
Send5 == IF wire = Still THEN Transmit ELSE UNCHANGED <<wire, sent>>

\* That of version 4 waits as long as it takes.
Send4 == wire = Still /\ Transmit

send ==
  /\ IF idf = 4 THEN Send4 ELSE Send5
  /\ UNCHANGED <<type, idf, inited, data, shown, rgb, asked>>

Send == inited /\ LedCall /\ send /\ UNCHANGED task

\* The peripheral: the next LED, and the end of the frame.
SendLed ==
  /\ wire # Still /\ Len(wire) <= nleds
  /\ wire' = Append(wire, data[Len(wire) - 1])
  /\ UNCHANGED <<type, idf, inited, data, shown, rgb, task, asked, sent, calls>>

\* What an LED makes of its three bytes
Decoded(w) == IF type = "SK68XX" THEN w ELSE <<w[2], w[1], w[3]>>

FrameEnds ==
  /\ Len(wire) = nleds + 1
  /\ shown' = [l \in Leds |-> Decoded(wire[l + 2])]
  /\ wire' = Still
  /\ UNCHANGED <<type, idf, inited, data, rgb, task, asked, sent, calls>>

-----------------------------------------------------------------------------
(* The circle                                                              *)

\* calc_angle(): the two LEDs that an angle is between share its brightness.
calc_angle(angle, max) ==
  LET idx == (angle * nleds) \div 360
      rest == (angle * nleds) % 360
  IN [idx0 |-> idx, bright0 |-> (max * (360 - rest)) \div 360,
      idx1 |-> (idx + 1) % nleds, bright1 |-> (max * rest) \div 360]

\* set_angle(): one component, of the two LEDs; with one LED the second counts.
set_angle(circle, colour, hand) ==
  [circle EXCEPT ![hand.idx0][colour] = hand.bright0, ![hand.idx1][colour] = hand.bright1]

\* set_time(): the hands that were there before are not cleared.
SetTime ==
  /\ LedCall
  /\ \E t \in Times :
       LET b == set_angle(rgb, 3, calc_angle(t[1], 64))
           r == set_angle(b, 1, calc_angle(t[2], 128))
       IN rgb' = set_angle(r, 2, calc_angle(t[3], 255))
  /\ UNCHANGED <<type, idf, inited, data, wire, shown, task, asked, sent>>

\* LedCircle::set(), set_all() and clear()
SetCircle ==
  /\ LedCall
  /\ \/ \E l \in Leds, c \in Colours : rgb' = [rgb EXCEPT ![l] = c]
     \/ \E c \in Colours \cup {Black} : rgb' = [l \in Leds |-> c]
  /\ UNCHANGED <<type, idf, inited, data, wire, shown, task, asked, sent>>

Draw ==
  /\ inited /\ LedCall
  /\ task' = 0
  /\ UNCHANGED <<type, idf, inited, data, wire, shown, rgb, asked, sent>>

\* draw() sets one LED after the other.
DrawLed ==
  /\ task \in Leds
  /\ set(task, rgb[task])
  /\ task' = task + 1
  /\ UNCHANGED <<type, idf, inited, wire, shown, rgb, calls>>

\* It does not look at the result of send().
DrawEnds ==
  /\ task = nleds
  /\ send
  /\ task' = Resting
  /\ UNCHANGED calls

-----------------------------------------------------------------------------
LedInit ==
  /\ type \in {"WS2812B", "SK68XX"} /\ idf \in {4, 5}
  /\ inited = FALSE
  /\ data = [l \in Leds |-> Unset] /\ asked = [l \in Leds |-> Unset]
  /\ wire = Still
  /\ shown = [l \in Leds |-> Black]
  /\ rgb = [l \in Leds |-> Unset]
  /\ task = Resting /\ sent = FALSE /\ calls = 0

LedNext ==
  \/ InitStrip \/ SetLed \/ SetAll \/ Send \/ SendLed \/ FrameEnds
  \/ SetTime \/ SetCircle \/ Draw \/ DrawLed \/ DrawEnds

LedSpec == LedInit /\ [][LedNext]_ledVars

\* When a frame that send() accepted has ended, and no LED was set since, every LED
\* shows the colour it was last set to, whatever was being sent while it was set.
StripShows == sent /\ wire = Still => shown = asked
=============================================================================
