------------------------------- MODULE I2cBus -------------------------------
(***************************************************************************)
(* The bit-banged I2C controller (src/drivers/i2c_bitbang.cpp), pin by     *)
(* pin, against the peripheral that the unit test simulates: I2CSim of     *)
(* src/unit-tests/i2c.cpp, which counts the edges of the two wires and     *)
(* checks them against a sequence of the transfers it expects.             *)
(*                                                                         *)
(* A call of the controller is a program of pin operations; what follows a *)
(* byte depends on its acknowledgement.                                    *)
(***************************************************************************)
EXTENDS Naturals, Sequences, SequencesExt, FiniteSetsExt

CONSTANTS
  Bytes,      \* the data written, sequences of 8 bits, the first sent first
  MaxLen,     \* how many are written or read in a call
  MaxCalls    \* bound: how many calls are made

I2cAssumption == \A b \in Bytes : b \in [1 .. 8 -> 0 .. 1]

VARIABLES
  scl, sda,      \* what the controller drives (scl_state, sda_state)
  pull,          \* the peripheral holds sda low (~sda_response)
  bit, stopped,  \* the peripheral's count of the bits
  sequence,      \* what it expects: its states, with the acknowledgements
  wrong,         \* an expectation of the peripheral failed
  call,          \* the controller's call, or what it returned
  todo,          \* the pin operations left of start(), io() or stop()
  in,            \* the bits read in this byte
  calls

i2cVars == <<scl, sda, pull, bit, stopped, sequence, wrong, call, todo, in, calls>>

NoCall == [kind |-> "none", wr |-> <<>>, rd |-> 0, phase |-> "idle", ok |-> TRUE]

I2cInit ==
  /\ scl = 1
  /\ sda = 1
  /\ pull = FALSE
  /\ bit = 0
  /\ stopped = TRUE
  /\ sequence = <<>>
  /\ wrong = FALSE
  /\ call = NoCall
  /\ todo = <<>>
  /\ in = <<>>
  /\ calls = 0

Op(p, v) == [pin |-> p, val |-> v]
Scl(v) == Op("scl", v)
Sda(v) == Op("sda", v)
Get == Op("get", 0)

restart == <<Sda(1), Scl(1), Sda(0), Scl(0)>>
start == <<Scl(1), Sda(0), Scl(0)>>
stop == <<Sda(0), Scl(1), Sda(1)>>

\* Faulty: changes sda while scl is still high.
bit_io_High(b) == <<Scl(1), Sda(b), Get, Scl(0)>>

bit_io(b) == <<Sda(b), Scl(1), Get, Scl(0)>>

ack == <<Sda(1)>> \o bit_io(1)
io(byte) == FlattenSeq([i \in 1 .. 8 |-> bit_io(byte[i])]) \o ack

High == [i \in 1 .. 8 |-> 1]

\* The address of the peripheral, to write and to read.
WR == [i \in 1 .. 8 |-> IF i = 2 THEN 1 ELSE 0]
RD == [WR EXCEPT ![8] = 1]

\* A peripheral that expects the transfers of the call, and acknowledges the
\* first n of them.
Expects(states, n) ==
  LET bytes == [i \in DOMAIN states |-> [state |-> states[i], ack |-> i <= n]]
      until == Min({i \in DOMAIN bytes : states[i] # "RESTART" /\ ~bytes[i].ack} \cup {Len(bytes)})
  IN <<[state |-> "START", ack |-> FALSE]>> \o SubSeq(bytes, 1, until)
       \o <<[state |-> "STOP", ack |-> FALSE]>>

Call(kind, wr, rd, states) ==
  /\ call.phase = "idle"
  /\ todo = <<>>
  /\ calls < MaxCalls
  /\ calls' = calls + 1
  /\ call' = [kind |-> kind, wr |-> wr, rd |-> rd, phase |-> "start", ok |-> TRUE]
  /\ todo' = start
  /\ \E n \in 0 .. Len(states) : sequence' = Expects(states, n)
  /\ UNCHANGED <<scl, sda, pull, bit, stopped, wrong, in>>

\* probe() is a read of nothing.
probe == Call("read", <<>>, 0, <<"RX">>)
write == \E n \in 0 .. MaxLen : \E w \in [1 .. n -> Bytes] : Call("write", w, 0, [i \in 1 .. n + 1 |-> "RX"])
read == \E n \in 1 .. MaxLen : Call("read", <<>>, n, <<"RX">> \o [i \in 1 .. n |-> "TX"])
write_read ==
  \E n \in 1 .. MaxLen, b \in Bytes :
    Call("write_read", <<b>>, n, <<"RX", "RX", "RESTART", "RX">> \o [i \in 1 .. n |-> "TX"])

\* I2CSim::pop()
Pop(s) ==
  IF sequence = <<>> THEN wrong' = TRUE /\ UNCHANGED sequence
  ELSE /\ wrong' = (wrong \/ Head(sequence).state # s)
       /\ sequence' = Tail(sequence)

\* I2CSim::set_sda(): a change while scl is high is a start or a stop.
SetSda(v) ==
  /\ sda' = v
  /\ IF v = sda \/ scl = 0 THEN UNCHANGED <<pull, bit, stopped, sequence, wrong>>
     ELSE IF v = 0
       THEN /\ Pop(IF stopped THEN "START" ELSE "RESTART")
            /\ bit' = 99       \* -1: the falling edge of start() makes it 0
            /\ stopped' = FALSE
            /\ pull' = FALSE
       ELSE /\ Pop("STOP")
            /\ stopped' = TRUE
            /\ pull' = FALSE
            /\ UNCHANGED bit
  /\ UNCHANGED <<scl, in>>

Next99(b) == IF b = 99 THEN 0 ELSE b + 1

\* I2CSim::set_scl(): counts on the falling edge, acknowledges after the eighth
\* bit, and takes the transfer off the sequence after the ninth.
SetScl(v) ==
  /\ scl' = v
  /\ IF v = scl \/ v = 1 THEN UNCHANGED <<pull, bit, sequence, wrong>>
     ELSE LET item == IF sequence = <<>> THEN [state |-> "NONE", ack |-> FALSE] ELSE Head(sequence)
              counts == item.state # "STOP"
          IN /\ pull' = (bit = 7 /\ item.state # "NONE" /\ item.ack)
             /\ IF counts /\ Next99(bit) = 9 /\ sequence # <<>>
                  THEN /\ sequence' = Tail(sequence)
                       /\ bit' = 0
                       /\ UNCHANGED wrong
                  ELSE /\ bit' = IF counts THEN Next99(bit) ELSE bit
                       /\ wrong' = (wrong \/ (bit = 7 /\ item.state \notin {"NONE", "RX", "TX"}))
                       /\ UNCHANGED sequence
  /\ UNCHANGED <<sda, stopped, in>>

Pin ==
  /\ todo # <<>>
  /\ todo' = Tail(todo)
  /\ LET o == Head(todo) IN
       CASE o.pin = "sda" -> SetSda(o.val)
         [] o.pin = "scl" -> SetScl(o.val)
         [] OTHER -> /\ in' = Append(in, IF pull THEN 0 ELSE sda)
                     /\ UNCHANGED <<scl, sda, pull, bit, stopped, sequence, wrong>>
  /\ UNCHANGED <<call, calls>>

Acked == Last(in) = 0

Then(phase, ops) ==
  /\ call' = [call EXCEPT !.phase = phase]
  /\ todo' = ops
  /\ in' = <<>>
  /\ UNCHANGED <<scl, sda, pull, bit, stopped, sequence, wrong, calls>>

Ready(phase) == todo = <<>> /\ call.phase = phase

\* After start(): the address.
Address == Ready("start") /\ Then("address", io(IF call.kind = "read" THEN RD ELSE WR))

\* A transfer that is not acknowledged ends the call.
Nak ==
  /\ todo = <<>>
  /\ call.phase \in {"address", "data", "again", "in"}
  /\ ~Acked
  /\ call' = [call EXCEPT !.phase = "stop", !.ok = FALSE]
  /\ todo' = stop
  /\ in' = <<>>
  /\ UNCHANGED <<scl, sda, pull, bit, stopped, sequence, wrong, calls>>

\* The next byte to write.
Write ==
  /\ Ready("address") \/ Ready("data")
  /\ Acked
  /\ call.wr # <<>>
  /\ call' = [call EXCEPT !.phase = "data", !.wr = Tail(@)]
  /\ todo' = io(Head(call.wr))
  /\ in' = <<>>
  /\ UNCHANGED <<scl, sda, pull, bit, stopped, sequence, wrong, calls>>

\* _write_read(): restarts to read.
Restart ==
  /\ Ready("data")
  /\ Acked
  /\ call.wr = <<>>
  /\ call.kind = "write_read"
  /\ Then("again", restart \o io(RD))

\* _read(): the controller releases sda and takes what it finds for the byte and
\* for its acknowledgement, which it leaves to the peripheral.
Read ==
  /\ Ready("address") \/ Ready("again") \/ Ready("in")
  /\ Acked
  /\ call.wr = <<>>
  /\ call.rd > 0
  /\ call' = [call EXCEPT !.phase = "in", !.rd = @ - 1]
  /\ Ready("address") => call.kind = "read"
  /\ todo' = io(High)
  /\ in' = <<>>
  /\ UNCHANGED <<scl, sda, pull, bit, stopped, sequence, wrong, calls>>

Done ==
  /\ todo = <<>>
  /\ call.phase \in {"address", "data", "again", "in"}
  /\ Acked
  /\ call.wr = <<>>
  /\ call.rd = 0
  /\ Then("stop", stop)

Return ==
  /\ Ready("stop")
  /\ call' = [call EXCEPT !.phase = "idle"]
  /\ UNCHANGED <<scl, sda, pull, bit, stopped, sequence, wrong, todo, in, calls>>

I2cNext ==
  \/ probe \/ write \/ read \/ write_read
  \/ Pin \/ Address \/ Nak \/ Write \/ Restart \/ Read \/ Done \/ Return

I2cSpec == I2cInit /\ [][I2cNext]_i2cVars

\* Whatever is written or read and whichever transfer is not acknowledged, the
\* peripheral sees exactly the transfers of the call, from one start to one stop
\* and with no start or stop inside a byte; a call that returned has left the
\* wires high and nothing the peripheral still expects (unit-tests/i2c.cpp:83).
BusIsFramed ==
  /\ ~wrong
  /\ call.phase = "idle" => sequence = <<>> /\ stopped /\ scl = 1 /\ sda = 1 /\ ~pull
=============================================================================
