----------------------------- MODULE RingBuffer -----------------------------
(***************************************************************************)
(* The two ring buffers: RingBuffer of src/panglos/buffer.h, whose indices *)
(* wrap at the size and which keeps one place free, with its semaphore and *)
(* the consumer that waits; and the ring of the STM32F1 UART               *)
(* (src/stm32/uart_f1.cpp), whose indices run freely and are masked.       *)
(***************************************************************************)
EXTENDS Integers, Sequences

CONSTANTS
  Extent,      \* places in each ring, a power of 2
  Modulus,   \* indices that run freely wrap here
  MaxAdds    \* how many values the producer adds

RingAssumption ==
  /\ Extent \in Nat \ {0, 1}
  /\ Modulus \in Nat \ {0}
  /\ Modulus % Extent = 0

VARIABLES
  kind,     \* which of the two rings: "locked" or "uart"
  in, out,  \* the indices (rx_wr and rx_rd of the UART)
  data,     \* the value at each place
  token,    \* the semaphore, binary
  add,      \* "idle", or "post" between the release of the mutex and post()
  wait,     \* the consumer: "idle", "empty" once it found nothing, "get"
  added,    \* history: the values added, then those drawn
  drawn

ringVars == <<kind, in, out, data, token, add, wait, added, drawn>>

Idx == 0 .. Extent - 1

RingInit ==
  /\ kind \in {"locked", "uart"}
  /\ in = 0
  /\ out = 0
  /\ data \in [Idx -> {0}]
  /\ token = 0
  /\ add = "idle"
  /\ wait = "idle"
  /\ added = <<>>
  /\ drawn = <<>>

After1(i) == IF i + 1 >= Extent THEN 0 ELSE i + 1

Full(i, o) == After1(i) = o

\* The values from out up to in.
Held(i, o, d) ==
  LET n == (i + Extent - o) % Extent IN [k \in 1 .. n |-> d[(o + k - 1) % Extent]]

\* The values are numbered as the producer makes them.
Fresh == Len(added) + 1

\* Faulty: looks for room without looking at the wrap.
AddOne_NoWrap ==
  /\ kind = "locked"
  /\ add = "idle"
  /\ Fresh <= MaxAdds
  /\ IF in + 1 = out THEN UNCHANGED <<in, data, added>>
     ELSE /\ data' = [data EXCEPT ![in] = Fresh]
          /\ in' = After1(in)
          /\ added' = Append(added, Fresh)
  /\ add' = "post"
  /\ UNCHANGED <<kind, out, token, wait, drawn>>

\* add(c): the value is dropped when the ring is full; posts either way.
AddOne ==
  /\ kind = "locked"
  /\ add = "idle"
  /\ Fresh <= MaxAdds
  /\ IF Full(in, out) THEN UNCHANGED <<in, data, added>>
     ELSE /\ data' = [data EXCEPT ![in] = Fresh]
          /\ in' = After1(in)
          /\ added' = Append(added, Fresh)
  /\ add' = "post"
  /\ UNCHANGED <<kind, out, token, wait, drawn>>

Posted ==
  /\ add = "post"
  /\ add' = "idle"
  /\ token' = 1
  /\ UNCHANGED <<kind, in, out, data, wait, added, drawn>>

\* add(s, n): holds the mutex for all of them, and does not post when the ring
\* has no room for the last.
AddMany(n) ==
  LET room == (Extent - 1) - Len(Held(in, out, data))
      m == IF n < room THEN n ELSE room
  IN /\ kind = "locked"
     /\ add = "idle"
     /\ Len(added) + n <= MaxAdds
     /\ data' = [p \in Idx |->
                  IF \E k \in 0 .. m - 1 : p = (in + k) % Extent
                  THEN Fresh + ((p + Extent - in) % Extent) ELSE data[p]]
     /\ in' = (in + m) % Extent
     /\ added' = added \o [k \in 1 .. m |-> Len(added) + k]
     /\ token' = IF m = n THEN 1 ELSE token
     /\ UNCHANGED <<kind, out, add, wait, drawn>>

\* get(s, n)
GetOne(n) ==
  LET held == Held(in, out, data)
      m == IF n < Len(held) THEN n ELSE Len(held)
  IN /\ kind = "locked"
     /\ wait = "get"
     /\ out' = (out + m) % Extent
     /\ drawn' = drawn \o SubSeq(held, 1, m)
     /\ wait' = "idle"
     /\ UNCHANGED <<kind, in, data, token, add, added>>

\* wait(): does not wait when there is something.
Look ==
  /\ kind = "locked"
  /\ wait = "idle"
  /\ wait' = IF in = out THEN "empty" ELSE "get"
  /\ UNCHANGED <<kind, in, out, data, token, add, added, drawn>>

\* The semaphore or the timeout ends the wait; then it looks again.
Wake ==
  /\ wait = "empty"
  /\ token' = 0
  /\ wait' = IF in = out THEN "idle" ELSE "get"
  /\ UNCHANGED <<kind, in, out, data, add, added, drawn>>

\* reset(): what was held is lost to the reader.
Reset ==
  /\ kind = "locked"
  /\ in # out
  /\ in' = out
  /\ added' = SubSeq(added, 1, Len(added) - Len(Held(in, out, data)))
  /\ UNCHANGED <<kind, out, data, token, add, wait, drawn>>

Next1(i) == (i + 1) % Modulus

\* buff_write(), in the interrupt.  Its test for a full ring compares indices
\* that run freely, so that it is true only when they are a whole Modulus apart.
buff_write ==
  /\ kind = "uart"
  /\ Fresh <= MaxAdds
  /\ IF Next1(in) = out THEN UNCHANGED <<in, data, added>>
     ELSE /\ data' = [data EXCEPT ![in % Extent] = Fresh]
          /\ in' = Next1(in)
          /\ added' = Append(added, Fresh)
  /\ UNCHANGED <<kind, out, token, add, wait, drawn>>

\* rx() of one character, which an interrupt may precede or follow.
rx ==
  /\ kind = "uart"
  /\ in # out
  /\ drawn' = Append(drawn, data[out % Extent])
  /\ out' = Next1(out)
  /\ UNCHANGED <<kind, in, data, token, add, wait, added>>

RingNext ==
  \/ AddOne \/ Posted \/ Look \/ Wake \/ Reset
  \/ \E n \in 1 .. Extent : AddMany(n) \/ GetOne(n)
  \/ buff_write \/ rx

RingSpec == RingInit /\ [][RingNext]_ringVars

\* Whatever the producer, the consumer and reset() do between each other's
\* steps, what the reader gets is what was added and not reset, in its order,
\* without a gap, and what is held is the rest of it (src/panglos/buffer.h).
RingIsFifo ==
  kind = "locked" => added = drawn \o Held(in, out, data)

\* A reader of the UART that does not fall behind by more than the ring gets what
\* arrived, in its order, also when the indices wrap; one that does still reads
\* from each place a character that arrived for it, later ones instead of those
\* overwritten (src/stm32/uart_f1.cpp:84).
UartKeepsPlaces ==
  kind = "uart" =>
    /\ \A i \in DOMAIN drawn : drawn[i] >= i /\ (drawn[i] - i) % Extent = 0
    /\ LET n == (in - out) % Modulus IN
         n <= Extent => \A k \in 0 .. n - 1 : data[(out + k) % Extent] = Len(drawn) + k + 1

\* Both: characters come out of the rings in the order in which they went in.
RingsAreKept == RingIsFifo /\ UartKeepsPlaces
=============================================================================
