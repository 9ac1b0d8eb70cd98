------------------------------ MODULE Sensors -------------------------------
(***************************************************************************)
(* The sensors behind an I2C bus or a serial line, each with its driver:   *)
(*   aht    humidity, with a CRC   (src/drivers/aht25.cpp)                 *)
(*   ds     the clock, in BCD      (src/drivers/ds3231.cpp, rtc.cpp)       *)
(*   bmp    pressure, calibrated   (src/drivers/bmp280.cpp)                *)
(*   pzem   the power meter, Modbus (src/drivers/pzem004t.cpp)             *)
(*   mhz    CO2, packets of a UART (src/drivers/mhz19b.cpp)                *)
(* The line is part of the model: bits of a frame are inverted, a transfer *)
(* stops early, the bytes of a UART come in pieces.  A byte is a number    *)
(* where a checksum is made of it.                                         *)
(***************************************************************************)
EXTENDS Integers, Sequences, SequencesExt, FiniteSetsExt, Bitwise

CONSTANTS
  Raw,        \* the bytes measured
  Dates,      \* the dates that are set
  MaxPackets  \* bound: the packets that the CO2 sensor sends

SensorsAssumption == Raw \subseteq 0 .. 255 /\ MaxPackets \in Nat

VARIABLES
  sensor,   \* frozen: which of them
  at,       \* where the driver is
  chip,     \* what the sensor holds
  sent,     \* what is on the line
  reading   \* what the driver has returned

sensorVars == <<sensor, at, chip, sent, reading>>

None == <<>>
Noise(n) == {{}} \cup {{i} : i \in 0 .. n - 1}
Noise2(n) == {{}} \cup {{i, j} : i \in 0 .. n - 1, j \in 0 .. n - 1}
Received(frame, flips) ==
  [i \in DOMAIN frame |->
     FoldSet(LAMBDA k, b : IF k \div 8 = i - 1 THEN b ^^ (2 ^ (k % 8)) ELSE b, frame[i], flips)]

Return(r) == reading' = r /\ UNCHANGED <<sensor, chip, sent>>

-----------------------------------------------------------------------------
(* AHT25                                                                   *)

\* crc8(), with the eight shifts of a byte as a table.
Shifts8 ==
  LET shift[b \in 0 .. 255, k \in 0 .. 8] ==
        IF k = 0 THEN b
        ELSE LET x == shift[b, k - 1] IN IF x >= 128 THEN ((2 * x) % 256) ^^ 49 ELSE 2 * x
  IN [b \in 0 .. 255 |-> shift[b, 8]]
crc8(data) == FoldLeft(LAMBDA c, d : Shifts8[c ^^ d], 255, data)

\* The answer to a read: the state, and 20 bits each of humidity and temperature.
AhtFrame(busy, v) ==
  LET data == <<IF busy THEN 128 ELSE 24, v, 0, 0, 255, v>> IN Append(data, crc8(data))

\* init(): the reset must be acknowledged; then ten looks at the state.
AhtInit ==
  /\ at = "start"
  /\ \E ack \in BOOLEAN, calibrated \in 0 .. 10 :
       /\ at' = IF ack /\ calibrated < 10 THEN "ready" ELSE "start"
  /\ Return(None)

\* request(), and the sensor that measures; whether it got the command is not seen.
AhtRequest ==
  /\ at = "ready"
  /\ at' = "asked"
  /\ \/ \E v \in Raw, busy \in BOOLEAN : chip' = v /\ sent' = AhtFrame(busy, v)
     \/ UNCHANGED <<chip, sent>>
  /\ reading' = None
  /\ UNCHANGED sensor

\* Faulty: does not look at the CRC.
AhtValue_Unchecked(f) ==
  IF Len(f) # 7 \/ f[1] >= 128 THEN None ELSE <<f[2], f[6]>>

\* What get() makes of the frame received.
AhtValue(f) ==
  IF Len(f) # 7 \/ f[1] >= 128 \/ f[7] # crc8(SubSeq(f, 1, 6)) THEN None
  ELSE <<f[2], f[6]>>

AhtGet ==
  /\ at = "asked"
  /\ at' = "ready"
  /\ \/ \E n \in 0 .. Len(sent) - 1 : Return(AhtValue(SubSeq(sent, 1, n)))
     \/ \E flips \in Noise2(56) : Return(AhtValue(Received(sent, flips)))

-----------------------------------------------------------------------------
(* DS3231                                                                  *)

Calendar == INSTANCE DateTime WITH LastYear <- 99, yy <- 0, mm <- 0, dd <- 0, elapsed <- 0

\* RTC::validate() of a date: second, minute, hour, day, month, year
validate(d) ==
  /\ d[6] \in 2000 .. 2099 /\ d[5] \in 1 .. 12
  /\ d[4] \in 1 .. Calendar!days_in_month(d[6] - 2000, d[5])
  /\ d[3] \in 0 .. 23 /\ d[2] \in 0 .. 59 /\ d[1] \in 0 .. 59

from_bcd(b) == (b % 16) + 10 * (b \div 16)
to_bcd(n) == (n % 10) + 16 * (n \div 10)

\* set(): the fields in the order of the registers, as many as are acknowledged.
RtcSet ==
  /\ \E d \in {x \in Dates : validate(x)}, n \in {3, 8} :
       LET regs == <<to_bcd(d[1]), to_bcd(d[2]), to_bcd(d[3]), 0, to_bcd(d[4]),
                     to_bcd(d[5]), to_bcd(d[6] - 2000)>>
       IN /\ sent' = [i \in 1 .. 7 |-> IF i < n THEN regs[i] ELSE sent[i]]
          /\ chip' = IF n = 8 THEN d ELSE None
  /\ reading' = None /\ UNCHANGED <<sensor, at>>

\* Faulty: the month loses the bit of its tens.
Decoded_Month(r) ==
  <<from_bcd(r[1]), from_bcd(r[2]), from_bcd(r[3] & 63), from_bcd(r[5] & 63),
    from_bcd(r[6] & 15), from_bcd(r[7]) + 2000>>

Decoded(r) ==
  <<from_bcd(r[1]), from_bcd(r[2]), from_bcd(r[3] & 63), from_bcd(r[5] & 63),
    from_bcd(r[6] & 31), from_bcd(r[7]) + 2000>>

\* get() fails unless all registers were read.
RtcGet ==
  /\ \/ Return(Decoded(sent))
     \/ Return(None)
  /\ UNCHANGED at

-----------------------------------------------------------------------------
(* BMP280                                                                  *)

\* init(): the sensor is recognised, reset and set to measure, and its calibration
\* read.  Each step may fail, after what was before it.
BmpInit ==
  /\ at = "start"
  /\ \E done \in 0 .. 5 :
       /\ at' = IF done = 5 THEN "ready" ELSE at
       /\ chip' = CASE done = 0 -> chip
                    [] done \in {1, 2} -> [chip EXCEPT !.measures = FALSE]
                    [] OTHER -> [chip EXCEPT !.measures = TRUE]
       /\ sent' = IF done = 5 THEN "calibrated" ELSE sent
  /\ reading' = None /\ UNCHANGED sensor

\* read(): what was read is converted with the calibration, temperature first as
\* the pressure needs it; the result is that of a comparison which never holds.
BmpRead ==
  /\ at = "ready"
  /\ reading' = [ok |-> FALSE, calibration |-> sent, order |-> <<"temp", "pressure">>]
  /\ UNCHANGED <<sensor, at, chip, sent>>

-----------------------------------------------------------------------------
(* PZEM004T                                                                *)

Addr == 1
READ_REGS == 4

\* crc(): the eight shifts act on the low byte, the high byte moves down.
Shifts16 ==
  LET shift[b \in 0 .. 255, k \in 0 .. 8] ==
        IF k = 0 THEN b
        ELSE LET x == shift[b, k - 1] IN IF x % 2 = 1 THEN (x \div 2) ^^ 40961 ELSE x \div 2
  IN [b \in 0 .. 255 |-> shift[b, 8]]
crc(data) ==
  LET c[i \in 0 .. Len(data)] ==
        IF i = 0 THEN 65535
        ELSE LET p == c[i - 1] IN (p \div 256) ^^ Shifts16[(p % 256) ^^ data[i]]
  IN c[Len(data)]

WithCrc(data) == data \o <<crc(data) % 256, crc(data) \div 256>>

\* The answer to request(): the address, the command, the length and the registers.
\* Other slaves answer on the same line.
PzemRequest ==
  /\ \E v \in Raw, slave \in {Addr, 2} :
       /\ chip' = IF slave = Addr THEN v ELSE -1
       /\ sent' = WithCrc(<<slave, READ_REGS, 20>> \o [i \in 1 .. 20 |-> IF i <= 4 THEN v ELSE 0])
  /\ reading' = None /\ at' = "asked" /\ UNCHANGED sensor

crc_check(f) == Len(f) > 5 /\ WithCrc(SubSeq(f, 1, Len(f) - 2)) = f

get_command(f) == IF ~crc_check(f) \/ f[1] # Addr THEN 0 ELSE f[2]

get16(f, i) == 256 * f[i] + f[i + 1]
get32(f, i) == get16(f, i) + 10000 * get16(f, i + 2)

\* parse(): voltage and current
PzemValue(f) ==
  IF get_command(f) # READ_REGS \/ f[3] # 20 THEN None ELSE <<get16(f, 4), get32(f, 6)>>

PzemParse ==
  /\ at = "asked" /\ at' = "start"
  /\ \/ \E flips \in Noise(Len(sent) * 8) : Return(PzemValue(Received(sent, flips)))
     \/ \E n \in {0, 5, 6, 24} : Return(PzemValue(SubSeq(sent, 1, n)))

-----------------------------------------------------------------------------
(* MH-Z19B: a byte on the line is the number of its packet and its place.  *)

\* request(), and the answer, or one of another command or after a restart
MhzRequest ==
  /\ chip < MaxPackets
  /\ chip' = chip + 1
  /\ sent' = sent \o [i \in 1 .. 9 |-> <<chip + 1, i>>]
  /\ reading' = None /\ UNCHANGED <<sensor, at>>

\* UART::rx() takes what is there, or a part that has come so far.
Taken(f) == SubSeq(f, 1, IF Len(f) < 9 THEN Len(f) ELSE 9)

\* Faulty: does not look at the size.
Accepts_Short(p) == p # <<>> /\ p[1][2] = 1 /\ (Len(p) > 1 => p[2][2] = 2)

\* checksum() is a number that is tested for zero only: it rejects nothing here.
Accepts(p) == Len(p) = 9 /\ p[1][2] = 1 /\ p[2][2] = 2

\* read(): nothing; or a packet; or what does not fit is flushed, and more of it.
MhzRead ==
  /\ \E n \in 0 .. Len(Taken(sent)) :
       LET p == SubSeq(sent, 1, n)
           rest == SubSeq(sent, n + 1, Len(sent))
       IN IF n = 0 THEN reading' = None /\ UNCHANGED sent
          ELSE IF Accepts(p) THEN reading' = p /\ sent' = rest
          ELSE /\ reading' = None
               /\ sent' = SubSeq(rest, Len(Taken(rest)) + 1, Len(rest))
  /\ UNCHANGED <<sensor, at, chip>>

-----------------------------------------------------------------------------
SensorsInit ==
  /\ sensor \in {"aht", "ds", "bmp", "pzem", "mhz"}
  /\ at = "start"
  /\ chip = CASE sensor = "bmp" -> [measures |-> FALSE] [] sensor = "ds" -> None
              [] sensor = "mhz" -> 0 [] OTHER -> -1
  /\ sent = CASE sensor = "ds" -> [i \in 1 .. 7 |-> 0] [] sensor = "bmp" -> "nothing" [] OTHER -> <<>>
  /\ reading = None

SensorsNext ==
  \/ sensor = "aht" /\ (AhtInit \/ AhtRequest \/ AhtGet)
  \/ sensor = "ds" /\ (RtcSet \/ RtcGet)
  \/ sensor = "bmp" /\ (BmpInit \/ BmpRead)
  \/ sensor = "pzem" /\ (PzemRequest \/ PzemParse)
  \/ sensor = "mhz" /\ (MhzRequest \/ MhzRead)

SensorsSpec == SensorsInit /\ [][SensorsNext]_sensorVars

\* What a driver returns was measured, whatever the line does to it: the CRCs find
\* every inverted bit or two of a short frame, and every one of a long frame, and
\* frames of other slaves are refused; every valid date comes back as it was set;
\* a pressure is computed with the calibration of the sensor that was read; a CO2
\* reading is one whole packet, though packets come in pieces.
ReadIsMeasured ==
  CASE sensor = "aht" -> reading # None => reading = <<chip, chip>>
    [] sensor = "ds" -> reading # None /\ chip # None => reading = chip
    [] sensor = "bmp" -> reading # None => reading.calibration = "calibrated" /\ chip.measures
    [] sensor = "pzem" -> reading # None => chip >= 0 /\ reading = <<257 * chip, 257 * chip>>
    [] sensor = "mhz" -> reading # None => reading = [i \in 1 .. 9 |-> <<reading[1][1], i>>]
=============================================================================
