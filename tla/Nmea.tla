-------------------------------- MODULE Nmea --------------------------------
(***************************************************************************)
(* The parser of GPS sentences (src/drivers/nmea.cpp): each sentence that  *)
(* comes updates a Location field by field, and is accepted or not.        *)
(*                                                                         *)
(* A sentence is its text up to the star, a sequence of fields, and what   *)
(* follows the star.  A field is "" or a letter, or a number: the value of *)
(* its digits, how many there are, and whether a point and more digits     *)
(* follow them.                                                            *)
(***************************************************************************)
EXTENDS Integers, Sequences

CONSTANTS
  Sentences,   \* the sentences that may come
  MaxSentences \* bound: how many come

\* The digits of a field make its value.
FieldIs(f) ==
  /\ f.val \in Nat /\ f.len \in Nat
  /\ f.len = 6 => f.val \div 10000 < 100

NmeaAssumption ==
  /\ MaxSentences \in Nat
  /\ \A s \in Sentences : \A i \in 1 .. Len(s.fields) : FieldIs(s.fields[i])

VARIABLES
  loc,     \* the Location: its hms, ymd, lat, lon and alt
  result,  \* what parse() returned last: "none", "true", "false", "crash"
  last,    \* the last sentence
  before,  \* history: the Location before it
  came

nmeaVars == <<loc, result, last, before, came>>

NumberField(v, n, p) == [text |-> "number", val |-> v, len |-> n, point |-> p]
Letter(c) == [text |-> c, val |-> 0, len |-> 0, point |-> FALSE]
IsNumber(f) == f.text = "number"

StartLoc == [hms |-> 0, ymd |-> 0, lat |-> 0, lon |-> 0, alt |-> 0]

NmeaInit ==
  /\ loc = StartLoc
  /\ result = "none"
  /\ last = [type |-> "none", fields |-> <<>>, star |-> "none"]
  /\ before = StartLoc
  /\ came = 0

\* A parser of a field: whether it accepts it, and what it makes of it.
Ok(v) == [ok |-> TRUE, val |-> v]
Bad == [ok |-> FALSE, val |-> 0]

\* parse_int(): no text is 0
parse_int(f) ==
  IF f.text = "" THEN Ok(0) ELSE IF IsNumber(f) THEN IF f.point THEN Bad ELSE Ok(f.val) ELSE Bad

parse_double(f) == IF f.text = "" THEN Ok(0) ELSE IF IsNumber(f) THEN Ok(f.val) ELSE Bad

\* Faulty: takes all the digits for degrees.
parse_latlon_Degrees(f, rose) ==
  IF ~IsNumber(f) \/ rose.text \notin {"N", "E", "S", "W"} THEN Bad
  ELSE Ok(IF rose.text \in {"S", "W"} THEN -60 * f.val ELSE 60 * f.val)

\* parse_latlon(): the two digits before the point and what follows are minutes,
\* those before them degrees, of which there must be one.  In whole minutes.
parse_latlon(f, rose) ==
  IF ~IsNumber(f) THEN Bad
  ELSE IF ~f.point \/ f.len <= 2 \/ rose.text \notin {"N", "E", "S", "W"} THEN Bad
  ELSE LET angle == 60 * (f.val \div 100) + (f.val % 100)
       IN Ok(IF rose.text \in {"S", "W"} THEN -angle ELSE angle)

\* What parse_latlon() leaves at f when the rose is not one.
LatLonLeft(f, old) ==
  IF ~IsNumber(f) THEN old
  ELSE IF ~f.point \/ f.len <= 2 THEN old ELSE 60 * (f.val \div 100) + (f.val % 100)

\* parse_hms(): in seconds; the fraction is cut off.
parse_hms(f) ==
  IF ~IsNumber(f) THEN Bad
  ELSE IF f.len # 6 THEN Bad
  ELSE Ok(3600 * (f.val \div 10000) + 60 * ((f.val \div 100) % 100) + (f.val % 100))

\* parse_dmy(): yyyymmdd.  Only when the first six are digits is the date not 0.
DmyLeft(f) ==
  IF ~IsNumber(f) THEN 0
  ELSE IF f.len < 6 THEN 0
  ELSE LET v == f.val \div (IF f.len = 7 THEN 10 ELSE 1)
       IN 10000 * (2000 + (v % 100)) + 100 * ((v \div 100) % 100) + v \div 10000
parse_dmy(f) == IF IsNumber(f) THEN [ok |-> f.len = 6 /\ ~f.point, val |-> DmyLeft(f)] ELSE Bad

\* checksum(): strtok_r() finds no star in a sentence without one and leaves an
\* empty text, which parse_int() takes for 0.
checksum(s) == s.star = "right" \/ (s.star = "none" /\ s.xor = 0)

\* A step of gga() or rmc(): goes on with the Location, or stops with it.
GoOn(l) == [loc |-> l, ok |-> TRUE]
Stop(l) == [loc |-> l, ok |-> FALSE]
Then(r, next(_)) == IF r.ok THEN next(r.loc) ELSE r

Position(l, p, i) ==
  LET lat == parse_latlon(p[i], p[i + 1])
      lon == parse_latlon(p[i + 2], p[i + 3])
  IN IF ~lat.ok THEN Stop([l EXCEPT !.lat = LatLonLeft(p[i], @)])
     ELSE IF ~lon.ok THEN Stop([l EXCEPT !.lat = lat.val, !.lon = LatLonLeft(p[i + 2], @)])
     ELSE GoOn([l EXCEPT !.lat = lat.val, !.lon = lon.val])

Hms(l, p) == IF parse_hms(p[2]).ok THEN GoOn([l EXCEPT !.hms = parse_hms(p[2]).val]) ELSE Stop(l)

\* strstr(letters, field) finds no text in any
In(f, accepted) == f = Letter("") \/ f \in accepted

Quality == {NumberField(q, 1, FALSE) : q \in 0 .. 2}

gga(l, p, n) ==
  IF n # 15 THEN Stop(l)
  ELSE Then(Hms(l, p), LAMBDA a :
       Then(Position(a, p, 3), LAMBDA b :
         IF ~In(p[7], Quality) \/ ~parse_int(p[8]).ok \/ ~parse_double(p[10]).ok THEN Stop(b)
         ELSE [loc |-> [b EXCEPT !.alt = parse_double(p[10]).val],
               ok |-> In(p[11], {Letter("M")}) /\ parse_double(p[12]).ok /\ In(p[13], {Letter("M")})]))

\* Faulty: reads the date of an inactive sentence without passing its position.
rmc_Void(l, p, n) ==
  IF n \notin {12, 13} THEN Stop(l)
  ELSE Then(Hms(l, p), LAMBDA a :
       IF p[3].text \notin {"A", "V"} THEN Stop(a)
       ELSE LET b == IF p[3].text = "A" THEN Position(a, p, 4) ELSE GoOn(a)
                i == IF p[3].text = "A" THEN 10 ELSE 9
            IN IF b.ok THEN [loc |-> [b.loc EXCEPT !.ymd = DmyLeft(p[i])], ok |-> parse_dmy(p[i]).ok] ELSE b)

rmc(l, p, n) ==
  IF n \notin {12, 13} THEN Stop(l)
  ELSE Then(Hms(l, p), LAMBDA a :
       IF p[3].text \notin {"A", "V"} THEN Stop(a)
       ELSE Then(IF p[3].text = "A" THEN Position(a, p, 4) ELSE GoOn(a), LAMBDA b :
         IF p[3].text = "A" /\ ~(parse_double(p[8]).ok /\ parse_double(p[9]).ok) THEN Stop(b)
         ELSE [loc |-> [b EXCEPT !.ymd = DmyLeft(p[10])], ok |-> parse_dmy(p[10]).ok]))

\* parse(): split() leaves 0 for the last field, so that a sentence of only one
\* has no type to compare.
Parse(s) ==
  /\ came < MaxSentences
  /\ came' = came + 1
  /\ last' = s
  /\ before' = loc
  /\ LET n == Len(s.fields)
         r == IF ~checksum(s) THEN Stop(loc)
              ELSE CASE s.type = "$GPGGA" -> gga(loc, s.fields, n)
                     [] s.type = "$GPRMC" -> rmc(loc, s.fields, n)
                     [] OTHER -> Stop(loc)
     IN IF checksum(s) /\ n = 1
          THEN result' = "crash" /\ UNCHANGED loc
          ELSE /\ loc' = r.loc
               /\ result' = IF r.ok THEN "true" ELSE "false"

NmeaNext == \E s \in Sentences : Parse(s)

NmeaSpec == NmeaInit /\ [][NmeaNext]_nmeaVars

\* An accepted sentence has set every field of the Location that its type
\* carries, to what it says: a position only with its hemisphere and minutes, a
\* date in its own place even when the position is void.  It leaves the others
\* as they were (src/drivers/nmea.cpp:459).
AcceptedIsWhole ==
  result = "true" =>
    LET p == last.fields
        Angle(i) == LET a == 60 * (p[i].val \div 100) + (p[i].val % 100)
                    IN IF p[i + 1].text \in {"S", "W"} THEN -a ELSE a
        Placed == last.type = "$GPGGA" \/ p[3].text = "A"
        i == IF last.type = "$GPGGA" THEN 3 ELSE 4
    IN /\ p[2].len = 6
       /\ loc.hms % 60 = (p[2].val % 100) % 60
       /\ Placed => /\ loc.lat = Angle(i) /\ p[i].len > 2
                    /\ loc.lon = Angle(i + 2) /\ p[i + 2].len > 2
       /\ ~Placed => loc.lat = before.lat /\ loc.lon = before.lon
       /\ IF last.type = "$GPRMC"
            THEN /\ loc.ymd \div 10000 = 2000 + (p[10].val % 100)
                 /\ loc.alt = before.alt
            ELSE loc.ymd = before.ymd
=============================================================================
