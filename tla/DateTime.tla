------------------------------ MODULE DateTime ------------------------------
(***************************************************************************)
(* DateTime (src/date.cpp): the calendar of the years 0 to 99 of a         *)
(* century, the check of a date, and the comparison of two.  The variables *)
(* are a date that goes on by one day at a time.                           *)
(***************************************************************************)
EXTENDS Naturals, FiniteSetsExt

CONSTANT LastYear   \* bound: the calendar is followed to the end of that year

DateTimeAssumption == LastYear \in 0 .. 99

VARIABLES yy, mm, dd,
  elapsed   \* history: the days gone since the first

dateVars == <<yy, mm, dd, elapsed>>

\* Faulty: a year of the century that is divisible by four only if not the first.
leap_year_Century(y) == y % 4 = 0 /\ y # 0

leap_year(y) == y % 4 = 0

days_in_month(y, m) ==
  IF m = 2 THEN (IF leap_year(y) THEN 29 ELSE 28)
           ELSE IF m \in {4, 6, 9, 11} THEN 30 ELSE 31

days_in_year(y) == IF leap_year(y) THEN 366 ELSE 365

year_day(y, m, d) == d + MapThenSumSet(LAMBDA n : days_in_month(y, n), 1 .. m - 1)

validate_dt(y, m, d) ==
  /\ m \in 1 .. 12
  /\ d \in 1 .. days_in_month(y % 100, m)

\* The first field in which the dates differ decides.
datetime_cmp(a, b) ==
  LET differ == {i \in DOMAIN a : a[i] # b[i]}
      i == Min(differ)
  IN IF differ = {} THEN 0 ELSE a[i] - b[i]

DateInit == yy = 0 /\ mm = 1 /\ dd = 1 /\ elapsed = 0

\* The next of the dates that are valid.
Tomorrow ==
  IF validate_dt(yy, mm, dd + 1) THEN <<yy, mm, dd + 1>>
  ELSE IF validate_dt(yy, mm + 1, 1) THEN <<yy, mm + 1, 1>> ELSE <<yy + 1, 1, 1>>

NextDay ==
  /\ yy <= LastYear
  /\ elapsed' = elapsed + 1
  /\ yy' = Tomorrow[1] /\ mm' = Tomorrow[2] /\ dd' = Tomorrow[3]

DateSpec == DateInit /\ [][NextDay]_dateVars

\* The calendar agrees with the days that have gone: of every four years, one is
\* longer by a day; the days of a year count on through its months; and
\* comparing two days that follow each other finds the later one greater.
CalendarCounts ==
  /\ elapsed = 365 * yy + (yy + 3) \div 4 + year_day(yy, mm, dd) - 1
  /\ year_day(yy, mm, dd) \in 1 .. days_in_year(yy)
  /\ datetime_cmp(Tomorrow, <<yy, mm, dd>>) > 0
=============================================================================
