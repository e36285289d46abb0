------------------------------ MODULE Calendar ------------------------------
(***************************************************************************)
(* The calendar of the Fortran runtime (logger.f90), which turns local time  *)
(* into UTC by hand, and a count of days to compare it with.  A date is a     *)
(* record of year, month and day.                                           *)
(***************************************************************************)
EXTENDS Integers

Leap(y) == y % 4 = 0 /\ (y % 100 # 0 \/ y % 400 = 0)

(* Mutant: every fourth year is a leap year.                                  *)
DaysInJulianMonth(y, mo) ==
  IF mo \in {1, 3, 5, 7, 8, 10, 12} THEN 31
  ELSE IF mo = 2 THEN (IF y % 4 = 0 THEN 29 ELSE 28) ELSE 30

DaysInMonth(y, mo) ==
  IF mo \in {1, 3, 5, 7, 8, 10, 12} THEN 31
  ELSE IF mo = 2 THEN (IF Leap(y) THEN 29 ELSE 28) ELSE 30

IncDay(date) ==
  IF date.d < DaysInMonth(date.y, date.mo) THEN [date EXCEPT !.d = @ + 1]
  ELSE IF date.mo < 12 THEN [date EXCEPT !.d = 1, !.mo = @ + 1]
  ELSE [y |-> date.y + 1, mo |-> 1, d |-> 1]

(* Mutant: the year is left as it is on the way back from January.             *)
DecDayInYear(date) ==
  IF date.d > 1 THEN [date EXCEPT !.d = @ - 1]
  ELSE LET mo == IF date.mo > 1 THEN date.mo - 1 ELSE 12
       IN [date EXCEPT !.mo = mo, !.d = DaysInMonth(date.y, mo)]

DecDay(date) ==
  IF date.d > 1 THEN [date EXCEPT !.d = @ - 1]
  ELSE LET mo == IF date.mo > 1 THEN date.mo - 1 ELSE 12
           y == IF date.mo > 1 THEN date.y ELSE date.y - 1
       IN [y |-> y, mo |-> mo, d |-> DaysInMonth(y, mo)]

MinutesPerDay == 1440
-----------------------------------------------------------------------------
(* The Gregorian calendar, for comparison: the days of the years before, of the *)
(* months before and of the month.                                          *)
Date == [y : Nat \ {0}, mo : 1..12, d : 1..31]
LastDay(y, mo) ==
  CASE mo = 2 -> IF Leap(y) THEN 29 ELSE 28
    [] mo \in {4, 6, 9, 11} -> 30
    [] OTHER -> 31
IsDate(date) == date \in Date /\ date.d <= LastDay(date.y, date.mo)

DaysBeforeYear(y) == 365 * (y - 1) + (y - 1) \div 4 - (y - 1) \div 100 + (y - 1) \div 400

DaysBeforeMonth(y, mo) ==
  LET common == CASE mo = 1 -> 0 [] mo = 2 -> 31 [] mo = 3 -> 59 [] mo = 4 -> 90
                  [] mo = 5 -> 120 [] mo = 6 -> 151 [] mo = 7 -> 181 [] mo = 8 -> 212
                  [] mo = 9 -> 243 [] mo = 10 -> 273 [] mo = 11 -> 304 [] mo = 12 -> 334
  IN IF mo > 2 /\ Leap(y) THEN common + 1 ELSE common

DayNumber(date) == DaysBeforeYear(date.y) + DaysBeforeMonth(date.y, date.mo) + date.d
=============================================================================
