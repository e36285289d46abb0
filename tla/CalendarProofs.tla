--------------------------- MODULE CalendarProofs ---------------------------
(* What a step of the Fortran runtime's calendar does, for every date.        *)
EXTENDS Calendar, TLAPS

(* days_in_month knows the length of every month.                             *)
LEMMA MonthLengths ==
  ASSUME NEW y \in Nat, NEW mo \in 1..12
  PROVE  DaysInMonth(y, mo) = LastDay(y, mo) /\ DaysInMonth(y, mo) \in 28..31
<1>1. Leap(y) \in BOOLEAN
  BY DEF Leap
<1> QED BY <1>1 DEF DaysInMonth, LastDay

(* A year has 365 days, and one more if it is a leap year.                     *)
LEMMA YearLengths ==
  ASSUME NEW y \in Nat \ {0}
  PROVE  /\ DaysBeforeYear(y) \in Int
         /\ DaysBeforeYear(y + 1) = DaysBeforeYear(y) + (IF Leap(y) THEN 366 ELSE 365)
<1>1. y \div 4 - (y - 1) \div 4 = (IF y % 4 = 0 THEN 1 ELSE 0)
  OBVIOUS
<1>2. y \div 100 - (y - 1) \div 100 = (IF y % 100 = 0 THEN 1 ELSE 0)
  OBVIOUS
<1>3. y \div 400 - (y - 1) \div 400 = (IF y % 400 = 0 THEN 1 ELSE 0)
  OBVIOUS
<1>4. (y % 400 = 0 => y % 100 = 0) /\ (y % 100 = 0 => y % 4 = 0)
  OBVIOUS
<1>5. y + 1 - 1 = y
  OBVIOUS
<1> QED BY <1>1, <1>2, <1>3, <1>4, <1>5 DEF DaysBeforeYear, Leap

(* The months before a month are the months before the one before and that one. *)
LEMMA MonthSums ==
  ASSUME NEW y \in Nat \ {0}
  PROVE  /\ \A mo \in 1..12 : DaysBeforeMonth(y, mo) \in Nat
         /\ \A mo \in 1..11 : DaysBeforeMonth(y, mo + 1) = DaysBeforeMonth(y, mo) + LastDay(y, mo)
         /\ DaysBeforeMonth(y, 1) = 0
         /\ DaysBeforeMonth(y, 12) + 31 = (IF Leap(y) THEN 366 ELSE 365)
<1>1. Leap(y) \in BOOLEAN
  BY DEF Leap
<1> QED BY <1>1 DEF DaysBeforeMonth, LastDay

(* inc_day leads from every date to the next one.                              *)
THEOREM NextDay ==
  ASSUME NEW date, IsDate(date)
  PROVE  IsDate(IncDay(date)) /\ DayNumber(IncDay(date)) = DayNumber(date) + 1
<1> DEFINE y == date.y  mo == date.mo  d == date.d
<1>0. date \in Date /\ date = [y |-> y, mo |-> mo, d |-> d]
  BY DEF IsDate, Date
<1>1. y \in Nat \ {0} /\ mo \in 1..12 /\ d \in 1..31 /\ d <= LastDay(y, mo)
  BY <1>0 DEF IsDate, Date
<1>2. DaysInMonth(y, mo) = LastDay(y, mo) /\ LastDay(y, mo) \in 28..31
  BY <1>1, MonthLengths
<1>3. DaysBeforeYear(y) \in Int /\ DaysBeforeMonth(y, mo) \in Nat
  <2>1. DaysBeforeYear(y) \in Int
    BY <1>1, YearLengths
  <2>2. DaysBeforeMonth(y, mo) \in Nat
    BY <1>1, MonthSums
  <2> QED BY <2>1, <2>2
<1>4. CASE d < DaysInMonth(y, mo)
  <2>1. IncDay(date) = [y |-> y, mo |-> mo, d |-> d + 1]
    BY <1>0, <1>4 DEF IncDay
  <2> HIDE DEF y, mo, d
  <2> QED BY <1>0, <1>1, <1>2, <1>3, <1>4, <2>1 DEF IsDate, Date, DayNumber
<1>5. CASE ~(d < DaysInMonth(y, mo)) /\ mo < 12
  <2>1. IncDay(date) = [y |-> y, mo |-> mo + 1, d |-> 1]
    BY <1>0, <1>5 DEF IncDay
  <2>2. LastDay(y, mo + 1) \in 28..31 /\ mo + 1 \in 1..12
    BY <1>1, <1>5, MonthLengths
  <2>3. DaysBeforeMonth(y, mo + 1) = DaysBeforeMonth(y, mo) + LastDay(y, mo)
    BY <1>1, <1>5, MonthSums
  <2>4. d = LastDay(y, mo)
    BY <1>1, <1>2, <1>5
  <2> HIDE DEF y, mo, d
  <2> QED BY <1>0, <1>1, <1>2, <1>3, <2>1, <2>2, <2>3, <2>4 DEF IsDate, Date, DayNumber
<1>6. CASE ~(d < DaysInMonth(y, mo)) /\ mo = 12
  <2>1. IncDay(date) = [y |-> y + 1, mo |-> 1, d |-> 1]
    BY <1>0, <1>6 DEF IncDay
  <2>2. LastDay(y + 1, 1) \in 28..31 /\ y + 1 \in Nat \ {0}
    BY <1>1, MonthLengths
  <2>3. LastDay(y, mo) = 31
    BY <1>6 DEF LastDay
  <2>4. d = 31
    BY <1>1, <1>2, <1>6, <2>3
  <2>5. DaysBeforeYear(y + 1) = DaysBeforeYear(y) + DaysBeforeMonth(y, 12) + 31
    <3>1. DaysBeforeYear(y + 1) = DaysBeforeYear(y) + (IF Leap(y) THEN 366 ELSE 365)
      BY <1>1, YearLengths
    <3>2. DaysBeforeMonth(y, 12) + 31 = (IF Leap(y) THEN 366 ELSE 365)
      BY <1>1, MonthSums
    <3>3. DaysBeforeMonth(y, 12) \in Nat
      BY <1>1, MonthSums
    <3> HIDE DEF y, mo, d
    <3> QED BY <1>3, <3>1, <3>2, <3>3
  <2>6. DaysBeforeMonth(y + 1, 1) = 0
    BY <2>2, MonthSums
  <2> HIDE DEF y, mo, d
  <2> QED BY <1>0, <1>1, <1>3, <1>6, <2>1, <2>2, <2>4, <2>5, <2>6 DEF IsDate, Date, DayNumber
<1> QED BY <1>1, <1>4, <1>5, <1>6

(* dec_day leads back, save from the first day of year 1.                       *)
THEOREM DayBefore ==
  ASSUME NEW date, IsDate(date), date.y > 1
  PROVE  /\ IsDate(DecDay(date)) /\ DayNumber(DecDay(date)) = DayNumber(date) - 1
         /\ DecDay(date).y \in {date.y, date.y - 1}
<1> DEFINE y == date.y  mo == date.mo  d == date.d
<1>0. date \in Date /\ date = [y |-> y, mo |-> mo, d |-> d]
  BY DEF IsDate, Date
<1>1. y \in Nat \ {0, 1} /\ mo \in 1..12 /\ d \in 1..31 /\ d <= LastDay(y, mo)
  BY <1>0 DEF IsDate, Date
<1>2. DaysBeforeYear(y) \in Int /\ DaysBeforeMonth(y, mo) \in Nat
  <2>1. DaysBeforeYear(y) \in Int
    BY <1>1, YearLengths
  <2>2. DaysBeforeMonth(y, mo) \in Nat
    BY <1>1, MonthSums
  <2> QED BY <2>1, <2>2
<1>3. CASE d > 1
  <2>1. DecDay(date) = [y |-> y, mo |-> mo, d |-> d - 1]
    BY <1>0, <1>3 DEF DecDay
  <2>2. LastDay(y, mo) \in 28..31
    BY <1>1, MonthLengths
  <2> HIDE DEF y, mo, d
  <2> QED BY <1>0, <1>1, <1>2, <1>3, <2>1, <2>2 DEF IsDate, Date, DayNumber
<1>4. CASE d = 1 /\ mo > 1
  <2>1. DecDay(date) = [y |-> y, mo |-> mo - 1, d |-> DaysInMonth(y, mo - 1)]
    BY <1>0, <1>4 DEF DecDay
  <2>2. DaysInMonth(y, mo - 1) = LastDay(y, mo - 1) /\ LastDay(y, mo - 1) \in 28..31
        /\ mo - 1 \in 1..11
    BY <1>1, <1>4, MonthLengths
  <2>3. DaysBeforeMonth(y, (mo - 1) + 1) = DaysBeforeMonth(y, mo - 1) + LastDay(y, mo - 1)
    BY <1>1, <2>2, MonthSums
  <2>4. (mo - 1) + 1 = mo
    BY <1>1
  <2>5. DaysBeforeMonth(y, mo - 1) \in Nat
    BY <1>1, <2>2, MonthSums
  <2> HIDE DEF y, mo, d
  <2> QED BY <1>0, <1>1, <1>2, <1>4, <2>1, <2>2, <2>3, <2>4, <2>5 DEF IsDate, Date, DayNumber
<1>5. CASE d = 1 /\ mo = 1
  <2>1. DecDay(date) = [y |-> y - 1, mo |-> 12, d |-> DaysInMonth(y - 1, 12)]
    BY <1>0, <1>5 DEF DecDay
  <2>2. y - 1 \in Nat \ {0} /\ (y - 1) + 1 = y
    BY <1>1
  <2>3. DaysInMonth(y - 1, 12) = 31 /\ LastDay(y - 1, 12) = 31
    BY DEF DaysInMonth, LastDay
  <2>4. DaysBeforeYear((y - 1) + 1) = DaysBeforeYear(y - 1) + DaysBeforeMonth(y - 1, 12) + 31
    <3>1. DaysBeforeYear((y - 1) + 1) = DaysBeforeYear(y - 1) + (IF Leap(y - 1) THEN 366 ELSE 365)
      BY <2>2, YearLengths
    <3>2. DaysBeforeMonth(y - 1, 12) + 31 = (IF Leap(y - 1) THEN 366 ELSE 365)
      BY <2>2, MonthSums
    <3>3. DaysBeforeYear(y - 1) \in Int
      BY <2>2, YearLengths
    <3>4. DaysBeforeMonth(y - 1, 12) \in Nat
      BY <2>2, MonthSums
    <3> HIDE DEF y, mo, d
    <3> QED BY <3>1, <3>2, <3>3, <3>4
  <2>5. DaysBeforeMonth(y, 1) = 0
    BY <1>1, MonthSums
  <2>6. DaysBeforeYear(y - 1) \in Int
    BY <2>2, YearLengths
  <2>7. DaysBeforeMonth(y - 1, 12) \in Nat
    BY <2>2, MonthSums
  <2> HIDE DEF y, mo, d
  <2> QED BY <1>0, <1>1, <1>2, <1>5, <2>1, <2>2, <2>3, <2>4, <2>5, <2>6, <2>7 DEF IsDate, Date, DayNumber
<1> QED BY <1>1, <1>3, <1>4, <1>5
=============================================================================
