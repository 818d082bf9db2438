------------------------------- MODULE BDate -------------------------------
(***************************************************************************)
(* The calendar of the kernel (bbasic/dtealgeb.cpp, tol_bdate.h): a date is *)
(* broken down in year, month, day and time, and every move goes through a  *)
(* day index and back.  A date object is moved in steps; index and clock    *)
(* count, beside the code, the day and the hundredths it should be at.      *)
(* Seconds are whole hundredths (SECONDPARTS), as the code rounds them.     *)
(***************************************************************************)
EXTENDS Integers, Sequences

CONSTANTS
  Years,         \* the years whose days are walked one by one
  MoveYears,     \* years from whose days the other moves are made
  Days, Weeks, Months, YearCounts, \* how far they move
  Hundredths     \* and by how many hundredths of a second

VARIABLES
  date,          \* year_, month_, day_, hour_, minute_, second_
  index,         \* days from the day 1899-12-31 to the one it should be
  clock,         \* hundredths of a second into that day
  moved          \* a move has been made, the walk is over

vars == <<date, index, clock, moved>>

-----------------------------------------------------------------------------
(* C++ division and remainder truncate towards zero *)
CDiv(a, b) == IF a >= 0 THEN a \div b ELSE -((-a) \div b)
CRem(a, b) == a - b * CDiv(a, b)

DayNumberZero == 693595
CYCLE400 == 146097
CYCLE100 == 36524
CYCLE4 == 1461
CYCLE1 == 365

Midnight(y, m, d) == [year |-> y, month |-> m, day |-> d, hour |-> 0, minute |-> 0, second |-> 0]
Begin == Midnight(1582, 12, 31)
End == Midnight(2500, 1, 1)
BeginIndex == -115782
EndIndex == 219147

\* The walk begins at years of the calendar; a move may be of any length
ASSUME BDateAssumption ==
  /\ \A y \in Years : y \in Int /\ Begin.year < y /\ y < End.year
  /\ Days \subseteq Int /\ Weeks \subseteq Int /\ Months \subseteq Int
  /\ YearCounts \subseteq Int /\ Hundredths \subseteq Int

DteYearIsLeap(y) == y % 4 = 0 /\ (y % 100 # 0 \/ y % 400 = 0)
DteDaysInYear(y) == IF DteYearIsLeap(y) THEN 366 ELSE 365
DteDaysInMonth(m, y) ==
  IF m = 2 THEN (IF DteYearIsLeap(y) THEN 29 ELSE 28)
  ELSE <<31, 28, 31, 30, 31, 30, 31, 31, 30, 31, 30, 31>>[m]

\* Days of the months before m
DaysOfMonths(m, y) ==
  LET sum[i \in 0 .. 12] == IF i = 0 THEN 0 ELSE sum[i - 1] + DteDaysInMonth(i, y)
  IN  sum[m - 1]

Seconds == 0 .. 5999    \* in hundredths
HasValue(t) ==
  /\ Begin.year < t.year /\ t.year < End.year
  /\ t.month \in 1 .. 12
  /\ t.hour \in 0 .. 23 /\ t.minute \in 0 .. 59 /\ t.second \in Seconds
  /\ t.day \in 1 .. DteDaysInMonth(t.month, t.year)
IsTheBegin(t) == t.day # 0 /\ t.year <= Begin.year
IsTheEnd(t) == t.day # 0 /\ t.year >= End.year

\* Fault: the month weighs too little
HashShort(t) == <<10000 * t.year + 10 * t.month + t.day,
                  360000 * t.hour + 6000 * t.minute + t.second>>

\* Hash: the day as yyyymmdd, the time as a fraction of it (here in hundredths)
Hash(t) == <<10000 * t.year + 100 * t.month + t.day,
             360000 * t.hour + 6000 * t.minute + t.second>>
NotAfter(a, b) ==
  \/ Hash(a)[1] < Hash(b)[1]
  \/ Hash(a)[1] = Hash(b)[1] /\ Hash(a)[2] <= Hash(b)[2]

PutFraction(t, fr) ==
  [t EXCEPT !.hour = fr \div 360000, !.minute = (fr % 360000) \div 6000, !.second = fr % 6000]
\* Fault: the time of the day is not taken from the hash
PutHashOfDay(h) ==
  LET y == h[1] \div 10000
      m == (h[1] - 10000 * y) \div 100
  IN  Midnight(y, m, h[1] - 10000 * y - 100 * m)

PutHash(h) ==
  LET y == h[1] \div 10000
      m == (h[1] - 10000 * y) \div 100
  IN  PutFraction(Midnight(y, m, h[1] - 10000 * y - 100 * m), h[2])

(* The days of whole cycles of 400, 100 and 4 years are counted first; the      *)
(* year that closes a cycle of 4 is counted whole and its last months taken off *)
DayIndex(t) ==
  LET inCycle == t.year % 100
      rest == inCycle % 4
      cycles == (t.year \div 400) * CYCLE400 + ((t.year % 400) \div 100) * CYCLE100
                + (inCycle \div 4) * CYCLE4
      earlier[i \in 0 .. 3] ==
        IF i = 0 THEN 0 ELSE earlier[i - 1] + DteDaysInYear(t.year - i)
      days == IF rest = 0
              THEN cycles - (DteDaysInYear(t.year) - DaysOfMonths(t.month, t.year))
              ELSE cycles + earlier[rest - 1] + DaysOfMonths(t.month, t.year)
  IN  IF NotAfter(t, Begin) THEN BeginIndex
      ELSE IF NotAfter(End, t) THEN EndIndex
      ELSE days + t.day - DayNumberZero

\* Day number d >= 1 of the year y
DayOfYear(y, d) ==
  LET m == CHOOSE i \in 1 .. 12 :
             /\ DaysOfMonths(i, y) < d
             /\ i = 12 \/ d <= DaysOfMonths(i + 1, y)
  IN  [year |-> y, month |-> m, day |-> d - DaysOfMonths(m, y)]

\* The time of the object is left as it is, unless the day is out of range
PutDayIndex(t, i) ==
  LET d == i + DayNumberZero
      d400 == d % CYCLE400
      d100 == d400 % CYCLE100
      d4 == d100 % CYCLE4
      y4 == d4 \div CYCLE1
      d1 == d4 % CYCLE1
      leapEnd == y4 = 4 /\ d1 = 0
      y == (d \div CYCLE400) * 400 + (d400 \div CYCLE100) * 100
           + (d100 \div CYCLE4) * 4 + (IF leapEnd THEN y4 - 1 ELSE y4)
      ymd == IF d400 = 0 THEN [year |-> y, month |-> 12, day |-> 31]
             ELSE IF d400 = CYCLE400 - 1
             THEN [year |-> (d \div CYCLE400) * 400 + 400, month |-> 12, day |-> 30]
             ELSE IF leapEnd THEN DayOfYear(y + 1, 365)
             ELSE IF d1 = 0 THEN [year |-> y, month |-> 12, day |-> 31]
             ELSE DayOfYear(y + 1, d1)
  IN  IF i <= BeginIndex THEN Begin
      ELSE IF i >= EndIndex THEN End
      ELSE [t EXCEPT !.year = ymd.year, !.month = ymd.month, !.day = ymd.day]

\* Fault: days before the fixed Monday are not brought back into the week
WeekDayTruncated(t) == 1 + CRem(DayIndex(t) - DayIndex(Midnight(1995, 3, 27)), 7)

\* 1 is Monday; the fixed day is Monday 27 March 1995
WeekDay(t) ==
  LET difference == 1 + CRem(DayIndex(t) - DayIndex(Midnight(1995, 3, 27)), 7)
  IN  IF difference > 7 THEN 7 - difference
      ELSE IF difference < 1 THEN 7 + difference ELSE difference

-----------------------------------------------------------------------------
(* Moves.  IncDay and what calls it leave alone an object that has no value.    *)
IncDay(t, d) == IF HasValue(t) /\ d # 0 THEN PutDayIndex(t, DayIndex(t) + d) ELSE t

\* To the w-th Monday after (before, if negative) the date
IncWeek(t, w) ==
  LET wd == WeekDay(t)
  IN  IF wd = 1 \/ w = 0 THEN IncDay(t, 7 * w)
      ELSE IF w > 0 THEN IncDay(IncDay(t, 8 - wd), 7 * (w - 1))
      ELSE IncDay(IncDay(t, 1 - wd), 7 * (w + 1))

\* To the first day of the m-th month after; whole years are added first
IncMonth(t, m) ==
  LET month0 == t.month - 1 + CRem(m, 12)
  IN  [t EXCEPT !.year = t.year + CDiv(m, 12) + month0 \div 12,
                !.month = (month0 % 12) + 1,
                !.day = 1]

IncYear(t, y) ==
  LET base == IF t.month = 1 \/ y = 0 THEN <<t, y>>
              ELSE IF y > 0 THEN <<IncMonth(t, 13 - t.month), y - 1>>
              ELSE <<IncMonth(t, 1 - t.month), y + 1>>
  IN  [base[1] EXCEPT !.day = 1, !.month = 1, !.year = base[1].year + base[2]]

\* Fault: a negative hour is not brought back into the day
IncHourTruncated(t, h) ==
  IF h = 0 THEN t
  ELSE [IncDay(t, CDiv(h + t.hour, 24)) EXCEPT !.hour = CRem(h + t.hour, 24)]

\* The remainders are made positive, so that the carry is the floor
IncHour(t, h) ==
  IF h = 0 THEN t
  ELSE [IncDay(t, (h + t.hour) \div 24) EXCEPT !.hour = (h + t.hour) % 24]
IncMinute(t, m) ==
  IF m = 0 THEN t
  ELSE [IncHour(t, (m + t.minute) \div 60) EXCEPT !.minute = (m + t.minute) % 60]
IncSecond(t, s) ==
  IF s = 0 THEN t
  ELSE [IncMinute(t, (s + t.second) \div 6000) EXCEPT !.second = (s + t.second) % 6000]

-----------------------------------------------------------------------------
(* Easter Sunday: the full moon of the year by its place in the cycle of 19,    *)
(* as a day of March (32 is 1 April), for the years up to 1699, 1899 and later, *)
(* and seven exceptions; then the Sunday after it.                              *)
FullMoon1583 == <<43, 32, 21, 40, 29, 48, 37, 26, 45, 34, 23, 42, 31, 50, 39, 28, 47, 36, 25>>
FullMoon1700 == <<44, 33, 22, 41, 30, 49, 38, 27, 46, 35, 24, 43, 32, 21, 40, 29, 48, 37, 26>>
FullMoon1900 == <<45, 34, 23, 42, 31, 50, 39, 28, 47, 36, 25, 44, 33, 22, 41, 30, 49, 38, 27>>

\* Fault: the old table used for a century more
FullMoonLate(year) ==
  LET table == IF year <= 1699 THEN FullMoon1583
               ELSE IF year <= 1999 THEN FullMoon1700 ELSE FullMoon1900
      day == table[(year % 19) + 1]
  IN  IF day > 31 THEN Midnight(year, 4, day - 31) ELSE Midnight(year, 3, day)

FullMoon(year) ==
  LET table == IF year <= 1699 THEN FullMoon1583
               ELSE IF year <= 1899 THEN FullMoon1700 ELSE FullMoon1900
      day == table[(year % 19) + 1]
  IN  IF day > 31 THEN Midnight(year, 4, day - 31) ELSE Midnight(year, 3, day)

DteEasterSunday(year) ==
  IF year <= Begin.year THEN Begin
  ELSE IF year >= End.year THEN End
  ELSE IF year \in {1954, 2049, 2106} THEN Midnight(year, 4, 18)
  ELSE IF year \in {1609, 1981, 2076, 2133} THEN Midnight(year, 4, 19)
  ELSE LET after == IncDay(FullMoon(year), 1)
           k == CHOOSE i \in 0 .. 6 : WeekDay(IncDay(after, i)) = 7
       IN  IncDay(after, k)

-----------------------------------------------------------------------------
(* What the calendar is: the day a year begins, counted from the rule of leap   *)
(* years alone, and the place of every day in it.                               *)
FirstOfYear(y) ==
  365 * (y - 1) + ((y - 1) \div 4) - ((y - 1) \div 100) + ((y - 1) \div 400) + 1 - DayNumberZero
FirstOfMonth(y, m) ==
  FirstOfYear(y) + ((367 * m - 362) \div 12)
  - (IF m <= 2 THEN 0 ELSE IF FirstOfYear(y + 1) - FirstOfYear(y) = 366 THEN 1 ELSE 2)
Monday(i) == i - ((i - 1) % 7)      \* 1900-01-01, the day 1, was a Monday
InRange(i) == IF i <= BeginIndex THEN BeginIndex ELSE IF i >= EndIndex THEN EndIndex ELSE i

DayHundredths == 8640000

Init ==
  /\ \E y \in Years : date = Midnight(y, 1, 1) /\ index = FirstOfYear(y)
  /\ clock = 0
  /\ moved = FALSE

Place(i) == index' = InRange(i) /\ UNCHANGED clock

Walk ==
  /\ ~moved
  /\ date.month # 12 \/ date.day # 31
  /\ date' = IncDay(date, 1)
  /\ Place(index + 1)
  /\ UNCHANGED moved

Moving == date.year \in MoveYears /\ ~moved /\ moved' = TRUE

MoveDay(d) == Moving /\ date' = IncDay(date, d) /\ Place(index + d)
MoveWeek(w) ==
  /\ Moving
  /\ date' = IncWeek(date, w)
  /\ Place(IF w = 0 THEN index ELSE Monday(IF w > 0 THEN index ELSE index + 6) + 7 * w)
MoveMonth(m) ==
  LET months == 12 * date.year + date.month - 1 + m
  IN  /\ Moving
      /\ date' = IncMonth(date, m)
      /\ Place(FirstOfMonth(months \div 12, (months % 12) + 1))
MoveYear(y) ==
  LET next == date.year + (IF y < 0 /\ date.month > 1 THEN y + 1 ELSE y)
  IN  /\ Moving
      /\ date' = IncYear(date, y)
      /\ Place(FirstOfYear(next))
MoveTime(s) ==
  /\ Moving
  /\ date' = IncSecond(date, s)
  /\ index' = InRange(index + ((clock + s) \div DayHundredths))
  /\ clock' = (clock + s) % DayHundredths

Next ==
  \/ Walk
  \/ \E d \in Days : MoveDay(d)
  \/ \E w \in Weeks : MoveWeek(w)
  \/ \E m \in Months : MoveMonth(m)
  \/ \E y \in YearCounts : MoveYear(y)
  \/ \E s \in Hundredths : MoveTime(s)

Spec == Init /\ [][Next]_vars

-----------------------------------------------------------------------------
(* Every move lands on the day and the time it should: the index of the object   *)
(* is the day counted beside it, through leap years, ends of cycles of 4, 100   *)
(* and 400 years, and carries of the time; past an end of time the date is seen *)
(* as that end (dtealgeb.cpp:308-337, 486-534, 1075-1272; tol_bdate.h:265-267). *)
IndexCountsDays ==
  /\ DayIndex(date) = index
  /\ HasValue(date) <=> (BeginIndex < index /\ index < EndIndex)
  /\ IsTheBegin(date) <=> index = BeginIndex
  /\ IsTheEnd(date) <=> index = EndIndex
  /\ HasValue(date) =>
       360000 * date.hour + 6000 * date.minute + date.second = clock

(* A day is taken to its index and to its hash and back without change           *)
(* (dtealgeb.cpp:538-615, 1030-1070).                                           *)
DayIsKept ==
  HasValue(date) =>
    /\ PutDayIndex(date, index) = date
    /\ PutHash(Hash(date)) = date

(* The day of the week goes round with the days (dtealgeb.cpp:684-710).          *)
WeekGoesRound == HasValue(date) => WeekDay(date) = ((index - 1) % 7) + 1

\* Easter by the rule of the Gregorian calendar, with no table
GregorianEaster(y) ==
  LET golden == y % 19
      century == y \div 100
      moon == (19 * golden + century - century \div 4
               - (century - (century + 8) \div 25 + 1) \div 3 + 15) % 30
      sunday == (32 + 2 * (century % 4) + 2 * ((y % 100) \div 4) - moon - ((y % 100) % 4)) % 7
      day == moon + sunday - 7 * ((golden + 11 * moon + 22 * sunday) \div 451) + 114
  IN  Midnight(y, day \div 31, (day % 31) + 1)

(* "Returns the date of the Easter's Sunday in the year" (dtealgeb.cpp:808), for *)
(* the years its table is written for.                                          *)
EasterByTheTable ==
  (date = Midnight(date.year, 1, 1) /\ date.year \in 1583 .. 2199) =>
    DteEasterSunday(date.year) = GregorianEaster(date.year)

(* Dates compare as their hashes, and the hashes as the days: a move forward is  *)
(* seen as one, as the search for a successor needs (dtealgeb.cpp:1030-1050,    *)
(* 1348-1394; tmsgrav.cpp:72-86).                                                   *)
OrderOfHashes ==
  [][/\ index' > index => ~NotAfter(date', date)
     /\ index' < index => ~NotAfter(date, date')]_vars
=============================================================================
