---------------------------- MODULE BDate_proofs ----------------------------
(***************************************************************************)
(* Theorems about BDate.  The months and the years are counted first, then  *)
(* the two ways between a day and its index are shown to be the calendar's, *)
(* whatever the day; the moves follow, one lemma each, and the invariant    *)
(* says that the date is on the day counted beside it.                      *)
(***************************************************************************)
EXTENDS BDate, TLAPS

-----------------------------------------------------------------------------
(* The months of a year.                                                   *)

LEMMA MonthLengths ==
  ASSUME NEW y \in Int
  PROVE  /\ DteDaysInMonth(1, y) = 31 /\ DteDaysInMonth(3, y) = 31 /\ DteDaysInMonth(4, y) = 30
         /\ DteDaysInMonth(5, y) = 31 /\ DteDaysInMonth(6, y) = 30 /\ DteDaysInMonth(7, y) = 31
         /\ DteDaysInMonth(8, y) = 31 /\ DteDaysInMonth(9, y) = 30 /\ DteDaysInMonth(10, y) = 31
         /\ DteDaysInMonth(11, y) = 30 /\ DteDaysInMonth(12, y) = 31
         /\ DteDaysInMonth(2, y) \in 28 .. 29
         /\ DteDaysInYear(y) = 337 + DteDaysInMonth(2, y)
BY DEF DteDaysInMonth, DteDaysInYear

LEMMA MonthSums ==
  ASSUME NEW y \in Int, NEW b, b = DteDaysInMonth(2, y)
  PROVE  /\ DaysOfMonths(1, y) = 0 /\ DaysOfMonths(2, y) = 31 /\ DaysOfMonths(3, y) = 31 + b
         /\ DaysOfMonths(4, y) = 62 + b /\ DaysOfMonths(5, y) = 92 + b
         /\ DaysOfMonths(6, y) = 123 + b /\ DaysOfMonths(7, y) = 153 + b
         /\ DaysOfMonths(8, y) = 184 + b /\ DaysOfMonths(9, y) = 215 + b
         /\ DaysOfMonths(10, y) = 245 + b /\ DaysOfMonths(11, y) = 276 + b
         /\ DaysOfMonths(12, y) = 306 + b
<1> DEFINE sum[i \in 0 .. 12] == IF i = 0 THEN 0 ELSE sum[i - 1] + DteDaysInMonth(i, y)
<1>1. sum = [i \in 0 .. 12 |-> IF i = 0 THEN 0 ELSE sum[i - 1] + DteDaysInMonth(i, y)]
  <2> DEFINE s == [i \in 0 .. 12 |->
           IF i = 0 THEN 0 ELSE IF i = 1 THEN 31 ELSE IF i = 2 THEN 31 + b
           ELSE IF i = 3 THEN 62 + b ELSE IF i = 4 THEN 92 + b ELSE IF i = 5 THEN 123 + b
           ELSE IF i = 6 THEN 153 + b ELSE IF i = 7 THEN 184 + b ELSE IF i = 8 THEN 215 + b
           ELSE IF i = 9 THEN 245 + b ELSE IF i = 10 THEN 276 + b ELSE IF i = 11 THEN 306 + b
           ELSE 337 + b]
  <2>1. s = [i \in 0 .. 12 |-> IF i = 0 THEN 0 ELSE s[i - 1] + DteDaysInMonth(i, y)]
    BY MonthLengths
  <2> QED BY <2>1
<1>2. \A m \in 1 .. 12 : DaysOfMonths(m, y) = sum[m - 1]
  BY DEF DaysOfMonths
<1> HIDE DEF sum
<1> QED BY <1>1, <1>2, MonthLengths

(* Each month begins where the one before it ends, the year where December does. *)
LEMMA MonthsFollow ==
  ASSUME NEW y \in Int
  PROVE  /\ \A m \in 1 .. 12 : DaysOfMonths(m, y) \in Nat /\ DteDaysInMonth(m, y) \in 28 .. 31
         /\ DaysOfMonths(1, y) = 0
         /\ \A m \in 1 .. 11 : DaysOfMonths(m + 1, y) = DaysOfMonths(m, y) + DteDaysInMonth(m, y)
         /\ DteDaysInYear(y) = DaysOfMonths(12, y) + 31 /\ DteDaysInYear(y) \in 365 .. 366
         /\ DteDaysInMonth(12, y) = 31 /\ DteDaysInMonth(1, y) = 31
         /\ \A m, n \in 1 .. 12 : m < n => DaysOfMonths(m, y) + DteDaysInMonth(m, y) <= DaysOfMonths(n, y)
<1> DEFINE b == DteDaysInMonth(2, y)
<1>1. \A m \in 1 .. 12 : \/ m = 1 \/ m = 2 \/ m = 3 \/ m = 4 \/ m = 5 \/ m = 6
                         \/ m = 7 \/ m = 8 \/ m = 9 \/ m = 10 \/ m = 11 \/ m = 12
  OBVIOUS
<1> QED BY <1>1, MonthLengths, MonthSums

LEMMA MonthOfYear ==
  ASSUME NEW y \in Int, NEW m \in 1 .. 12
  PROVE  /\ DaysOfMonths(m, y) \in Nat /\ DteDaysInMonth(m, y) \in 28 .. 31
         /\ DteDaysInYear(y) \in 365 .. 366
         /\ DaysOfMonths(m, y) + DteDaysInMonth(m, y) <= DteDaysInYear(y)
<1>1. \A k \in 1 .. 12 : DaysOfMonths(k, y) \in Nat /\ DteDaysInMonth(k, y) \in 28 .. 31
  BY MonthsFollow
<1>2. \A k \in 1 .. 11 : DaysOfMonths(k, y) + DteDaysInMonth(k, y) <= DaysOfMonths(12, y)
  <2>1. \A j, k \in 1 .. 12 : j < k => DaysOfMonths(j, y) + DteDaysInMonth(j, y) <= DaysOfMonths(k, y)
    BY MonthsFollow
  <2> QED BY <2>1
<1>3. DteDaysInMonth(12, y) = 31 /\ DteDaysInYear(y) = DaysOfMonths(12, y) + 31
      /\ DteDaysInYear(y) \in 365 .. 366
  BY MonthsFollow
<1>4. DaysOfMonths(m, y) \in Int /\ DteDaysInMonth(m, y) \in Int
      /\ DaysOfMonths(12, y) \in Int /\ DteDaysInYear(y) \in Int
  BY <1>1, <1>3
<1>5. DaysOfMonths(m, y) + DteDaysInMonth(m, y) <= DteDaysInYear(y)
  <2>1. CASE m = 12
    BY <2>1, <1>3, <1>4
  <2>2. CASE m \in 1 .. 11
    BY <2>2, <1>2, <1>3, <1>4
  <2> QED BY <2>1, <2>2
<1> QED BY <1>1, <1>3, <1>5

(* The day d of a year, by its number, is in the month that DayOfYear chooses. *)
LEMMA DayOfYearIs ==
  ASSUME NEW y \in Int, NEW d \in 1 .. DteDaysInYear(y)
  PROVE  \E m \in 1 .. 12 :
           /\ DayOfYear(y, d) = [year |-> y, month |-> m, day |-> d - DaysOfMonths(m, y)]
           /\ d - DaysOfMonths(m, y) \in 1 .. DteDaysInMonth(m, y)
<1> DEFINE Holds(i) == DaysOfMonths(i, y) < d /\ (i = 12 \/ d <= DaysOfMonths(i + 1, y))
           m == CHOOSE i \in 1 .. 12 : Holds(i)
<1>1. \E i \in 1 .. 12 : Holds(i)
  <2>1. d \in Int /\ 1 <= d /\ d <= DteDaysInYear(y)
    BY MonthsFollow
  <2>2. d <= DaysOfMonths(2, y) \/ d <= DaysOfMonths(3, y) \/ d <= DaysOfMonths(4, y)
        \/ d <= DaysOfMonths(5, y) \/ d <= DaysOfMonths(6, y) \/ d <= DaysOfMonths(7, y)
        \/ d <= DaysOfMonths(8, y) \/ d <= DaysOfMonths(9, y) \/ d <= DaysOfMonths(10, y)
        \/ d <= DaysOfMonths(11, y) \/ d <= DaysOfMonths(12, y) \/ Holds(12)
    BY <2>1, MonthSums, MonthLengths
  <2> QED BY <2>1, <2>2, MonthSums, MonthLengths
<1>2. m \in 1 .. 12 /\ Holds(m)
  BY <1>1
<1>3. DayOfYear(y, d) = [year |-> y, month |-> m, day |-> d - DaysOfMonths(m, y)]
  BY DEF DayOfYear
<1>4. d - DaysOfMonths(m, y) \in 1 .. DteDaysInMonth(m, y)
  <2> HIDE DEF m
  <2>0. /\ \A k \in 1 .. 12 : DaysOfMonths(k, y) \in Nat /\ DteDaysInMonth(k, y) \in 28 .. 31
        /\ \A k \in 1 .. 11 : DaysOfMonths(k + 1, y) = DaysOfMonths(k, y) + DteDaysInMonth(k, y)
        /\ DteDaysInYear(y) = DaysOfMonths(12, y) + DteDaysInMonth(12, y)
    BY MonthsFollow
  <2>1. d \in Int /\ d <= DteDaysInYear(y) /\ DaysOfMonths(m, y) \in Int /\ DteDaysInMonth(m, y) \in Int
    BY <1>2, <2>0
  <2>2. CASE m = 12
    BY <1>2, <2>0, <2>1, <2>2
  <2>3. CASE m # 12
    <3>1. m \in 1 .. 11
      BY <1>2, <2>3
    <3>2. DaysOfMonths(m + 1, y) = DaysOfMonths(m, y) + DteDaysInMonth(m, y)
      BY <3>1, <2>0
    <3> QED BY <1>2, <2>1, <2>3, <3>2
  <2> QED BY <2>2, <2>3
<1> QED BY <1>2, <1>3, <1>4

(* Two days of a year that have the same number are the same. *)
LEMMA OneDay ==
  ASSUME NEW y \in Int, NEW m \in 1 .. 12, NEW n \in 1 .. 12,
         NEW d \in Int, NEW e \in Int, 1 <= d, 1 <= e,
         d <= DteDaysInMonth(m, y), e <= DteDaysInMonth(n, y),
         DaysOfMonths(m, y) + d = DaysOfMonths(n, y) + e
  PROVE  m = n /\ d = e
<1>0. \A k \in 1 .. 12 : DaysOfMonths(k, y) \in Nat /\ DteDaysInMonth(k, y) \in 28 .. 31
  BY MonthsFollow
<1>1. /\ DaysOfMonths(m, y) \in Int /\ DaysOfMonths(n, y) \in Int
      /\ DteDaysInMonth(m, y) \in Int /\ DteDaysInMonth(n, y) \in Int
      /\ d \in Int /\ e \in Int /\ 1 <= d /\ 1 <= e
      /\ d <= DteDaysInMonth(m, y) /\ e <= DteDaysInMonth(n, y)
  BY <1>0
<1>2. ~ m < n
  <2> SUFFICES ASSUME m < n PROVE FALSE
    OBVIOUS
  <2>1. DaysOfMonths(m, y) + DteDaysInMonth(m, y) <= DaysOfMonths(n, y)
    BY MonthsFollow
  <2> QED BY <1>1, <2>1
<1>3. ~ n < m
  <2> SUFFICES ASSUME n < m PROVE FALSE
    OBVIOUS
  <2>1. DaysOfMonths(n, y) + DteDaysInMonth(n, y) <= DaysOfMonths(m, y)
    BY MonthsFollow
  <2> QED BY <1>1, <2>1
<1> QED BY <1>1, <1>2, <1>3

-----------------------------------------------------------------------------
(* The years.                                                              *)

LEMMA YearsFollow ==
  ASSUME NEW y \in Int
  PROVE  FirstOfYear(y) \in Int /\ FirstOfYear(y + 1) = FirstOfYear(y) + DteDaysInYear(y)
<1>1. FirstOfYear(y) \in Int
  BY DEF FirstOfYear, DayNumberZero
<1>2. (y \div 4) - ((y - 1) \div 4) = IF y % 4 = 0 THEN 1 ELSE 0
  OBVIOUS
<1>3. (y \div 100) - ((y - 1) \div 100) = IF y % 100 = 0 THEN 1 ELSE 0
  OBVIOUS
<1>4. (y \div 400) - ((y - 1) \div 400) = IF y % 400 = 0 THEN 1 ELSE 0
  OBVIOUS
<1>5. (y % 100 = 0 => y % 4 = 0) /\ (y % 400 = 0 => y % 100 = 0)
  OBVIOUS
<1>6. (y + 1) - 1 = y
  OBVIOUS
<1> QED BY <1>1, <1>2, <1>3, <1>4, <1>5, <1>6 DEF FirstOfYear, DteDaysInYear, DteYearIsLeap, DayNumberZero

LEMMA YearsAscend ==
  ASSUME NEW y \in Int, NEW z \in Int, y < z
  PROVE  FirstOfYear(y) + DteDaysInYear(y) <= FirstOfYear(z)
<1>1. FirstOfYear(y + 1) <= FirstOfYear(z)
  BY DEF FirstOfYear, DayNumberZero
<1> QED BY <1>1, YearsFollow

-----------------------------------------------------------------------------
(* The index of a day is its place in the calendar.                        *)

DayNumber(y, m, d) == FirstOfYear(y) + DaysOfMonths(m, y) + d - 1

LEMMA Quotients ==
  ASSUME NEW n \in Int, NEW q \in Int, NEW r \in Int, 0 <= r
  PROVE  /\ n = 4 * q + r /\ r < 4 => n \div 4 = q
         /\ n = 100 * q + r /\ r < 100 => n \div 100 = q
         /\ n = 400 * q + r /\ r < 400 => n \div 400 = q
OBVIOUS

LEMMA DaysOfCycles ==
  ASSUME NEW a \in Nat, NEW b \in 0 .. 3, NEW c \in 0 .. 24, NEW r \in 0 .. 3
  PROVE  FirstOfYear(400 * a + 100 * b + 4 * c + r + 1)
           = a * 146097 + b * 36524 + c * 1461 + 365 * r + 1 - DayNumberZero
<1> DEFINE n == 400 * a + 100 * b + 4 * c + r
<1>1. n \in Int /\ (n + 1) - 1 = n
  OBVIOUS
<1>2. n \div 4 = 100 * a + 25 * b + c
  <2>1. n = 4 * (100 * a + 25 * b + c) + r /\ 100 * a + 25 * b + c \in Int
    OBVIOUS
  <2> QED BY <1>1, <2>1, Quotients
<1>3. n \div 100 = 4 * a + b
  <2>1. n = 100 * (4 * a + b) + (4 * c + r) /\ 4 * a + b \in Int /\ 4 * c + r \in 0 .. 99
    OBVIOUS
  <2> QED BY <1>1, <2>1, Quotients
<1>4. n \div 400 = a
  <2>1. n = 400 * a + (100 * b + 4 * c + r) /\ 100 * b + 4 * c + r \in 0 .. 399
    OBVIOUS
  <2> QED BY <1>1, <2>1, Quotients
<1>5. FirstOfYear(n + 1) = 365 * n + (100 * a + 25 * b + c) - (4 * a + b) + a + 1 - DayNumberZero
  BY <1>1, <1>2, <1>3, <1>4 DEF FirstOfYear
<1> QED BY <1>5 DEF DayNumberZero

(* The cycles of 400, 100 and 4 years count the days before a year, or those up  *)
(* to the end of one that closes a cycle of 4.                                *)
LEMMA CyclesCountDays ==
  ASSUME NEW y \in Nat
  PROVE  LET rest == (y % 100) % 4
             cycles == (y \div 400) * CYCLE400 + ((y % 400) \div 100) * CYCLE100
                       + ((y % 100) \div 4) * CYCLE4
         IN  /\ rest \in 0 .. 3 /\ cycles \in Int /\ rest = y % 4
             /\ rest = 0 => cycles = FirstOfYear(y) + DteDaysInYear(y) - 1 + DayNumberZero
             /\ rest # 0 => cycles + 365 * (rest - 1) = FirstOfYear(y) - 1 + DayNumberZero
<1> DEFINE a == y \div 400
           b == (y % 400) \div 100
           c == (y % 100) \div 4
           rest == (y % 100) % 4
           cycles == a * CYCLE400 + b * CYCLE100 + c * CYCLE4
<1>1. a \in Nat /\ b \in 0 .. 3 /\ c \in 0 .. 24 /\ rest \in 0 .. 3 /\ rest = y % 4
  OBVIOUS
<1>2. y = 400 * a + 100 * b + 4 * c + rest
  OBVIOUS
<1>3. cycles = a * 146097 + b * 36524 + c * 1461
  BY DEF CYCLE400, CYCLE100, CYCLE4
<1> SUFFICES /\ rest = 0 => cycles = FirstOfYear(y) + DteDaysInYear(y) - 1 + DayNumberZero
             /\ rest # 0 => cycles + 365 * (rest - 1) = FirstOfYear(y) - 1 + DayNumberZero
  BY <1>1, <1>3
<1> HIDE DEF a, b, c, rest, cycles
<1>4. ASSUME rest = 0 PROVE cycles = FirstOfYear(y + 1) - 1 + DayNumberZero
  <2>1. y + 1 = 400 * a + 100 * b + 4 * c + 0 + 1
    BY <1>1, <1>2, <1>4
  <2>2. FirstOfYear(y + 1) = a * 146097 + b * 36524 + c * 1461 + 365 * 0 + 1 - DayNumberZero
    BY <1>1, <2>1, DaysOfCycles
  <2> QED BY <1>1, <1>3, <2>2 DEF DayNumberZero
<1>5. ASSUME rest # 0 PROVE cycles + 365 * (rest - 1) = FirstOfYear(y) - 1 + DayNumberZero
  <2>1. y = 400 * a + 100 * b + 4 * c + (rest - 1) + 1 /\ rest - 1 \in 0 .. 3
    BY <1>1, <1>2, <1>5
  <2>2. FirstOfYear(y) = a * 146097 + b * 36524 + c * 1461 + 365 * (rest - 1) + 1 - DayNumberZero
    BY <1>1, <2>1, DaysOfCycles
  <2> QED BY <1>1, <1>3, <2>2 DEF DayNumberZero
<1>6. FirstOfYear(y + 1) = FirstOfYear(y) + DteDaysInYear(y) /\ FirstOfYear(y) \in Int /\ DteDaysInYear(y) \in Int
  BY YearsFollow, MonthsFollow
<1> QED BY <1>4, <1>5, <1>6, <1>1, <1>3 DEF DayNumberZero

LEMMA IndexOfDay ==
  ASSUME NEW t, NEW y \in Nat, NEW m \in 1 .. 12, NEW d \in 1 .. 31,
         t.year = y, t.month = m, t.day = d, d <= DteDaysInMonth(m, y),
         ~NotAfter(t, Begin), ~NotAfter(End, t)
  PROVE  DayIndex(t) = DayNumber(y, m, d)
<1> DEFINE rest == (y % 100) % 4
           cycles == (y \div 400) * CYCLE400 + ((y % 400) \div 100) * CYCLE100
                     + ((y % 100) \div 4) * CYCLE4
           earlier[i \in 0 .. 3] == IF i = 0 THEN 0 ELSE earlier[i - 1] + DteDaysInYear(y - i)
           days == IF rest = 0 THEN cycles - (DteDaysInYear(y) - DaysOfMonths(m, y))
                   ELSE cycles + earlier[rest - 1] + DaysOfMonths(m, y)
<1>1. DayIndex(t) = days + d - DayNumberZero
  <2> DEFINE Before(z, n) ==
        LET inCycle == z % 100
            left == inCycle % 4
            whole == (z \div 400) * CYCLE400 + ((z % 400) \div 100) * CYCLE100
                     + (inCycle \div 4) * CYCLE4
            gone[i \in 0 .. 3] == IF i = 0 THEN 0 ELSE gone[i - 1] + DteDaysInYear(z - i)
        IN  IF left = 0 THEN whole - (DteDaysInYear(z) - DaysOfMonths(n, z))
            ELSE whole + gone[left - 1] + DaysOfMonths(n, z)
  <2>1. DayIndex(t) = Before(t.year, t.month) + t.day - DayNumberZero
    BY Zenon DEF DayIndex
  <2>2. Before(y, m) = days
    BY Zenon
  <2> HIDE DEF Before, days
  <2>3. t.year = y /\ t.month = m /\ t.day = d
    OBVIOUS
  <2> QED BY <2>1, <2>2, <2>3
<1>2. DaysOfMonths(m, y) \in Int /\ DteDaysInYear(y) \in Int /\ FirstOfYear(y) \in Int
  <2>1. y \in Int
    OBVIOUS
  <2>2. DaysOfMonths(m, y) \in Nat
    BY <2>1, MonthOfYear, Zenon
  <2>3. DteDaysInYear(y) \in Int
    BY DEF DteDaysInYear
  <2>4. FirstOfYear(y) \in Int
    BY <2>1, YearsFollow, Zenon
  <2> QED BY <2>2, <2>3, <2>4
<1>3. earlier = [i \in 0 .. 3 |-> IF i = 0 THEN 0 ELSE earlier[i - 1] + DteDaysInYear(y - i)]
  <2> DEFINE e == [i \in 0 .. 3 |->
           IF i = 0 THEN 0 ELSE IF i = 1 THEN DteDaysInYear(y - 1)
           ELSE IF i = 2 THEN DteDaysInYear(y - 1) + DteDaysInYear(y - 2)
           ELSE DteDaysInYear(y - 1) + DteDaysInYear(y - 2) + DteDaysInYear(y - 3)]
  <2>1. e = [i \in 0 .. 3 |-> IF i = 0 THEN 0 ELSE e[i - 1] + DteDaysInYear(y - i)]
    <3>1. \A i \in 1 .. 3 : DteDaysInYear(y - i) \in Int
      BY DEF DteDaysInYear
    <3> QED BY <3>1
  <2> QED BY <2>1
<1> HIDE DEF earlier
<1>4. /\ rest \in 0 .. 3 /\ cycles \in Int /\ rest = y % 4
      /\ rest = 0 => cycles = FirstOfYear(y) + DteDaysInYear(y) - 1 + DayNumberZero
      /\ rest # 0 => cycles + 365 * (rest - 1) = FirstOfYear(y) - 1 + DayNumberZero
  BY <1>2, CyclesCountDays
<1> HIDE DEF rest, cycles
<1>5. rest # 0 => earlier[rest - 1] = 365 * (rest - 1)
  <2>1. \A i \in 1 .. 2 : i < rest => DteDaysInYear(y - i) = 365
    BY <1>2, <1>4 DEF DteDaysInYear, DteYearIsLeap
  <2>2. rest \in {1, 2, 3} => earlier[rest - 1] = 365 * (rest - 1)
    BY <1>3, <2>1
  <2> QED BY <1>4, <2>2
<1>6. days = FirstOfYear(y) - 1 + DayNumberZero + DaysOfMonths(m, y)
  BY <1>2, <1>4, <1>5 DEF DayNumberZero
<1> QED BY <1>1, <1>2, <1>6 DEF DayNumber, DayNumberZero

(* The calendar has a place for each day, and one only. *)
LEMMA PlaceInYear ==
  ASSUME NEW y \in Int, NEW m \in 1 .. 12, NEW d \in 1 .. DteDaysInMonth(m, y)
  PROVE  /\ DayNumber(y, m, d) \in Int /\ FirstOfYear(y) \in Int
         /\ d \in 1 .. 31
         /\ FirstOfYear(y) <= DayNumber(y, m, d)
         /\ DayNumber(y, m, d) < FirstOfYear(y) + DteDaysInYear(y)
         /\ DteDaysInYear(y) \in 365 .. 366
<1>1. /\ DaysOfMonths(m, y) \in Nat /\ DteDaysInMonth(m, y) \in 28 .. 31
      /\ DteDaysInYear(y) \in 365 .. 366
      /\ DaysOfMonths(m, y) + DteDaysInMonth(m, y) <= DteDaysInYear(y)
  BY MonthOfYear
<1>2. FirstOfYear(y) \in Int
  BY YearsFollow
<1>3. d \in Int /\ 1 <= d /\ d <= DteDaysInMonth(m, y) /\ d \in 1 .. 31
  BY <1>1
<1> QED BY <1>1, <1>2, <1>3 DEF DayNumber

\* The day i is the day d of the month m of y
IsDay(i, y, m, d) ==
  /\ y \in Int /\ m \in 1 .. 12 /\ d \in 1 .. DteDaysInMonth(m, y)
  /\ DayNumber(y, m, d) = i

LEMMA DaysAreDifferent ==
  ASSUME NEW i, NEW y, NEW m, NEW d, NEW z, NEW n, NEW e, IsDay(i, y, m, d), IsDay(i, z, n, e)
  PROVE  y = z /\ m = n /\ d = e
<1>0. /\ y \in Int /\ m \in 1 .. 12 /\ d \in 1 .. DteDaysInMonth(m, y) /\ DayNumber(y, m, d) = i
      /\ z \in Int /\ n \in 1 .. 12 /\ e \in 1 .. DteDaysInMonth(n, z) /\ DayNumber(z, n, e) = i
  BY DEF IsDay
<1>1. /\ DayNumber(y, m, d) \in Int /\ FirstOfYear(y) \in Int /\ DteDaysInYear(y) \in Int /\ d \in Int
      /\ FirstOfYear(y) <= DayNumber(y, m, d)
      /\ DayNumber(y, m, d) < FirstOfYear(y) + DteDaysInYear(y)
  BY <1>0, PlaceInYear
<1>2. /\ FirstOfYear(z) \in Int /\ DteDaysInYear(z) \in Int /\ e \in Int
      /\ FirstOfYear(z) <= DayNumber(z, n, e)
      /\ DayNumber(z, n, e) < FirstOfYear(z) + DteDaysInYear(z)
  BY <1>0, PlaceInYear
<1>3. ~ y < z /\ ~ z < y
  BY <1>0, <1>1, <1>2, YearsAscend
<1>4. y = z
  BY <1>0, <1>3
<1>5. DaysOfMonths(m, y) + d = DaysOfMonths(n, y) + e
  <2>1. DaysOfMonths(m, y) \in Nat
    BY <1>0, MonthOfYear
  <2>2. DaysOfMonths(n, y) \in Nat
    BY <1>0, MonthOfYear
  <2> QED BY <1>0, <1>1, <1>2, <1>4, <2>1, <2>2 DEF DayNumber
<1>6. 1 <= d /\ 1 <= e /\ d <= DteDaysInMonth(m, y) /\ e <= DteDaysInMonth(n, y)
  <2>1. DteDaysInMonth(m, y) \in 28 .. 31
    BY <1>0, MonthOfYear
  <2>2. DteDaysInMonth(n, z) \in 28 .. 31
    BY <1>0, MonthOfYear
  <2> QED BY <1>0, <1>4, <2>1, <2>2
<1> QED BY <1>0, <1>1, <1>2, <1>4, <1>5, <1>6, OneDay

LEMMA Limits == FirstOfYear(1583) = BeginIndex + 1 /\ FirstOfYear(2500) = EndIndex
BY DEF FirstOfYear, BeginIndex, EndIndex, DayNumberZero

LEMMA YearInRange ==
  ASSUME NEW y \in Int, NEW i \in Int, FirstOfYear(y) <= i, i < FirstOfYear(y) + DteDaysInYear(y)
  PROVE  1583 <= y /\ y <= 2499 <=> BeginIndex < i /\ i < EndIndex
<1>1. FirstOfYear(y) \in Int /\ DteDaysInYear(y) \in Int /\ FirstOfYear(1583) \in Int /\ FirstOfYear(2500) \in Int
  BY YearsFollow DEF DteDaysInYear
<1>2. y < 1583 => FirstOfYear(y) + DteDaysInYear(y) <= FirstOfYear(1583)
  BY YearsAscend
<1>3. y < 2500 => FirstOfYear(y) + DteDaysInYear(y) <= FirstOfYear(2500)
  BY YearsAscend
<1>4. 1583 < y => FirstOfYear(1583) <= FirstOfYear(y)
  <2>1. 1583 < y => FirstOfYear(1583) + DteDaysInYear(1583) <= FirstOfYear(y)
    BY YearsAscend
  <2>2. DteDaysInYear(1583) = 365
    BY DEF DteDaysInYear, DteYearIsLeap
  <2> QED BY <1>1, <2>1, <2>2
<1>5. 2500 < y => FirstOfYear(2500) <= FirstOfYear(y)
  <2>1. 2500 < y => FirstOfYear(2500) + DteDaysInYear(2500) <= FirstOfYear(y)
    BY YearsAscend
  <2>2. DteDaysInYear(2500) = 365
    BY DEF DteDaysInYear, DteYearIsLeap
  <2> QED BY <1>1, <2>1, <2>2
<1> QED BY <1>1, <1>2, <1>3, <1>4, <1>5, Limits DEF BeginIndex, EndIndex

-----------------------------------------------------------------------------
(* The day an index is taken to has that index.                            *)

LEMMA NumberedDay ==
  ASSUME NEW y \in Int, NEW k \in 1 .. DteDaysInYear(y)
  PROVE  \E m \in 1 .. 12, d \in Int :
           /\ DayOfYear(y, k) = [year |-> y, month |-> m, day |-> d]
           /\ IsDay(FirstOfYear(y) + k - 1, y, m, d)
<1>1. PICK m \in 1 .. 12 :
        /\ DayOfYear(y, k) = [year |-> y, month |-> m, day |-> k - DaysOfMonths(m, y)]
        /\ k - DaysOfMonths(m, y) \in 1 .. DteDaysInMonth(m, y)
  BY DayOfYearIs
<1> DEFINE d == k - DaysOfMonths(m, y)
<1>2. DaysOfMonths(m, y) \in Nat /\ FirstOfYear(y) \in Int
  BY MonthOfYear, YearsFollow
<1>3. DteDaysInYear(y) \in 365 .. 366
  BY MonthOfYear
<1>4. k \in Int
  BY <1>3
<1>5. d \in Int /\ DayNumber(y, m, d) = FirstOfYear(y) + k - 1
  BY <1>2, <1>4 DEF DayNumber
<1> QED BY <1>1, <1>5 DEF IsDay

LEMMA LastOfYear ==
  ASSUME NEW y \in Int
  PROVE  /\ IsDay(FirstOfYear(y + 1) - 1, y, 12, 31)
         /\ IsDay(FirstOfYear(y + 1) - 2, y, 12, 30)
<1>1. /\ FirstOfYear(y) \in Int /\ FirstOfYear(y + 1) = FirstOfYear(y) + DteDaysInYear(y)
  BY YearsFollow
<1>2. /\ DteDaysInYear(y) = DaysOfMonths(12, y) + 31 /\ DteDaysInMonth(12, y) = 31
  BY MonthsFollow
<1>3. DaysOfMonths(12, y) \in Nat
  BY MonthOfYear
<1> QED BY <1>1, <1>2, <1>3 DEF IsDay, DayNumber

LEMMA Cycles ==
  ASSUME NEW n \in Nat
  PROVE  /\ n \div CYCLE400 \in Nat /\ n % CYCLE400 \in Nat /\ n % CYCLE400 < 146097
         /\ n = 146097 * (n \div CYCLE400) + (n % CYCLE400)
         /\ n \div CYCLE100 \in Nat /\ n % CYCLE100 \in Nat /\ n % CYCLE100 < 36524
         /\ n = 36524 * (n \div CYCLE100) + (n % CYCLE100)
         /\ n \div CYCLE4 \in Nat /\ n % CYCLE4 \in Nat /\ n % CYCLE4 < 1461
         /\ n = 1461 * (n \div CYCLE4) + (n % CYCLE4)
         /\ n \div CYCLE1 \in Nat /\ n % CYCLE1 \in Nat /\ n % CYCLE1 < 365
         /\ n = 365 * (n \div CYCLE1) + (n % CYCLE1)
BY DEF CYCLE400, CYCLE100, CYCLE4, CYCLE1

\* The year counted by the cycles, and the day in it, as PutDayIndex finds them
LeapEnd(y4, d1) == y4 = 4 /\ d1 = 0
CycleYear(a, b, c, y4, d1) == a * 400 + b * 100 + c * 4 + (IF LeapEnd(y4, d1) THEN y4 - 1 ELSE y4)
CycleDay(a, b, c, y4, d1, d400) ==
  IF d400 = 0 THEN [year |-> CycleYear(a, b, c, y4, d1), month |-> 12, day |-> 31]
  ELSE IF d400 = CYCLE400 - 1 THEN [year |-> a * 400 + 400, month |-> 12, day |-> 30]
  ELSE IF LeapEnd(y4, d1) THEN DayOfYear(CycleYear(a, b, c, y4, d1) + 1, 365)
  ELSE IF d1 = 0 THEN [year |-> CycleYear(a, b, c, y4, d1), month |-> 12, day |-> 31]
  ELSE DayOfYear(CycleYear(a, b, c, y4, d1) + 1, d1)

\* The record r is of the day i
Names(r, i) ==
  \E y \in Int, m \in 1 .. 12, d \in Int : r = [year |-> y, month |-> m, day |-> d] /\ IsDay(i, y, m, d)

LEMMA NamesLast ==
  ASSUME NEW r, NEW i, NEW y \in Int, r = [year |-> y, month |-> 12, day |-> 31],
         FirstOfYear(y + 1) - 1 = i
  PROVE  Names(r, i)
<1>1. 12 \in 1 .. 12 /\ 31 \in Int
  OBVIOUS
<1>2. IsDay(i, y, 12, 31)
  BY LastOfYear, Zenon
<1> QED BY <1>1, <1>2, Zenon DEF Names

LEMMA NamesNextToLast ==
  ASSUME NEW r, NEW i, NEW y \in Int, r = [year |-> y, month |-> 12, day |-> 30],
         FirstOfYear(y + 1) - 2 = i
  PROVE  Names(r, i)
<1>1. 12 \in 1 .. 12 /\ 30 \in Int
  OBVIOUS
<1>2. IsDay(i, y, 12, 30)
  BY LastOfYear, Zenon
<1> QED BY <1>1, <1>2, Zenon DEF Names

LEMMA NamesNumbered ==
  ASSUME NEW r, NEW i, NEW y \in Int, NEW k \in 1 .. DteDaysInYear(y),
         r = DayOfYear(y, k), FirstOfYear(y) + k - 1 = i
  PROVE  Names(r, i)
BY NumberedDay, Zenon DEF Names

\* i is d1 days after a cycles of 400 years, b of 100, c of 4, and y4 years
CountsDays(i, a, b, c, y4, d1, d400, d100, d4) ==
  /\ a \in Nat /\ d400 \in Nat /\ i + DayNumberZero = 146097 * a + d400 /\ d400 < 146097
  /\ b \in Nat /\ d100 \in Nat /\ d400 = 36524 * b + d100 /\ d100 < 36524
  /\ c \in Nat /\ d4 \in Nat /\ d100 = 1461 * c + d4 /\ d4 < 1461
  /\ y4 \in Nat /\ d1 \in Nat /\ d4 = 365 * y4 + d1 /\ d1 < 365

LEMMA CyclesName ==
  ASSUME NEW a, NEW b, NEW c, NEW y4, NEW d1, NEW i \in Int, NEW d4, NEW d100, NEW d400,
         CountsDays(i, a, b, c, y4, d1, d400, d100, d4)
  PROVE  Names(CycleDay(a, b, c, y4, d1, d400), i)
<1> DEFINE y == CycleYear(a, b, c, y4, d1)
<1>0. /\ a \in Nat /\ b \in 0 .. 4 /\ c \in 0 .. 24 /\ y4 \in 0 .. 4 /\ d1 \in Nat /\ d1 < 365
      /\ b = 4 => d400 = 146096
      /\ y4 = 4 => d1 = 0
      /\ d400 = 36524 * b + 1461 * c + 365 * y4 + d1
      /\ i = 146097 * a + d400 - DayNumberZero
      /\ d400 = 0 => b = 0 /\ c = 0 /\ y4 = 0 /\ d1 = 0
  BY DEF CountsDays, DayNumberZero
<1>1. /\ a \in Nat /\ b \in 0 .. 4 /\ c \in 0 .. 24 /\ y4 \in 0 .. 4 /\ d1 \in Nat /\ d1 < 365
      /\ b = 4 => d400 = 146096
      /\ y4 = 4 => d1 = 0
  BY <1>0
<1>2. /\ d400 = 36524 * b + 1461 * c + 365 * y4 + d1
      /\ i = 146097 * a + d400 - DayNumberZero
  BY <1>0
<1>3. ASSUME d400 # 146096, NEW r \in 0 .. 3, NEW x \in Int, x = 400 * a + 100 * b + 4 * c + r
      PROVE  FirstOfYear(x + 1) = a * 146097 + b * 36524 + c * 1461 + 365 * r + 1 - DayNumberZero
  <2>1. b \in 0 .. 3
    BY <1>1, <1>3
  <2> QED BY <1>1, <1>3, <2>1, DaysOfCycles
<1>4. CASE d400 = 0
  <2>1. b = 0 /\ c = 0 /\ y4 = 0 /\ d1 = 0
    BY <1>0, <1>4
  <2>2. y = 400 * a + 100 * b + 4 * c + 0 /\ y \in Int
    BY <1>1, <2>1 DEF CycleYear, LeapEnd
  <2>3. CycleDay(a, b, c, y4, d1, d400) = [year |-> y, month |-> 12, day |-> 31]
    BY <1>4, Zenon DEF CycleDay
  <2> HIDE DEF y
  <2>4. FirstOfYear(y + 1) - 1 = i
    BY <1>1, <1>2, <1>3, <1>4, <2>1, <2>2 DEF DayNumberZero
  <2>5. y \in Int
    BY <2>2
  <2> QED BY <2>3, <2>4, <2>5, NamesLast
<1>5. CASE d400 = 146096
  <2> DEFINE z == a * 400 + 400
  <2>1. z \in Int /\ z + 1 = 400 * (a + 1) + 100 * 0 + 4 * 0 + 0 + 1 /\ a + 1 \in Nat
    BY <1>1
  <2>2. FirstOfYear(400 * (a + 1) + 100 * 0 + 4 * 0 + 0 + 1)
          = (a + 1) * 146097 + 0 * 36524 + 0 * 1461 + 365 * 0 + 1 - DayNumberZero
    BY <2>1, DaysOfCycles
  <2>3. CycleDay(a, b, c, y4, d1, d400) = [year |-> z, month |-> 12, day |-> 30]
    <3>1. d400 # 0 /\ d400 = CYCLE400 - 1
      BY <1>5 DEF CYCLE400
    <3> QED BY <3>1, Zenon DEF CycleDay
  <2> HIDE DEF z
  <2>4. FirstOfYear(z + 1) - 2 = i
    BY <1>1, <1>2, <1>5, <2>1, <2>2 DEF DayNumberZero
  <2>5. z \in Int
    BY <2>1
  <2> QED BY <2>3, <2>4, <2>5, NamesNextToLast
<1>6. CASE d400 # 0 /\ d400 # 146096 /\ LeapEnd(y4, d1)
  <2>1. y = 400 * a + 100 * b + 4 * c + 3 /\ y \in Int /\ y4 = 4 /\ d1 = 0
    BY <1>1, <1>6 DEF CycleYear, LeapEnd
  <2>2. CycleDay(a, b, c, y4, d1, d400) = DayOfYear(y + 1, 365)
    <3>1. d400 # CYCLE400 - 1
      BY <1>6 DEF CYCLE400
    <3> QED BY <1>6, <3>1 DEF CycleDay
  <2> HIDE DEF y
  <2>3. FirstOfYear(y + 1) + 365 - 1 = i
    BY <1>1, <1>2, <1>3, <1>6, <2>1 DEF DayNumberZero
  <2>4. y + 1 \in Int /\ 365 \in 1 .. DteDaysInYear(y + 1)
    BY <2>1 DEF DteDaysInYear
  <2> QED BY <2>2, <2>3, <2>4, NamesNumbered
<1>7. CASE d400 # 0 /\ d400 # 146096 /\ ~LeapEnd(y4, d1)
  <2>1. y = 400 * a + 100 * b + 4 * c + y4 /\ y \in Int /\ y4 \in 0 .. 3
    BY <1>1, <1>7 DEF CycleYear, LeapEnd
  <2>2. CycleDay(a, b, c, y4, d1, d400) =
          IF d1 = 0 THEN [year |-> y, month |-> 12, day |-> 31] ELSE DayOfYear(y + 1, d1)
    <3>1. d400 # CYCLE400 - 1
      BY <1>7 DEF CYCLE400
    <3> QED BY <1>7, <3>1 DEF CycleDay
  <2> HIDE DEF y
  <2>3. FirstOfYear(y + 1) + d1 - 1 = i
    BY <1>1, <1>2, <1>3, <1>7, <2>1 DEF DayNumberZero
  <2>4. CASE d1 = 0
    <3>1. FirstOfYear(y + 1) \in Int
      BY <2>1, YearsFollow
    <3>2. FirstOfYear(y + 1) - 1 = i
      BY <2>3, <2>4, <3>1
    <3>3. CycleDay(a, b, c, y4, d1, d400) = [year |-> y, month |-> 12, day |-> 31]
      BY <2>2, <2>4
    <3>4. y \in Int
      BY <2>1
    <3> QED BY <3>2, <3>3, <3>4, NamesLast
  <2>5. CASE d1 # 0
    <3>1. y + 1 \in Int /\ d1 \in 1 .. DteDaysInYear(y + 1)
      BY <1>1, <2>1, <2>5 DEF DteDaysInYear
    <3>2. CycleDay(a, b, c, y4, d1, d400) = DayOfYear(y + 1, d1)
      BY <2>2, <2>5
    <3> QED BY <2>3, <3>1, <3>2, NamesNumbered
  <2> QED BY <2>4, <2>5
<1> QED BY <1>4, <1>5, <1>6, <1>7

\* u is t on another day, at the same time
IsPut(u, t, y, m, d) == u = [t EXCEPT !.year = y, !.month = m, !.day = d]

LEMMA PutDayIndexIs ==
  ASSUME NEW t, NEW i \in Int, BeginIndex < i, i < EndIndex
  PROVE  \E y \in Int, m \in 1 .. 12, d \in Int :
           /\ 1583 <= y /\ y <= 2499 /\ IsDay(i, y, m, d)
           /\ IsPut(PutDayIndex(t, i), t, y, m, d)
<1> DEFINE n == i + DayNumberZero
           d400 == n % CYCLE400
           d100 == d400 % CYCLE100
           d4 == d100 % CYCLE4
           y4 == d4 \div CYCLE1
           d1 == d4 % CYCLE1
           a == n \div CYCLE400
           b == d400 \div CYCLE100
           c == d100 \div CYCLE4
           ymd == CycleDay(a, b, c, y4, d1, d400)
<1>1. PutDayIndex(t, i) = [t EXCEPT !.year = ymd.year, !.month = ymd.month, !.day = ymd.day]
  BY DEF PutDayIndex, BeginIndex, EndIndex, CycleDay, CycleYear, LeapEnd
<1>2. /\ n \in Nat /\ a \in Nat /\ d400 \in Nat /\ d400 < 146097 /\ n = 146097 * a + d400
  <2>1. n \in Nat
    BY DEF DayNumberZero, BeginIndex
  <2> HIDE DEF n
  <2> QED BY <2>1, Cycles
<1>3. /\ b \in Nat /\ d100 \in Nat /\ d100 < 36524 /\ d400 = 36524 * b + d100
  <2> HIDE DEF d400
  <2> QED BY <1>2, Cycles
<1>4. /\ c \in Nat /\ d4 \in Nat /\ d4 < 1461 /\ d100 = 1461 * c + d4
  <2> HIDE DEF d100
  <2> QED BY <1>3, Cycles
<1>5. /\ y4 \in Nat /\ d1 \in Nat /\ d1 < 365 /\ d4 = 365 * y4 + d1
  <2> HIDE DEF d4
  <2> QED BY <1>4, Cycles
<1>6. CountsDays(i, a, b, c, y4, d1, d400, d100, d4)
  <2> HIDE DEF a, b, c, d400, d100, d4, y4, d1
  <2> QED BY <1>2, <1>3, <1>4, <1>5 DEF CountsDays
<1> HIDE DEF n, a, b, c, d400, d100, d4, y4, d1
<1>7. Names(ymd, i)
  BY <1>6, CyclesName, Zenon
<1> HIDE DEF ymd
<1>8. PICK y \in Int, m \in 1 .. 12, d \in Int :
        ymd = [year |-> y, month |-> m, day |-> d] /\ IsDay(i, y, m, d)
  BY <1>7 DEF Names
<1>9. 1583 <= y /\ y <= 2499
  <2>1. d \in 1 .. DteDaysInMonth(m, y) /\ DayNumber(y, m, d) = i
    BY <1>8 DEF IsDay
  <2>2. FirstOfYear(y) <= i /\ i < FirstOfYear(y) + DteDaysInYear(y)
    BY <2>1, PlaceInYear
  <2> QED BY <2>2, YearInRange
<1>10. IsPut(PutDayIndex(t, i), t, y, m, d)
  BY <1>1, <1>8 DEF IsPut
<1> QED BY <1>8, <1>9, <1>10

-----------------------------------------------------------------------------
(* The dates an object holds: a month and a day of it, of any year.         *)

Dates == [year : Int, month : Int, day : Int, hour : Int, minute : Int, second : Int]
OnDay(t) == t.month \in 1 .. 12 /\ 1 <= t.day /\ t.day <= DteDaysInMonth(t.month, t.year)
AtTime(t) ==
  /\ 0 <= t.hour /\ t.hour <= 23
  /\ 0 <= t.minute /\ t.minute <= 59
  /\ 0 <= t.second /\ t.second <= 5999
Proper(t) == t \in Dates /\ OnDay(t) /\ AtTime(t)

Number(t) == DayNumber(t.year, t.month, t.day)
DayHash(y, m, d) == 10000 * y + 100 * m + d
TimeOf(t) == 360000 * t.hour + 6000 * t.minute + t.second
AtMidnight(t) == t.hour = 0 /\ t.minute = 0 /\ t.second = 0

LEMMA ProperFields ==
  ASSUME NEW t, Proper(t)
  PROVE  /\ t.year \in Int /\ t.month \in Int /\ t.day \in Int
         /\ t.hour \in Int /\ t.minute \in Int /\ t.second \in Int
<1>1. t \in Dates
  BY DEF Proper
<1> QED BY <1>1 DEF Dates

LEMMA ProperDay ==
  ASSUME NEW t, Proper(t)
  PROVE  /\ t.year \in Int /\ t.month \in 1 .. 12
         /\ t.day \in 1 .. DteDaysInMonth(t.month, t.year) /\ t.day \in 1 .. 31
         /\ Number(t) \in Int
         /\ FirstOfYear(t.year) <= Number(t)
         /\ Number(t) < FirstOfYear(t.year) + DteDaysInYear(t.year)
<1>1. t.year \in Int /\ t.day \in Int
  BY ProperFields
<1>2. t.month \in 1 .. 12 /\ 1 <= t.day /\ t.day <= DteDaysInMonth(t.month, t.year)
  BY DEF Proper, OnDay
<1>3. DteDaysInMonth(t.month, t.year) \in 28 .. 31
  BY <1>1, <1>2, MonthOfYear
<1>4. t.day \in 1 .. DteDaysInMonth(t.month, t.year)
  BY <1>1, <1>2, <1>3
<1> QED BY <1>1, <1>2, <1>4, PlaceInYear DEF Number

(* The year tells on which side of the ends of time a day is. *)
LEMMA YearTells ==
  ASSUME NEW y \in Int, NEW i \in Int, FirstOfYear(y) <= i, i < FirstOfYear(y) + DteDaysInYear(y)
  PROVE  (y <= 1582 <=> i <= BeginIndex) /\ (2500 <= y <=> EndIndex <= i)
<1>1. FirstOfYear(y) \in Int /\ DteDaysInYear(y) \in Int /\ FirstOfYear(1583) \in Int /\ FirstOfYear(2500) \in Int
  BY YearsFollow DEF DteDaysInYear
<1>2. y < 1583 => FirstOfYear(y) + DteDaysInYear(y) <= FirstOfYear(1583)
  BY YearsAscend
<1>3. y < 2500 => FirstOfYear(y) + DteDaysInYear(y) <= FirstOfYear(2500)
  BY YearsAscend
<1>4. BeginIndex \in Int /\ EndIndex \in Int /\ BeginIndex < EndIndex
      /\ FirstOfYear(1583) = BeginIndex + 1 /\ FirstOfYear(2500) = EndIndex
  BY Limits DEF BeginIndex, EndIndex
<1>5. y <= 1582 => i <= BeginIndex
  BY <1>1, <1>2, <1>4
<1>6. y < 2500 => i < EndIndex
  BY <1>1, <1>3, <1>4
<1>7. 1583 <= y => BeginIndex < i
  <2>1. 1583 < y => FirstOfYear(1583) + DteDaysInYear(1583) <= FirstOfYear(y)
    BY YearsAscend
  <2>2. DteDaysInYear(1583) = 365
    BY DEF DteDaysInYear, DteYearIsLeap
  <2> QED BY <1>1, <1>4, <2>1, <2>2
<1>8. 2500 <= y => EndIndex <= i
  <2>1. 2500 < y => FirstOfYear(2500) + DteDaysInYear(2500) <= FirstOfYear(y)
    BY YearsAscend
  <2>2. DteDaysInYear(2500) = 365
    BY DEF DteDaysInYear, DteYearIsLeap
  <2> QED BY <1>1, <1>4, <2>1, <2>2
<1> QED BY <1>4, <1>5, <1>6, <1>7, <1>8

LEMMA ValueInRange ==
  ASSUME NEW t, Proper(t)
  PROVE  /\ HasValue(t) <=> BeginIndex < Number(t) /\ Number(t) < EndIndex
         /\ IsTheBegin(t) <=> Number(t) <= BeginIndex
         /\ IsTheEnd(t) <=> EndIndex <= Number(t)
<1>1. /\ t.hour \in 0 .. 23 /\ t.minute \in 0 .. 59 /\ t.second \in Seconds
  <2>1. t.hour \in Int /\ t.minute \in Int /\ t.second \in Int
    BY ProperFields
  <2>2. AtTime(t)
    BY DEF Proper
  <2>3. t.hour \in 0 .. 23
    BY <2>1, <2>2 DEF AtTime
  <2>4. t.minute \in 0 .. 59
    BY <2>1, <2>2 DEF AtTime
  <2>5. \A s \in Int : 0 <= s /\ s <= 5999 => s \in Seconds
    BY SMT DEF Seconds
  <2>6. 0 <= t.second /\ t.second <= 5999
    BY <2>2, SMT DEF AtTime
  <2>7. t.second \in Seconds
    BY <2>1, <2>5, <2>6, SMT
  <2> QED BY <2>3, <2>4, <2>7, Zenon
<1>0. /\ t.year \in Int /\ t.month \in 1 .. 12 /\ t.day \in 1 .. DteDaysInMonth(t.month, t.year)
      /\ t.day # 0
  BY ProperFields, ProperDay DEF Proper, OnDay
<1>2. Begin.year = 1582 /\ End.year = 2500
  BY DEF Begin, End, Midnight
<1>3. /\ t.year <= 1582 <=> Number(t) <= BeginIndex
      /\ 2500 <= t.year <=> EndIndex <= Number(t)
  BY ProperDay, YearTells
<1>4. Number(t) \in Int
  BY ProperDay
<1>5. HasValue(t) <=> 1582 < t.year /\ t.year < 2500
  <2>1. t.month \in 1 .. 12 /\ t.day \in 1 .. DteDaysInMonth(t.month, t.year)
    BY <1>0
  <2>2. HasValue(t) <=> Begin.year < t.year /\ t.year < End.year
    BY <1>1, <2>1, Zenon DEF HasValue
  <2> QED BY <1>2, <2>2, SMT
<1>6. (IsTheBegin(t) <=> t.year <= 1582) /\ (IsTheEnd(t) <=> t.year >= 2500)
  BY <1>0, <1>2 DEF IsTheBegin, IsTheEnd
<1> QED BY <1>0, <1>3, <1>4, <1>5, <1>6 DEF BeginIndex, EndIndex

(* The hashes of two dates are ordered as their days. *)
LEMMA HashOfDay ==
  ASSUME NEW t, Proper(t)
  PROVE  /\ Hash(t)[1] = DayHash(t.year, t.month, t.day) /\ Hash(t)[1] \in Int
         /\ Hash(t)[2] = TimeOf(t) /\ Hash(t)[2] \in Nat
<1>1. t.hour \in Int /\ t.minute \in Int /\ t.second \in Int
      /\ 0 <= t.hour /\ 0 <= t.minute /\ 0 <= t.second
  BY ProperFields DEF Proper, AtTime
<1>2. t.year \in Int /\ t.month \in Int /\ t.day \in Int
  BY ProperFields
<1>3. Hash(t) = <<DayHash(t.year, t.month, t.day), TimeOf(t)>>
  BY DEF Hash, DayHash, TimeOf
<1>4. DayHash(t.year, t.month, t.day) \in Int
  BY <1>2 DEF DayHash
<1>5. TimeOf(t) \in Nat
  BY <1>1 DEF TimeOf
<1> QED BY <1>3, <1>4, <1>5

LEMMA DaysOrdered ==
  ASSUME NEW y \in Int, NEW m \in 1 .. 12, NEW d \in 1 .. DteDaysInMonth(m, y),
         NEW z \in Int, NEW n \in 1 .. 12, NEW e \in 1 .. DteDaysInMonth(n, z),
         DayNumber(z, n, e) < DayNumber(y, m, d)
  PROVE  DayHash(z, n, e) < DayHash(y, m, d)
<1>1. /\ DayNumber(y, m, d) \in Int /\ FirstOfYear(y) \in Int /\ DteDaysInYear(y) \in Int /\ d \in Int
      /\ FirstOfYear(y) <= DayNumber(y, m, d)
      /\ DayNumber(y, m, d) < FirstOfYear(y) + DteDaysInYear(y)
  BY PlaceInYear
<1>2. /\ DayNumber(z, n, e) \in Int /\ FirstOfYear(z) \in Int /\ DteDaysInYear(z) \in Int /\ e \in Int
      /\ FirstOfYear(z) <= DayNumber(z, n, e)
      /\ DayNumber(z, n, e) < FirstOfYear(z) + DteDaysInYear(z)
  BY PlaceInYear
<1>3. ~ y < z
  BY <1>1, <1>2, YearsAscend
<1>4. ASSUME y = z PROVE ~ m < n
  <2> SUFFICES ASSUME m < n PROVE FALSE
    OBVIOUS
  <2>1. DaysOfMonths(m, y) + DteDaysInMonth(m, y) <= DaysOfMonths(n, y)
    BY MonthsFollow
  <2>2. DaysOfMonths(m, y) \in Nat /\ DteDaysInMonth(m, y) \in 28 .. 31
    BY MonthOfYear
  <2>3. DaysOfMonths(n, y) \in Nat
    BY MonthOfYear
  <2>4. d <= DteDaysInMonth(m, y) /\ 1 <= e
    BY <1>4
  <2> QED BY <1>1, <1>2, <1>4, <2>1, <2>2, <2>3, <2>4 DEF DayNumber
<1>5. ASSUME y = z, m = n PROVE e < d
  <2>1. DaysOfMonths(m, y) \in Nat
    BY MonthOfYear
  <2> QED BY <1>1, <1>2, <1>5, <2>1 DEF DayNumber
<1>6. d \in 1 .. 31 /\ e \in 1 .. 31
  BY PlaceInYear
<1> QED BY <1>3, <1>4, <1>5, <1>6 DEF DayHash

LEMMA LaterDayLaterHash ==
  ASSUME NEW t, NEW u, Proper(t), Proper(u), Number(u) < Number(t)
  PROVE  ~NotAfter(t, u)
<1>1. /\ t.year \in Int /\ t.month \in 1 .. 12 /\ t.day \in 1 .. DteDaysInMonth(t.month, t.year)
      /\ u.year \in Int /\ u.month \in 1 .. 12 /\ u.day \in 1 .. DteDaysInMonth(u.month, u.year)
  BY ProperDay
<1>2. DayHash(u.year, u.month, u.day) < DayHash(t.year, t.month, t.day)
  BY <1>1, DaysOrdered, Zenon DEF Number
<1>3. Hash(u)[1] < Hash(t)[1] /\ Hash(t)[1] \in Int /\ Hash(u)[1] \in Int
  BY <1>2, HashOfDay
<1> QED BY <1>3 DEF NotAfter

LEMMA HashOfLimits ==
  /\ Hash(Begin)[1] = DayHash(1582, 12, 31) /\ Hash(Begin)[2] = 0
  /\ Hash(End)[1] = DayHash(2500, 1, 1) /\ Hash(End)[2] = 0
BY DEF Hash, Begin, End, Midnight, DayHash

LEMMA AfterTheBegin ==
  ASSUME NEW t, Proper(t), 1582 < t.year
  PROVE  ~NotAfter(t, Begin)
<1>1. /\ t.year \in Int /\ t.month \in 1 .. 12 /\ t.day \in Int /\ 1 <= t.day
  BY ProperFields, ProperDay DEF Proper, OnDay
<1>2. Hash(Begin)[1] < Hash(t)[1]
  <2>1. DayHash(1582, 12, 31) < DayHash(t.year, t.month, t.day)
    BY <1>1 DEF DayHash
  <2> QED BY <2>1, HashOfDay, HashOfLimits
<1>3. Hash(t)[1] \in Int /\ Hash(Begin)[1] \in Int
  BY HashOfDay, HashOfLimits DEF DayHash
<1> QED BY <1>2, <1>3 DEF NotAfter

LEMMA BeforeTheEnd ==
  ASSUME NEW t, Proper(t)
  PROVE  NotAfter(End, t) <=> 2500 <= t.year
<1>1. /\ t.year \in Int /\ t.month \in 1 .. 12 /\ t.day \in 1 .. 31
  BY ProperDay
<1>2. DayHash(2500, 1, 1) <= DayHash(t.year, t.month, t.day) <=> 2500 <= t.year
  BY <1>1 DEF DayHash
<1>3. Hash(End)[1] <= Hash(t)[1] <=> 2500 <= t.year
  BY <1>2, HashOfDay, HashOfLimits
<1>4. Hash(t)[1] \in Int /\ Hash(End)[1] \in Int /\ Hash(End)[2] = 0 /\ Hash(t)[2] \in Nat
  BY HashOfDay, HashOfLimits DEF DayHash
<1> QED BY <1>3, <1>4 DEF NotAfter

LEMMA NotAfterTheBegin ==
  ASSUME NEW t, Proper(t), t.year <= 1582, ~NotAfter(t, Begin)
  PROVE  t.year = 1582 /\ t.month = 12 /\ t.day = 31
<1>1. /\ t.year \in Int /\ t.month \in 1 .. 12 /\ t.day \in 1 .. 31
  BY ProperDay
<1>2. Hash(t)[1] \in Int /\ Hash(Begin)[1] \in Int
  BY HashOfDay, HashOfLimits DEF DayHash
<1>3. ~ Hash(t)[1] < Hash(Begin)[1]
  BY DEF NotAfter
<1>4. DayHash(1582, 12, 31) <= DayHash(t.year, t.month, t.day)
  BY <1>2, <1>3, HashOfDay, HashOfLimits
<1> QED BY <1>1, <1>4 DEF DayHash

(* The index of a date is the number of its day, as far as the ends of time. *)
LEMMA IndexOfDate ==
  ASSUME NEW t, Proper(t)
  PROVE  DayIndex(t) = InRange(Number(t))
<1>1. /\ t.year \in Int /\ t.month \in 1 .. 12 /\ t.day \in 1 .. 31 /\ t.day \in 1 .. DteDaysInMonth(t.month, t.year)
      /\ t.day <= DteDaysInMonth(t.month, t.year)
  BY ProperDay DEF Proper, OnDay
<1>2. /\ t.year <= 1582 <=> Number(t) <= BeginIndex
      /\ 2500 <= t.year <=> EndIndex <= Number(t)
      /\ Number(t) \in Int
  BY ProperDay, YearTells
<1>3. CASE t.year <= 1582 /\ NotAfter(t, Begin)
  BY <1>2, <1>3 DEF DayIndex, InRange
<1>4. CASE t.year <= 1582 /\ ~NotAfter(t, Begin)
  <2>1. t.year = 1582 /\ t.month = 12 /\ t.day = 31
    BY <1>4, NotAfterTheBegin
  <2>2. ~NotAfter(End, t)
    BY <2>1, BeforeTheEnd
  <2>3. 1582 \in Nat /\ 12 \in 1 .. 12 /\ 31 \in 1 .. 31 /\ 31 <= DteDaysInMonth(12, 1582)
    BY <1>1, <2>1
  <2>4. DayIndex(t) = DayNumber(1582, 12, 31)
    BY <1>4, <2>1, <2>2, <2>3, IndexOfDay
  <2>5. DayNumber(1582, 12, 31) = BeginIndex
    <3>1. 1582 \in Int /\ 1582 + 1 = 1583
      OBVIOUS
    <3>2. DayNumber(1582, 12, 31) = FirstOfYear(1583) - 1
      BY <3>1, LastOfYear DEF IsDay
    <3> QED BY <3>2, Limits DEF BeginIndex
  <2>6. InRange(Number(t)) = BeginIndex
    BY <1>2, <1>4 DEF InRange
  <2> QED BY <2>4, <2>5, <2>6
<1>5. CASE 2500 <= t.year
  <2>1. ~NotAfter(t, Begin) /\ NotAfter(End, t)
    BY <1>1, <1>5, AfterTheBegin, BeforeTheEnd
  <2>2. ~ Number(t) <= BeginIndex
    BY <1>1, <1>2, <1>5
  <2> QED BY <1>2, <1>5, <2>1, <2>2 DEF DayIndex, InRange
<1>6. CASE 1582 < t.year /\ t.year < 2500
  <2>1. ~NotAfter(t, Begin) /\ ~NotAfter(End, t)
    BY <1>1, <1>6, AfterTheBegin, BeforeTheEnd
  <2>2. t.year \in Nat
    BY <1>1, <1>6
  <2>3. DayIndex(t) = Number(t)
    BY <1>1, <2>1, <2>2, IndexOfDay DEF Number
  <2>4. ~ Number(t) <= BeginIndex /\ ~ EndIndex <= Number(t)
    BY <1>1, <1>2, <1>6
  <2>5. InRange(Number(t)) = Number(t)
    BY <1>2, <2>4 DEF InRange, EndIndex
  <2> QED BY <2>3, <2>5
<1> QED BY <1>1, <1>3, <1>4, <1>5, <1>6

-----------------------------------------------------------------------------
(* The moves, made from midnight: every one lands on the day it should.    *)

LEMMA FirstDays ==
  ASSUME NEW y \in Int
  PROVE  Proper(Midnight(y, 1, 1)) /\ Number(Midnight(y, 1, 1)) = FirstOfYear(y)
         /\ AtMidnight(Midnight(y, 1, 1))
<1> DEFINE t == Midnight(y, 1, 1)
<1>1. t \in Dates /\ t.year = y /\ t.month = 1 /\ t.day = 1 /\ AtMidnight(t) /\ AtTime(t)
  BY DEF Midnight, Dates, AtMidnight, AtTime
<1> HIDE DEF t
<1>2. DteDaysInMonth(1, y) = 31 /\ DaysOfMonths(1, y) = 0 /\ FirstOfYear(y) \in Int
  BY MonthLengths, MonthsFollow, YearsFollow
<1>3. Proper(t)
  BY <1>1, <1>2 DEF Proper, OnDay
<1>4. Number(t) = FirstOfYear(y)
  BY <1>1, <1>2 DEF Number, DayNumber
<1> QED BY <1>1, <1>3, <1>4 DEF t

LEMMA Ends ==
  /\ Proper(Begin) /\ AtMidnight(Begin) /\ Number(Begin) = BeginIndex
  /\ Proper(End) /\ AtMidnight(End) /\ Number(End) = EndIndex
<1>1. Proper(End) /\ AtMidnight(End) /\ Number(End) = EndIndex
  BY FirstDays, Limits DEF End
<1>2. Begin \in Dates /\ Begin.year = 1582 /\ Begin.month = 12 /\ Begin.day = 31
      /\ AtMidnight(Begin) /\ AtTime(Begin)
  BY DEF Begin, Midnight, Dates, AtMidnight, AtTime
<1>3. Proper(Begin)
  BY <1>2, MonthsFollow DEF Proper, OnDay
<1>4. DayNumber(1582, 12, 31) = FirstOfYear(1583) - 1
  <2>1. 1582 \in Int /\ 1582 + 1 = 1583
    OBVIOUS
  <2> QED BY <2>1, LastOfYear DEF IsDay
<1>5. Number(Begin) = BeginIndex
  BY <1>2, <1>4, Limits DEF Number, BeginIndex
<1> QED BY <1>1, <1>2, <1>3, <1>5

(* Only the day is changed: the time of the date is kept. *)
LEMMA OnAnotherDay ==
  ASSUME NEW t, Proper(t), NEW y \in Int, NEW m \in 1 .. 12, NEW d \in Int, 1 <= d, d <= DteDaysInMonth(m, y),
         NEW u, IsPut(u, t, y, m, d)
  PROVE  /\ Proper(u) /\ Number(u) = DayNumber(y, m, d) /\ u.year = y /\ u.month = m
         /\ AtMidnight(t) => AtMidnight(u)
<1>1. u = [t EXCEPT !.year = y, !.month = m, !.day = d]
  BY DEF IsPut
<1>2. DOMAIN t = {"year", "month", "day", "hour", "minute", "second"}
  BY DEF Proper, Dates
<1>3. u.year = y /\ u.month = m /\ u.day = d
  BY <1>1, <1>2
<1>4. u.hour = t.hour /\ u.minute = t.minute /\ u.second = t.second
  BY <1>1, <1>2
<1>5. u = [year |-> y, month |-> m, day |-> d,
           hour |-> t.hour, minute |-> t.minute, second |-> t.second]
  BY <1>1, <1>2
<1>6. t.hour \in Int /\ t.minute \in Int /\ t.second \in Int /\ m \in Int
  BY ProperFields
<1>7. u \in Dates
  BY <1>5, <1>6 DEF Dates
<1>8. OnDay(u)
  BY <1>3 DEF OnDay
<1>9. AtTime(u) /\ (AtMidnight(t) => AtMidnight(u))
  BY <1>4 DEF Proper, AtTime, AtMidnight
<1> QED BY <1>3, <1>7, <1>8, <1>9 DEF Proper, Number

LEMMA PutDayIndexMoves ==
  ASSUME NEW t, Proper(t), AtMidnight(t), NEW i \in Int
  PROVE  /\ Proper(PutDayIndex(t, i)) /\ AtMidnight(PutDayIndex(t, i))
         /\ InRange(Number(PutDayIndex(t, i))) = InRange(i)
<1> DEFINE u == PutDayIndex(t, i)
<1>1. CASE i <= BeginIndex
  <2>1. u = Begin
    BY <1>1 DEF PutDayIndex
  <2>2. InRange(BeginIndex) = BeginIndex /\ InRange(i) = BeginIndex
    BY <1>1 DEF InRange, BeginIndex
  <2> QED BY <2>1, <2>2, Ends
<1>2. CASE EndIndex <= i
  <2>1. ~ i <= BeginIndex /\ ~ EndIndex <= BeginIndex
    BY <1>2 DEF BeginIndex, EndIndex
  <2>2. u = End
    BY <1>2, <2>1 DEF PutDayIndex
  <2>3. InRange(EndIndex) = EndIndex /\ InRange(i) = EndIndex
    BY <1>2, <2>1 DEF InRange, EndIndex
  <2> QED BY <2>2, <2>3, Ends
<1>3. CASE BeginIndex < i /\ i < EndIndex
  <2>1. PICK y \in Int, m \in 1 .. 12, d \in Int :
           /\ 1583 <= y /\ y <= 2499 /\ IsDay(i, y, m, d)
           /\ IsPut(u, t, y, m, d)
    BY <1>3, PutDayIndexIs
  <2>2. d \in 1 .. DteDaysInMonth(m, y) /\ DayNumber(y, m, d) = i
    BY <2>1 DEF IsDay
  <2>3. 1 <= d /\ d <= DteDaysInMonth(m, y)
    <3>1. DteDaysInMonth(m, y) \in 28 .. 31
      BY MonthOfYear
    <3> QED BY <2>2, <3>1
  <2> HIDE DEF u
  <2>4. Proper(u) /\ AtMidnight(u) /\ Number(u) = i
    BY <2>1, <2>2, <2>3, OnAnotherDay
  <2> QED BY <2>4 DEF u
<1> QED BY <1>1, <1>2, <1>3 DEF BeginIndex, EndIndex

LEMMA InRangeIs ==
  ASSUME NEW n \in Int
  PROVE  /\ InRange(n) \in Int /\ BeginIndex <= InRange(n) /\ InRange(n) <= EndIndex
         /\ InRange(InRange(n)) = InRange(n)
         /\ BeginIndex < n /\ n < EndIndex => InRange(n) = n
         /\ BeginIndex < InRange(n) /\ InRange(n) < EndIndex => InRange(n) = n
         /\ InRange(n) = BeginIndex <=> n <= BeginIndex
         /\ InRange(n) = EndIndex <=> EndIndex <= n
BY DEF InRange, BeginIndex, EndIndex

(* A date that has a value is moved by days. *)
LEMMA IncDayMoves ==
  ASSUME NEW t, Proper(t), AtMidnight(t), HasValue(t), NEW k \in Int
  PROVE  /\ Proper(IncDay(t, k)) /\ AtMidnight(IncDay(t, k))
         /\ InRange(Number(IncDay(t, k))) = InRange(Number(t) + k)
<1>1. Number(t) \in Int /\ DayIndex(t) = Number(t)
  BY ProperDay, IndexOfDate, ValueInRange, InRangeIs
<1>2. CASE k = 0
  BY <1>1, <1>2 DEF IncDay
<1>3. CASE k # 0
  <2>1. IncDay(t, k) = PutDayIndex(t, Number(t) + k)
    BY <1>1, <1>3 DEF IncDay
  <2>2. Number(t) + k \in Int
    BY <1>1
  <2> QED BY <2>1, <2>2, PutDayIndexMoves
<1> QED BY <1>2, <1>3

(* The remainder of C++ is the one of TLA+, taken below zero for negative numbers. *)
LEMMA Remainders ==
  ASSUME NEW a \in Int
  PROVE  /\ a >= 0 => CRem(a, 7) = a % 7
         /\ a < 0 => CRem(a, 7) = (IF a % 7 = 0 THEN 0 ELSE (a % 7) - 7)
         /\ CRem(a, 12) \in Int /\ CDiv(a, 12) \in Int /\ a = 12 * CDiv(a, 12) + CRem(a, 12)
<1>1. a >= 0 => CRem(a, 7) = a % 7
  BY DEF CRem, CDiv
<1>2. a < 0 => CRem(a, 7) = (IF a % 7 = 0 THEN 0 ELSE (a % 7) - 7)
  BY DEF CRem, CDiv
<1>3. CDiv(a, 12) \in Int
  BY DEF CDiv
<1>4. CRem(a, 12) = a - 12 * CDiv(a, 12)
  BY DEF CRem
<1> QED BY <1>1, <1>2, <1>3, <1>4

LEMMA DayOfWeek ==
  ASSUME NEW n \in Int
  PROVE  LET difference == 1 + CRem(n - 34784, 7)
         IN  (IF difference > 7 THEN 7 - difference
              ELSE IF difference < 1 THEN 7 + difference ELSE difference) = ((n - 1) % 7) + 1
<1>1. (n - 34784) % 7 = (n - 1) % 7
  OBVIOUS
<1>2. n - 34784 \in Int
  OBVIOUS
<1>3. (n - 1) % 7 \in 0 .. 6
  OBVIOUS
<1> DEFINE r == (n - 1) % 7
           c == CRem(n - 34784, 7)
<1>4. c = r \/ (c = r - 7 /\ r # 0)
  <2> DEFINE a == n - 34784
  <2>1. a \in Int /\ a % 7 = r
    BY <1>1, <1>2
  <2> HIDE DEF a
  <2>2. /\ a >= 0 => CRem(a, 7) = a % 7
        /\ a < 0 => CRem(a, 7) = (IF a % 7 = 0 THEN 0 ELSE (a % 7) - 7)
    BY <2>1, Remainders
  <2> HIDE DEF r
  <2>3. r \in Int
    BY <1>3 DEF r
  <2>4. CRem(a, 7) = r \/ (CRem(a, 7) = r - 7 /\ r # 0)
    BY <2>1, <2>2, <2>3
  <2> QED BY <2>4 DEF a
<1> HIDE DEF r, c
<1>5. (IF 1 + c > 7 THEN 7 - (1 + c) ELSE IF 1 + c < 1 THEN 7 + (1 + c) ELSE 1 + c) = r + 1
  BY <1>3, <1>4 DEF r
<1> QED BY <1>5 DEF r, c

LEMMA WeekDayIs ==
  ASSUME NEW t, Proper(t), HasValue(t)
  PROVE  WeekDay(t) = ((Number(t) - 1) % 7) + 1
<1> DEFINE monday == Midnight(1995, 3, 27)
<1>1. Proper(monday) /\ Number(monday) = 34784
  <2>1. /\ monday \in Dates /\ AtTime(monday)
        /\ monday.year = 1995 /\ monday.month = 3 /\ monday.day = 27
    BY DEF Midnight, Dates, AtTime
  <2> HIDE DEF monday
  <2>2. DteDaysInMonth(3, 1995) = 31
    BY MonthLengths
  <2>3. DaysOfMonths(3, 1995) = 59
    <3>1. DteDaysInMonth(2, 1995) = 28
      BY DEF DteDaysInMonth, DteYearIsLeap
    <3> QED BY <3>1, MonthSums
  <2>4. FirstOfYear(1995) = 34699
    BY DEF FirstOfYear, DayNumberZero
  <2> QED BY <2>1, <2>2, <2>3, <2>4 DEF Proper, OnDay, Number, DayNumber
<1>2. DayIndex(monday) = 34784
  <2>1. InRange(34784) = 34784
    BY DEF InRange, BeginIndex, EndIndex
  <2> QED BY <1>1, <2>1, IndexOfDate
<1>3. DayIndex(t) = Number(t) /\ Number(t) \in Int
  BY ProperDay, IndexOfDate, ValueInRange, InRangeIs
<1>4. WeekDay(t) = LET difference == 1 + CRem(Number(t) - 34784, 7)
                   IN  IF difference > 7 THEN 7 - difference
                       ELSE IF difference < 1 THEN 7 + difference ELSE difference
  BY <1>2, <1>3 DEF WeekDay
<1> QED BY <1>3, <1>4, DayOfWeek

LEMMA Mondays ==
  ASSUME NEW n \in Int
  PROVE  /\ (n - 1) % 7 \in Int /\ 0 <= (n - 1) % 7 /\ (n - 1) % 7 <= 6
         /\ Monday(n) = n - ((n - 1) % 7)
         /\ Monday(n + 6) = IF (n - 1) % 7 = 0 THEN n ELSE n + 7 - ((n - 1) % 7)
<1>1. (n - 1) % 7 \in Int /\ 0 <= (n - 1) % 7 /\ (n - 1) % 7 <= 6
  OBVIOUS
<1>2. ((n + 6) - 1) % 7 = IF (n - 1) % 7 = 0 THEN 6 ELSE ((n - 1) % 7) - 1
  OBVIOUS
<1> QED BY <1>1, <1>2 DEF Monday

(* A date past an end of time stays there. *)
LEMMA IncDayAgain ==
  ASSUME NEW t, Proper(t), AtMidnight(t), NEW n \in Int, InRange(Number(t)) = InRange(n), NEW k \in Int,
         EndIndex <= n => k >= 0, n <= BeginIndex => k <= 0
  PROVE  /\ Proper(IncDay(t, k)) /\ AtMidnight(IncDay(t, k))
         /\ InRange(Number(IncDay(t, k))) = InRange(n + k)
<1>1. Number(t) \in Int
  BY ProperDay
<1>2. CASE HasValue(t)
  <2>1. BeginIndex < Number(t) /\ Number(t) < EndIndex
    BY <1>2, ValueInRange
  <2>2. Number(t) = n
    BY <1>1, <2>1 DEF InRange, BeginIndex, EndIndex
  <2> QED BY <1>2, <2>2, IncDayMoves
<1>3. CASE ~HasValue(t)
  <2>1. IncDay(t, k) = t
    BY <1>3 DEF IncDay
  <2>2. Number(t) <= BeginIndex \/ EndIndex <= Number(t)
    BY <1>1, <1>3, ValueInRange DEF BeginIndex, EndIndex
  <2>3. InRange(n + k) = InRange(n)
    <3>1. n <= BeginIndex \/ EndIndex <= n
      BY <1>1, <2>2 DEF InRange, BeginIndex, EndIndex
    <3> QED BY <3>1 DEF InRange, BeginIndex, EndIndex
  <2> QED BY <2>1, <2>3
<1> QED BY <1>2, <1>3

AfterWeeks(n, w) == IF w = 0 THEN n ELSE Monday(IF w > 0 THEN n ELSE n + 6) + 7 * w

LEMMA IncWeekMoves ==
  ASSUME NEW t, Proper(t), AtMidnight(t), HasValue(t), NEW w \in Int
  PROVE  /\ Proper(IncWeek(t, w)) /\ AtMidnight(IncWeek(t, w))
         /\ InRange(Number(IncWeek(t, w))) = InRange(AfterWeeks(Number(t), w))
<1> DEFINE n == Number(t)
           wd == WeekDay(t)
<1>1. n \in Int /\ BeginIndex < n /\ n < EndIndex
  BY ProperDay, ValueInRange
<1>2. wd = ((n - 1) % 7) + 1
  BY WeekDayIs
<1>3. IncWeek(t, w) = IF wd = 1 \/ w = 0 THEN IncDay(t, 7 * w)
                      ELSE IF w > 0 THEN IncDay(IncDay(t, 8 - wd), 7 * (w - 1))
                      ELSE IncDay(IncDay(t, 1 - wd), 7 * (w + 1))
  BY DEF IncWeek
<1> HIDE DEF wd, n
<1>4. /\ wd \in Int /\ 1 <= wd /\ wd <= 7
      /\ Monday(n) = n + 1 - wd
      /\ Monday(n + 6) = IF wd = 1 THEN n ELSE n + 8 - wd
  BY <1>1, <1>2, Mondays
<1>5. CASE wd = 1 \/ w = 0
  <2>1. AfterWeeks(n, w) = n + 7 * w
    BY <1>1, <1>4, <1>5 DEF AfterWeeks
  <2>2. IncWeek(t, w) = IncDay(t, 7 * w) /\ 7 * w \in Int
    BY <1>3, <1>5
  <2> QED BY <2>1, <2>2, IncDayMoves DEF n
<1>6. CASE wd # 1 /\ w > 0
  <2>1. AfterWeeks(n, w) = n + (8 - wd) + 7 * (w - 1)
    BY <1>1, <1>4, <1>6 DEF AfterWeeks
  <2>2. IncWeek(t, w) = IncDay(IncDay(t, 8 - wd), 7 * (w - 1))
    BY <1>3, <1>6
  <2>3. 8 - wd \in Int /\ 7 * (w - 1) \in Int /\ n + (8 - wd) \in Int /\ 7 * (w - 1) >= 0
        /\ ~ n + (8 - wd) <= BeginIndex
    BY <1>1, <1>4, <1>6 DEF BeginIndex
  <2>4. /\ Proper(IncDay(t, 8 - wd)) /\ AtMidnight(IncDay(t, 8 - wd))
        /\ InRange(Number(IncDay(t, 8 - wd))) = InRange(n + (8 - wd))
    BY <2>3, IncDayMoves DEF n
  <2> QED BY <2>1, <2>2, <2>3, <2>4, IncDayAgain DEF n
<1>7. CASE wd # 1 /\ w < 0
  <2>1. AfterWeeks(n, w) = n + (1 - wd) + 7 * (w + 1)
    BY <1>1, <1>4, <1>7 DEF AfterWeeks
  <2>2. IncWeek(t, w) = IncDay(IncDay(t, 1 - wd), 7 * (w + 1))
    BY <1>3, <1>7
  <2>3. 1 - wd \in Int /\ 7 * (w + 1) \in Int /\ n + (1 - wd) \in Int /\ 7 * (w + 1) <= 0
        /\ ~ EndIndex <= n + (1 - wd)
    BY <1>1, <1>4, <1>7 DEF EndIndex
  <2>4. /\ Proper(IncDay(t, 1 - wd)) /\ AtMidnight(IncDay(t, 1 - wd))
        /\ InRange(Number(IncDay(t, 1 - wd))) = InRange(n + (1 - wd))
    BY <2>3, IncDayMoves DEF n
  <2> QED BY <2>1, <2>2, <2>3, <2>4, IncDayAgain DEF n
<1> QED BY <1>5, <1>6, <1>7

(* The first day of a month by its closed form. *)
LEMMA FirstOfMonthIs ==
  ASSUME NEW y \in Int, NEW m \in 1 .. 12
  PROVE  FirstOfMonth(y, m) = DayNumber(y, m, 1)
<1> DEFINE b == DteDaysInMonth(2, y)
<1>1. /\ FirstOfYear(y) \in Int /\ FirstOfYear(y + 1) = FirstOfYear(y) + DteDaysInYear(y)
      /\ DteDaysInYear(y) = 337 + b /\ (b = 28 \/ b = 29)
  BY YearsFollow, MonthLengths
<1>2. FirstOfMonth(y, m) = FirstOfYear(y) + ((367 * m - 362) \div 12)
                           - (IF m <= 2 THEN 0 ELSE IF b = 29 THEN 1 ELSE 2)
  <2>1. FirstOfYear(y + 1) - FirstOfYear(y) = 366 <=> b = 29
    BY <1>1
  <2> QED BY <2>1 DEF FirstOfMonth
<1>3. DaysOfMonths(m, y) = ((367 * m - 362) \div 12) - (IF m <= 2 THEN 0 ELSE IF b = 29 THEN 1 ELSE 2)
  <2> HIDE DEF b
  <2>1. /\ DaysOfMonths(1, y) = 0 /\ DaysOfMonths(2, y) = 31 /\ DaysOfMonths(3, y) = 31 + b
        /\ DaysOfMonths(4, y) = 62 + b /\ DaysOfMonths(5, y) = 92 + b
        /\ DaysOfMonths(6, y) = 123 + b /\ DaysOfMonths(7, y) = 153 + b
        /\ DaysOfMonths(8, y) = 184 + b /\ DaysOfMonths(9, y) = 215 + b
        /\ DaysOfMonths(10, y) = 245 + b /\ DaysOfMonths(11, y) = 276 + b
        /\ DaysOfMonths(12, y) = 306 + b
    BY MonthSums DEF b
  <2>2. \/ m = 1 \/ m = 2 \/ m = 3 \/ m = 4 \/ m = 5 \/ m = 6
        \/ m = 7 \/ m = 8 \/ m = 9 \/ m = 10 \/ m = 11 \/ m = 12
    OBVIOUS
  <2> QED BY <1>1, <2>1, <2>2
<1>4. DaysOfMonths(m, y) \in Nat
  BY MonthOfYear
<1>5. (367 * m - 362) \div 12 \in Int
  OBVIOUS
<1> HIDE DEF b
<1> DEFINE k == (367 * m - 362) \div 12
<1> HIDE DEF k
<1> QED BY <1>1, <1>2, <1>3, <1>4, <1>5 DEF DayNumber, k

LEMMA IncMonthMoves ==
  ASSUME NEW t, Proper(t), AtMidnight(t), NEW m \in Int
  PROVE  LET months == 12 * t.year + t.month - 1 + m
         IN  /\ Proper(IncMonth(t, m)) /\ AtMidnight(IncMonth(t, m))
             /\ Number(IncMonth(t, m)) = FirstOfMonth(months \div 12, (months % 12) + 1)
             /\ IncMonth(t, m).year = months \div 12 /\ IncMonth(t, m).month = (months % 12) + 1
<1> DEFINE months == 12 * t.year + t.month - 1 + m
           month0 == t.month - 1 + CRem(m, 12)
           y == t.year + CDiv(m, 12) + month0 \div 12
           n == (month0 % 12) + 1
           u == IncMonth(t, m)
<1>1. IsPut(u, t, y, n, 1)
  BY DEF IncMonth, IsPut
<1>2. t.year \in Int /\ t.month \in Int
  BY ProperFields
<1>3. CRem(m, 12) \in Int /\ CDiv(m, 12) \in Int /\ m = 12 * CDiv(m, 12) + CRem(m, 12)
  BY Remainders
<1>4. month0 \in Int /\ months = 12 * (t.year + CDiv(m, 12)) + month0 /\ t.year + CDiv(m, 12) \in Int
  BY <1>2, <1>3
<1>5. y = months \div 12 /\ n = (months % 12) + 1 /\ y \in Int /\ n \in 1 .. 12
  <2> HIDE DEF month0, months
  <2> DEFINE q == t.year + CDiv(m, 12)
  <2>1. y = q + month0 \div 12 /\ q \in Int
    BY <1>4
  <2> HIDE DEF q, y
  <2>2. months = 12 * q + month0
    BY <1>4 DEF q
  <2> QED BY <1>4, <2>1, <2>2
<1> HIDE DEF y, n, u, months
<1>6. 1 <= DteDaysInMonth(n, y)
  <2>1. DteDaysInMonth(n, y) \in 28 .. 31
    BY <1>5, MonthOfYear
  <2> QED BY <2>1
<1>7. /\ Proper(u) /\ AtMidnight(u) /\ Number(u) = DayNumber(y, n, 1) /\ u.year = y /\ u.month = n
  BY <1>1, <1>5, <1>6, OnAnotherDay
<1>8. FirstOfMonth(y, n) = DayNumber(y, n, 1)
  BY <1>5, FirstOfMonthIs
<1> QED BY <1>5, <1>7, <1>8 DEF u, months

LEMMA IncYearMoves ==
  ASSUME NEW t, Proper(t), AtMidnight(t), NEW y \in Int
  PROVE  LET next == t.year + (IF y < 0 /\ t.month > 1 THEN y + 1 ELSE y)
         IN  /\ Proper(IncYear(t, y)) /\ AtMidnight(IncYear(t, y))
             /\ Number(IncYear(t, y)) = FirstOfYear(next)
<1> DEFINE next == t.year + (IF y < 0 /\ t.month > 1 THEN y + 1 ELSE y)
           u == IncYear(t, y)
           Moved(v) == Proper(v) /\ AtMidnight(v) /\ IsPut(u, v, next, 1, 1)
<1>1. t.year \in Int /\ t.month \in 1 .. 12
  BY ProperDay
<1>2. ASSUME NEW v, Proper(v), NEW k, u = [v EXCEPT !.day = 1, !.month = 1, !.year = v.year + k],
             v.year + k = next
      PROVE  IsPut(u, v, next, 1, 1)
  <2>1. DOMAIN v = {"year", "month", "day", "hour", "minute", "second"}
    BY <1>2 DEF Proper, Dates
  <2> HIDE DEF u, next
  <2> QED BY <1>2, <2>1 DEF IsPut
<1>3. ASSUME t.month = 1 \/ y = 0 PROVE \E v : Moved(v)
  <2>1. u = [t EXCEPT !.day = 1, !.month = 1, !.year = t.year + y]
    BY <1>3 DEF IncYear
  <2>2. t.year + y = next
    BY <1>1, <1>3
  <2> HIDE DEF u, next
  <2>3. Moved(t)
    BY <1>2, <2>1, <2>2
  <2> QED BY <2>3
<1>4. ASSUME t.month # 1, y > 0 PROVE \E v : Moved(v)
  <2> DEFINE v == IncMonth(t, 13 - t.month)
  <2>1. u = [v EXCEPT !.day = 1, !.month = 1, !.year = v.year + (y - 1)]
    <3>1. ~ (t.month = 1 \/ y = 0)
      BY <1>4
    <3> DEFINE base == <<v, y - 1>>
    <3>2. u = [base[1] EXCEPT !.day = 1, !.month = 1, !.year = base[1].year + base[2]]
      BY <1>4, <3>1 DEF IncYear
    <3>3. base[1] = v /\ base[2] = y - 1
      OBVIOUS
    <3> HIDE DEF base, u, v
    <3> QED BY <3>2, <3>3
  <2>2. 13 - t.month \in Int /\ (12 * t.year + t.month - 1 + (13 - t.month)) \div 12 = t.year + 1
    BY <1>1
  <2>3. Proper(v) /\ AtMidnight(v) /\ v.year = t.year + 1
    BY <2>2, IncMonthMoves
  <2>4. v.year + (y - 1) = next
    BY <1>1, <1>4, <2>3
  <2> HIDE DEF u, next, v
  <2>5. Moved(v)
    BY <1>2, <2>1, <2>3, <2>4
  <2> QED BY <2>5
<1>5. ASSUME t.month # 1, y < 0 PROVE \E v : Moved(v)
  <2> DEFINE v == IncMonth(t, 1 - t.month)
  <2>1. u = [v EXCEPT !.day = 1, !.month = 1, !.year = v.year + (y + 1)]
    <3>1. ~ (t.month = 1 \/ y = 0) /\ ~ y > 0
      BY <1>5
    <3> DEFINE base == <<v, y + 1>>
    <3>2. u = [base[1] EXCEPT !.day = 1, !.month = 1, !.year = base[1].year + base[2]]
      BY <1>5, <3>1 DEF IncYear
    <3>3. base[1] = v /\ base[2] = y + 1
      OBVIOUS
    <3> HIDE DEF base, u, v
    <3> QED BY <3>2, <3>3
  <2>2. 1 - t.month \in Int /\ (12 * t.year + t.month - 1 + (1 - t.month)) \div 12 = t.year
    BY <1>1
  <2>3. Proper(v) /\ AtMidnight(v) /\ v.year = t.year
    BY <2>2, IncMonthMoves
  <2>4. v.year + (y + 1) = next
    BY <1>1, <1>5, <2>3
  <2> HIDE DEF u, next, v
  <2>5. Moved(v)
    BY <1>2, <2>1, <2>3, <2>4
  <2> QED BY <2>5
<1>6. PICK v : Moved(v)
  <2>1. t.month = 1 \/ y = 0 \/ (t.month # 1 /\ y > 0) \/ (t.month # 1 /\ y < 0)
    BY <1>1
  <2> QED BY <2>1, <1>3, <1>4, <1>5
<1>7. next \in Int
  BY <1>1
<1> HIDE DEF u, next
<1>8. DteDaysInMonth(1, next) = 31 /\ DaysOfMonths(1, next) = 0 /\ FirstOfYear(next) \in Int
  BY <1>7, MonthLengths, MonthsFollow, YearsFollow
<1>9. Proper(u) /\ AtMidnight(u) /\ Number(u) = DayNumber(next, 1, 1)
  BY <1>6, <1>7, <1>8, OnAnotherDay
<1>10. DayNumber(next, 1, 1) = FirstOfYear(next)
  BY <1>8 DEF DayNumber
<1> QED BY <1>9, <1>10 DEF u, next

\* u is the day of v at the time h, m, s
IsAt(u, v, h, m, s) ==
  /\ u \in Dates /\ u.year = v.year /\ u.month = v.month /\ u.day = v.day
  /\ u.hour = h /\ u.minute = m /\ u.second = s

LEMMA HourSet ==
  ASSUME NEW t, NEW v, NEW h, NEW m, NEW s, IsAt(t, v, h, m, s), NEW k \in Int,
         NEW u, u = [t EXCEPT !.hour = k]
  PROVE  IsAt(u, v, k, m, s)
<1>1. t \in Dates /\ DOMAIN t = {"year", "month", "day", "hour", "minute", "second"}
  BY DEF IsAt, Dates
<1> QED BY <1>1 DEF IsAt, Dates

LEMMA MinuteSet ==
  ASSUME NEW t, NEW v, NEW h, NEW m, NEW s, IsAt(t, v, h, m, s), NEW k \in Int,
         NEW u, u = [t EXCEPT !.minute = k]
  PROVE  IsAt(u, v, h, k, s)
<1>1. t \in Dates /\ DOMAIN t = {"year", "month", "day", "hour", "minute", "second"}
  BY DEF IsAt, Dates
<1> QED BY <1>1 DEF IsAt, Dates

LEMMA SecondSet ==
  ASSUME NEW t, NEW v, NEW h, NEW m, NEW s, IsAt(t, v, h, m, s), NEW k \in Int,
         NEW u, u = [t EXCEPT !.second = k]
  PROVE  IsAt(u, v, h, m, k)
<1>1. t \in Dates /\ DOMAIN t = {"year", "month", "day", "hour", "minute", "second"}
  BY DEF IsAt, Dates
<1> QED BY <1>1 DEF IsAt, Dates

LEMMA IncHourIs ==
  ASSUME NEW t, Proper(t), AtMidnight(t), HasValue(t), NEW h \in Int
  PROVE  IsAt(IncHour(t, h), IncDay(t, h \div 24), h % 24, 0, 0)
<1>1. t.hour = 0 /\ h + t.hour = h /\ h \div 24 \in Int /\ h % 24 \in Int
  BY DEF AtMidnight
<1>2. IsAt(IncDay(t, h \div 24), IncDay(t, h \div 24), 0, 0, 0)
  BY <1>1, IncDayMoves DEF Proper, IsAt, AtMidnight
<1>3. CASE h = 0
  <2>1. h \div 24 = 0 /\ h % 24 = 0 /\ IncHour(t, h) = t
    BY <1>3 DEF IncHour
  <2>2. IncDay(t, 0) = t
    BY DEF IncDay
  <2> QED BY <1>2, <2>1, <2>2
<1>4. CASE h # 0
  <2>1. IncHour(t, h) = [IncDay(t, h \div 24) EXCEPT !.hour = h % 24]
    BY <1>1, <1>4, Zenon DEF IncHour
  <2> QED BY <1>1, <1>2, <2>1, HourSet, Zenon
<1> QED BY <1>3, <1>4

LEMMA IncMinuteIs ==
  ASSUME NEW t, Proper(t), AtMidnight(t), HasValue(t), NEW m \in Int
  PROVE  IsAt(IncMinute(t, m), IncDay(t, (m \div 60) \div 24), (m \div 60) % 24, m % 60, 0)
<1>1. t.minute = 0 /\ m + t.minute = m /\ m \div 60 \in Int /\ m % 60 \in Int
  BY DEF AtMidnight
<1>2. IsAt(IncHour(t, m \div 60), IncDay(t, (m \div 60) \div 24), (m \div 60) % 24, 0, 0)
  BY <1>1, IncHourIs
<1>3. CASE m = 0
  <2>1. m \div 60 = 0 /\ m % 60 = 0 /\ IncMinute(t, m) = t
    BY <1>3 DEF IncMinute
  <2>2. IncHour(t, 0) = t
    BY DEF IncHour
  <2> QED BY <1>2, <2>1, <2>2
<1>4. CASE m # 0
  <2>1. IncMinute(t, m) = [IncHour(t, m \div 60) EXCEPT !.minute = m % 60]
    BY <1>1, <1>4, Zenon DEF IncMinute
  <2> QED BY <1>1, <1>2, <2>1, MinuteSet, Zenon
<1> QED BY <1>3, <1>4

\* The days, hours, minutes and seconds that s hundredths come to
DaysOf(s) == ((s \div 6000) \div 60) \div 24
HoursOf(s) == ((s \div 6000) \div 60) % 24
MinutesOf(s) == (s \div 6000) % 60
SecondsOf(s) == s % 6000

LEMMA IncSecondIs ==
  ASSUME NEW t, Proper(t), AtMidnight(t), HasValue(t), NEW s \in Int
  PROVE  IsAt(IncSecond(t, s), IncDay(t, DaysOf(s)), HoursOf(s), MinutesOf(s), SecondsOf(s))
<1>1. t.second = 0 /\ s + t.second = s /\ s \div 6000 \in Int /\ s % 6000 \in Int
  BY DEF AtMidnight
<1>2. IsAt(IncMinute(t, s \div 6000), IncDay(t, DaysOf(s)), HoursOf(s), MinutesOf(s), 0)
  BY <1>1, IncMinuteIs DEF DaysOf, HoursOf, MinutesOf
<1>3. CASE s = 0
  <2>1. s \div 6000 = 0 /\ SecondsOf(s) = 0 /\ IncSecond(t, s) = t
    BY <1>3 DEF IncSecond, SecondsOf
  <2>2. IncMinute(t, 0) = t
    BY DEF IncMinute
  <2> QED BY <1>2, <2>1, <2>2
<1>4. CASE s # 0
  <2>1. IncSecond(t, s) = [IncMinute(t, s \div 6000) EXCEPT !.second = SecondsOf(s)] /\ SecondsOf(s) \in Int
    BY <1>1, <1>4 DEF IncSecond, SecondsOf
  <2> QED BY <1>1, <1>2, <2>1, SecondSet
<1> QED BY <1>3, <1>4

(* The carries of seconds, minutes and hours make the days and the time of a day. *)
LEMMA Carries ==
  ASSUME NEW s \in Int
  PROVE  /\ DaysOf(s) \in Int /\ DaysOf(s) = s \div DayHundredths
         /\ HoursOf(s) \in Int /\ 0 <= HoursOf(s) /\ HoursOf(s) <= 23
         /\ MinutesOf(s) \in Int /\ 0 <= MinutesOf(s) /\ MinutesOf(s) <= 59
         /\ SecondsOf(s) \in Int /\ 0 <= SecondsOf(s) /\ SecondsOf(s) <= 5999
         /\ 360000 * HoursOf(s) + 6000 * MinutesOf(s) + SecondsOf(s) = s % DayHundredths
<1> DEFINE m == s \div 6000
           h == m \div 60
           d == h \div 24
<1>1. m \in Int /\ s = 6000 * m + (s % 6000) /\ s % 6000 \in Int /\ 0 <= s % 6000 /\ s % 6000 <= 5999
  OBVIOUS
<1>2. h \in Int /\ m = 60 * h + (m % 60) /\ m % 60 \in Int /\ 0 <= m % 60 /\ m % 60 <= 59
  <2> HIDE DEF m
  <2> QED BY <1>1
<1>3. d \in Int /\ h = 24 * d + (h % 24) /\ h % 24 \in Int /\ 0 <= h % 24 /\ h % 24 <= 23
  <2> HIDE DEF h
  <2> QED BY <1>2
<1> DEFINE hh == h % 24
           mm == m % 60
           ss == s % 6000
           r == 360000 * hh + 6000 * mm + ss
<1> HIDE DEF m, h, d, hh, mm, ss
<1>4. s = 8640000 * d + r /\ 0 <= r /\ r < 8640000 /\ r \in Int
  BY <1>1, <1>2, <1>3 DEF hh, mm, ss
<1> HIDE DEF r
<1>5. d = s \div DayHundredths /\ r = s % DayHundredths
  BY <1>3, <1>4 DEF DayHundredths
<1>6. d = DaysOf(s) /\ hh = HoursOf(s) /\ mm = MinutesOf(s) /\ ss = SecondsOf(s)
  BY DEF m, h, d, hh, mm, ss, DaysOf, HoursOf, MinutesOf, SecondsOf
<1>7. /\ hh \in Int /\ 0 <= hh /\ hh <= 23 /\ mm \in Int /\ 0 <= mm /\ mm <= 59
      /\ ss \in Int /\ 0 <= ss /\ ss <= 5999
  BY <1>1, <1>2, <1>3 DEF hh, mm, ss
<1> QED BY <1>3, <1>5, <1>6, <1>7 DEF r

LEMMA IncSecondMoves ==
  ASSUME NEW t, Proper(t), AtMidnight(t), HasValue(t), NEW s \in Int
  PROVE  /\ Proper(IncSecond(t, s))
         /\ InRange(Number(IncSecond(t, s))) = InRange(Number(t) + (s \div DayHundredths))
         /\ TimeOf(IncSecond(t, s)) = s % DayHundredths
<1> DEFINE u == IncSecond(t, s)
           v == IncDay(t, DaysOf(s))
<1>1. IsAt(u, v, HoursOf(s), MinutesOf(s), SecondsOf(s))
  BY IncSecondIs
<1>2. /\ DaysOf(s) \in Int /\ DaysOf(s) = s \div DayHundredths
      /\ 0 <= HoursOf(s) /\ HoursOf(s) <= 23
      /\ 0 <= MinutesOf(s) /\ MinutesOf(s) <= 59
      /\ 0 <= SecondsOf(s) /\ SecondsOf(s) <= 5999
      /\ 360000 * HoursOf(s) + 6000 * MinutesOf(s) + SecondsOf(s) = s % DayHundredths
  BY Carries
<1>3. Proper(v) /\ InRange(Number(v)) = InRange(Number(t) + DaysOf(s))
  BY <1>2, IncDayMoves
<1> HIDE DEF u, v
<1>4. Proper(u) /\ Number(u) = Number(v)
  BY <1>1, <1>2, <1>3 DEF IsAt, Proper, OnDay, AtTime, Number
<1>5. TimeOf(u) = s % DayHundredths
  BY <1>1, <1>2 DEF IsAt, TimeOf
<1> QED BY <1>2, <1>3, <1>4, <1>5 DEF u

-----------------------------------------------------------------------------
(* The invariant: the date is a day of the calendar whose place, as far as the  *)
(* ends of time, is the index counted beside it; until a move is made it is a  *)
(* midnight of the years the calendar has.                                     *)
DateInv ==
  /\ Proper(date)
  /\ index = InRange(Number(date))
  /\ HasValue(date) => TimeOf(date) = clock
  /\ ~moved => AtMidnight(date) /\ HasValue(date) /\ clock = 0

LEMMA MidnightIsZero ==
  ASSUME NEW t, AtMidnight(t)
  PROVE  TimeOf(t) = 0
BY DEF AtMidnight, TimeOf

LEMMA InitDateInv == Init => DateInv
<1> SUFFICES ASSUME Init PROVE DateInv
  OBVIOUS
<1>1. PICK y \in Years : date = Midnight(y, 1, 1) /\ index = FirstOfYear(y)
  BY DEF Init
<1>2. clock = 0
  BY DEF Init
<1>3. y \in Int /\ 1583 <= y /\ y <= 2499
  BY BDateAssumption DEF Begin, End, Midnight
<1>4. Proper(date) /\ Number(date) = FirstOfYear(y) /\ AtMidnight(date)
  BY <1>1, <1>3, FirstDays
<1>5. /\ FirstOfYear(y) \in Int /\ DteDaysInYear(y) \in 365 .. 366
  BY <1>3, YearsFollow, MonthsFollow
<1>6. BeginIndex < FirstOfYear(y) /\ FirstOfYear(y) < EndIndex
  <2>1. FirstOfYear(y) <= FirstOfYear(y) /\ FirstOfYear(y) < FirstOfYear(y) + DteDaysInYear(y)
    BY <1>5
  <2> QED BY <1>3, <1>5, <2>1, YearInRange
<1>7. HasValue(date) /\ index = InRange(Number(date))
  BY <1>1, <1>4, <1>5, <1>6, ValueInRange, InRangeIs
<1> QED BY <1>2, <1>4, <1>7, MidnightIsZero DEF DateInv

(* A walk or a move is made from a midnight that has a value. *)
LEMMA BeforeMove ==
  ASSUME DateInv, ~moved
  PROVE  /\ Proper(date) /\ AtMidnight(date) /\ HasValue(date) /\ clock = 0
         /\ index = Number(date) /\ index \in Int
<1>1. Proper(date) /\ AtMidnight(date) /\ HasValue(date) /\ clock = 0 /\ index = InRange(Number(date))
  BY DEF DateInv
<1>2. Number(date) \in Int /\ InRange(Number(date)) = Number(date)
  BY <1>1, ProperDay, ValueInRange, InRangeIs
<1> QED BY <1>1, <1>2

LEMMA AfterMove ==
  ASSUME Proper(date'), AtMidnight(date'), NEW n, InRange(Number(date')) = InRange(n), Place(n), clock = 0,
         moved'
  PROVE  DateInv'
BY MidnightIsZero DEF Place, DateInv

(* The walk ends with the year, so it does not leave the calendar. *)
LEMMA WalkStays ==
  ASSUME NEW t, Proper(t), HasValue(t), t.month # 12 \/ t.day # 31
  PROVE  BeginIndex < Number(t) + 1 /\ Number(t) + 1 < EndIndex
<1> DEFINE y == t.year
<1>1. /\ y \in Int /\ t.month \in 1 .. 12 /\ t.day \in 1 .. DteDaysInMonth(t.month, y)
      /\ Number(t) \in Int /\ FirstOfYear(y) <= Number(t) /\ Number(t) < FirstOfYear(y) + DteDaysInYear(y)
      /\ Number(t) = DayNumber(y, t.month, t.day)
  BY ProperDay DEF Number
<1>2. BeginIndex < Number(t) /\ Number(t) < EndIndex
  BY ValueInRange
<1> HIDE DEF y
<1>3. FirstOfYear(y) \in Int /\ FirstOfYear(y + 1) = FirstOfYear(y) + DteDaysInYear(y)
      /\ DteDaysInYear(y) \in 365 .. 366
  BY <1>1, YearsFollow, MonthsFollow
<1>4. IsDay(FirstOfYear(y + 1) - 1, y, 12, 31)
  BY <1>1, LastOfYear
<1>5. Number(t) # FirstOfYear(y + 1) - 1
  <2>1. IsDay(Number(t), y, t.month, t.day)
    BY <1>1 DEF IsDay
  <2> QED BY <1>4, <2>1, DaysAreDifferent
<1>6. FirstOfYear(y) <= Number(t) + 1 /\ Number(t) + 1 < FirstOfYear(y) + DteDaysInYear(y) /\ Number(t) + 1 \in Int
  BY <1>1, <1>3, <1>5
<1> QED BY <1>1, <1>2, <1>6, YearInRange

LEMMA NextDateInv == DateInv /\ [Next]_vars => DateInv'
<1> SUFFICES ASSUME DateInv, [Next]_vars PROVE DateInv'
  OBVIOUS
<1>1. CASE Walk
  <2>1. /\ Proper(date) /\ AtMidnight(date) /\ HasValue(date) /\ clock = 0
        /\ index = Number(date) /\ index \in Int
    BY <1>1, BeforeMove DEF Walk
  <2>2. date' = IncDay(date, 1) /\ Place(index + 1) /\ (date.month # 12 \/ date.day # 31)
    BY <1>1 DEF Walk
  <2>3. Proper(date') /\ AtMidnight(date') /\ InRange(Number(date')) = InRange(index + 1)
    BY <2>1, <2>2, IncDayMoves
  <2>4. BeginIndex < index + 1 /\ index + 1 < EndIndex
    BY <2>1, <2>2, WalkStays
  <2>5. Number(date') = index + 1
    <3>1. InRange(index + 1) = index + 1
      BY <2>1, <2>4, InRangeIs
    <3>2. Number(date') \in Int
      BY <2>3, ProperDay
    <3> QED BY <2>3, <2>4, <3>1, <3>2, InRangeIs
  <2>6. HasValue(date')
    BY <2>3, <2>4, <2>5, ValueInRange
  <2> QED BY <2>1, <2>2, <2>3, <2>6, MidnightIsZero DEF Place, DateInv
<1>2. ASSUME NEW d \in Days, MoveDay(d) PROVE DateInv'
  <2>1. /\ Proper(date) /\ AtMidnight(date) /\ HasValue(date) /\ clock = 0
        /\ index = Number(date) /\ index \in Int
    BY <1>2, BeforeMove DEF MoveDay, Moving
  <2>2. date' = IncDay(date, d) /\ Place(index + d) /\ moved' /\ d \in Int
    BY <1>2, BDateAssumption DEF MoveDay, Moving
  <2>3. Proper(date') /\ AtMidnight(date') /\ InRange(Number(date')) = InRange(index + d)
    BY <2>1, <2>2, IncDayMoves
  <2> QED BY <2>1, <2>2, <2>3, AfterMove
<1>3. ASSUME NEW w \in Weeks, MoveWeek(w) PROVE DateInv'
  <2>1. /\ Proper(date) /\ AtMidnight(date) /\ HasValue(date) /\ clock = 0
        /\ index = Number(date) /\ index \in Int
    BY <1>3, BeforeMove DEF MoveWeek, Moving
  <2>2. date' = IncWeek(date, w) /\ Place(AfterWeeks(index, w)) /\ moved' /\ w \in Int
    BY <1>3, BDateAssumption DEF MoveWeek, Moving, AfterWeeks
  <2>3. Proper(date') /\ AtMidnight(date') /\ InRange(Number(date')) = InRange(AfterWeeks(index, w))
    BY <2>1, <2>2, IncWeekMoves
  <2> QED BY <2>1, <2>2, <2>3, AfterMove
<1>4. ASSUME NEW m \in Months, MoveMonth(m) PROVE DateInv'
  <2> DEFINE months == 12 * date.year + date.month - 1 + m
             n == FirstOfMonth(months \div 12, (months % 12) + 1)
  <2>1. /\ Proper(date) /\ AtMidnight(date) /\ HasValue(date) /\ clock = 0
    BY <1>4, BeforeMove DEF MoveMonth, Moving
  <2>2. date' = IncMonth(date, m) /\ Place(n) /\ moved' /\ m \in Int
    BY <1>4, BDateAssumption DEF MoveMonth, Moving
  <2>3. Proper(date') /\ AtMidnight(date') /\ Number(date') = n
    BY <2>1, <2>2, IncMonthMoves
  <2> HIDE DEF n
  <2> QED BY <2>1, <2>2, <2>3, AfterMove
<1>5. ASSUME NEW y \in YearCounts, MoveYear(y) PROVE DateInv'
  <2> DEFINE n == FirstOfYear(date.year + (IF y < 0 /\ date.month > 1 THEN y + 1 ELSE y))
  <2>1. /\ Proper(date) /\ AtMidnight(date) /\ HasValue(date) /\ clock = 0
    BY <1>5, BeforeMove DEF MoveYear, Moving
  <2>2. date' = IncYear(date, y) /\ Place(n) /\ moved' /\ y \in Int
    BY <1>5, BDateAssumption DEF MoveYear, Moving
  <2>3. Proper(date') /\ AtMidnight(date') /\ Number(date') = n
    BY <2>1, <2>2, IncYearMoves
  <2> HIDE DEF n
  <2> QED BY <2>1, <2>2, <2>3, AfterMove
<1>6. ASSUME NEW s \in Hundredths, MoveTime(s) PROVE DateInv'
  <2>1. /\ Proper(date) /\ AtMidnight(date) /\ HasValue(date) /\ clock = 0
        /\ index = Number(date) /\ index \in Int
    BY <1>6, BeforeMove DEF MoveTime, Moving
  <2>2. s \in Int /\ clock + s = s
    BY <1>6, <2>1, BDateAssumption
  <2>3. date' = IncSecond(date, s) /\ index' = InRange(index + (s \div DayHundredths))
        /\ clock' = s % DayHundredths /\ moved'
    BY <1>6, <2>2 DEF MoveTime, Moving
  <2>4. /\ Proper(date') /\ InRange(Number(date')) = InRange(index + (s \div DayHundredths))
        /\ TimeOf(date') = s % DayHundredths
    BY <2>1, <2>2, <2>3, IncSecondMoves
  <2> QED BY <2>3, <2>4 DEF DateInv
<1>7. CASE UNCHANGED vars
  BY <1>7 DEF vars, DateInv
<1> QED BY <1>1, <1>2, <1>3, <1>4, <1>5, <1>6, <1>7 DEF Next

(* In every reachable state the date is a day of the calendar at the index      *)
(* counted beside it, whatever the years walked and the moves made             *)
(* (dtealgeb.cpp:486-615, 1175-1300).                                           *)
THEOREM DateIsOnItsDay == Spec => []DateInv
<1>1. Init => DateInv
  BY InitDateInv
<1>2. DateInv /\ [Next]_vars => DateInv'
  BY NextDateInv
<1> QED BY <1>1, <1>2, PTL DEF Spec

(* Every move of days, weeks, months, years and hundredths lands on the day and   *)
(* the time it should, of any length, and past an end of time is seen as that   *)
(* end (dtealgeb.cpp:308-337, 486-534, 1175-1272; tol_bdate.h:265-267).        *)
THEOREM MovesCountDays == Spec => []IndexCountsDays
<1>1. DateInv => IndexCountsDays
  <2> SUFFICES ASSUME DateInv PROVE IndexCountsDays
    OBVIOUS
  <2>1. Proper(date) /\ index = InRange(Number(date)) /\ (HasValue(date) => TimeOf(date) = clock)
    BY DEF DateInv
  <2>2. DayIndex(date) = index
    BY <2>1, IndexOfDate
  <2>3. Number(date) \in Int
    BY <2>1, ProperDay
  <2>4. /\ HasValue(date) <=> BeginIndex < Number(date) /\ Number(date) < EndIndex
        /\ IsTheBegin(date) <=> Number(date) <= BeginIndex
        /\ IsTheEnd(date) <=> EndIndex <= Number(date)
    BY <2>1, ValueInRange
  <2>5. /\ HasValue(date) <=> (BeginIndex < index /\ index < EndIndex)
        /\ IsTheBegin(date) <=> index = BeginIndex
        /\ IsTheEnd(date) <=> index = EndIndex
    BY <2>1, <2>3, <2>4, InRangeIs
  <2> QED BY <2>1, <2>2, <2>5 DEF IndexCountsDays, TimeOf
<1> QED BY <1>1, DateIsOnItsDay, PTL

(* A day of the calendar is given back by its index and by its hash. *)
LEMMA KeptByIndex ==
  ASSUME NEW t, Proper(t), HasValue(t)
  PROVE  PutDayIndex(t, Number(t)) = t
<1>1. BeginIndex < Number(t) /\ Number(t) < EndIndex /\ Number(t) \in Int
  BY ProperDay, ValueInRange
<1>2. PICK y \in Int, m \in 1 .. 12, d \in Int :
         /\ 1583 <= y /\ y <= 2499 /\ IsDay(Number(t), y, m, d)
         /\ IsPut(PutDayIndex(t, Number(t)), t, y, m, d)
  BY <1>1, PutDayIndexIs
<1>3. y = t.year /\ m = t.month /\ d = t.day
  <2>1. IsDay(Number(t), t.year, t.month, t.day)
    BY ProperDay DEF IsDay, Number
  <2>2. IsDay(Number(t), y, m, d)
    BY <1>2
  <2> QED BY <2>1, <2>2, DaysAreDifferent, Zenon
<1>4. t \in Dates
  BY DEF Proper
<1>5. [t EXCEPT !.year = t.year, !.month = t.month, !.day = t.day] = t
  BY <1>4 DEF Dates
<1> QED BY <1>2, <1>3, <1>5 DEF IsPut

\* The digits of a hash
YearOfHash(n) == n \div 10000
MonthOfHash(n) == (n - 10000 * YearOfHash(n)) \div 100
DayOfHash(n) == n - 10000 * YearOfHash(n) - 100 * MonthOfHash(n)
HourOf(fr) == fr \div 360000
MinuteOf(fr) == (fr % 360000) \div 6000

IsTime(h, m, s) == 0 <= h /\ h <= 23 /\ 0 <= m /\ m <= 59 /\ 0 <= s /\ s <= 5999
TimeAt(h, m, s) == 360000 * h + 6000 * m + s

LEMMA HashDigits ==
  ASSUME NEW y \in Int, NEW m \in 1 .. 12, NEW d \in 1 .. 31
  PROVE  LET n == DayHash(y, m, d)
         IN  YearOfHash(n) = y /\ MonthOfHash(n) = m /\ DayOfHash(n) = d
<1>1. 100 * m + d \in 0 .. 9999
  OBVIOUS
<1>2. DayHash(y, m, d) \div 10000 = y
  BY <1>1 DEF DayHash
<1>3. DayHash(y, m, d) - 10000 * y = 100 * m + d
  BY DEF DayHash
<1>4. (100 * m + d) \div 100 = m
  OBVIOUS
<1> QED BY <1>2, <1>3, <1>4 DEF YearOfHash, MonthOfHash, DayOfHash

LEMMA TimeDigits ==
  ASSUME NEW h \in Int, NEW m \in Int, NEW s \in Int, IsTime(h, m, s), NEW fr, fr = TimeAt(h, m, s)
  PROVE  HourOf(fr) = h /\ MinuteOf(fr) = m /\ SecondsOf(fr) = s
<1> DEFINE r == 6000 * m + s
<1>1. r \in Int /\ 0 <= r /\ r < 360000 /\ fr = 360000 * h + r
  BY DEF IsTime, TimeAt
<1> HIDE DEF r
<1>2. fr \div 360000 = h /\ fr % 360000 = r
  BY <1>1
<1>3. r \div 6000 = m
  BY DEF r, IsTime
<1>4. fr % 6000 = s
  <2> DEFINE q == 60 * h + m
  <2>1. q \in Int /\ fr = 6000 * q + s
    BY DEF TimeAt
  <2> HIDE DEF q
  <2> QED BY <2>1 DEF IsTime
<1> QED BY <1>2, <1>3, <1>4 DEF HourOf, MinuteOf, SecondsOf

LEMMA PutHashIs ==
  ASSUME NEW n, NEW fr
  PROVE  PutHash(<<n, fr>>) =
           [year |-> YearOfHash(n), month |-> MonthOfHash(n), day |-> DayOfHash(n),
            hour |-> HourOf(fr), minute |-> MinuteOf(fr), second |-> SecondsOf(fr)]
<1> DEFINE t == Midnight(YearOfHash(n), MonthOfHash(n), DayOfHash(n))
<1>1. PutHash(<<n, fr>>) = PutFraction(t, fr)
  BY DEF PutHash, YearOfHash, MonthOfHash, DayOfHash
<1>2. t = [year |-> YearOfHash(n), month |-> MonthOfHash(n), day |-> DayOfHash(n),
           hour |-> 0, minute |-> 0, second |-> 0]
  BY DEF Midnight
<1> HIDE DEF t
<1>3. PutFraction(t, fr) = [t EXCEPT !.hour = HourOf(fr), !.minute = MinuteOf(fr), !.second = SecondsOf(fr)]
  BY DEF PutFraction, HourOf, MinuteOf, SecondsOf
<1> QED BY <1>1, <1>2, <1>3

LEMMA KeptByHash ==
  ASSUME NEW t, Proper(t)
  PROVE  PutHash(Hash(t)) = t
<1> DEFINE y == t.year
           m == t.month
           d == t.day
           hour == t.hour
           minute == t.minute
           second == t.second
           fr == TimeOf(t)
<1>1. t = [year |-> y, month |-> m, day |-> d, hour |-> hour, minute |-> minute, second |-> second]
  <2>1. t \in Dates
    BY DEF Proper
  <2> QED BY <2>1 DEF Dates
<1>2. y \in Int /\ m \in 1 .. 12 /\ d \in 1 .. 31
  BY ProperDay
<1>3. hour \in Int /\ minute \in Int /\ second \in Int /\ IsTime(hour, minute, second)
  BY ProperFields DEF Proper, AtTime, IsTime
<1>4. fr = TimeAt(hour, minute, second)
  BY DEF TimeOf, TimeAt
<1>5. Hash(t) = <<DayHash(y, m, d), fr>>
  BY DEF Hash, DayHash, TimeOf
<1> HIDE DEF y, m, d, hour, minute, second, fr
<1>6. HourOf(fr) = hour /\ MinuteOf(fr) = minute /\ SecondsOf(fr) = second
  BY <1>3, <1>4, TimeDigits
<1> DEFINE n == DayHash(y, m, d)
<1>7. YearOfHash(n) = y /\ MonthOfHash(n) = m /\ DayOfHash(n) = d
  BY <1>2, HashDigits
<1> HIDE DEF n
<1>8. PutHash(<<n, fr>>) = t
  BY <1>1, <1>6, <1>7, PutHashIs
<1> QED BY <1>5, <1>8 DEF n

(* A day is taken to its index and to its hash and back without change          *)
(* (dtealgeb.cpp:538-615, 1030-1070).                                           *)
THEOREM DaysAreKept == Spec => []DayIsKept
<1>1. DateInv => DayIsKept
  <2> SUFFICES ASSUME DateInv, HasValue(date)
               PROVE  PutDayIndex(date, index) = date /\ PutHash(Hash(date)) = date
    BY DEF DayIsKept
  <2>1. Proper(date) /\ index = InRange(Number(date))
    BY DEF DateInv
  <2>2. index = Number(date)
    BY <2>1, ProperDay, ValueInRange, InRangeIs
  <2> QED BY <2>1, <2>2, KeptByIndex, KeptByHash
<1> QED BY <1>1, DateIsOnItsDay, PTL

(* The day of the week goes round with the days (dtealgeb.cpp:684-710).          *)
THEOREM WeekDaysGoRound == Spec => []WeekGoesRound
<1>1. DateInv => WeekGoesRound
  <2> SUFFICES ASSUME DateInv, HasValue(date) PROVE WeekDay(date) = ((index - 1) % 7) + 1
    BY DEF WeekGoesRound
  <2>1. Proper(date) /\ index = InRange(Number(date))
    BY DEF DateInv
  <2>2. index = Number(date)
    BY <2>1, ProperDay, ValueInRange, InRangeIs
  <2> QED BY <2>1, <2>2, WeekDayIs
<1> QED BY <1>1, DateIsOnItsDay, PTL

(* A move is seen forward or back by the hashes as it is by the days            *)
(* (dtealgeb.cpp:1030-1050, 1348-1394; tmsgrav.cpp:72-86).                      *)
THEOREM HashesAreOrdered == Spec => OrderOfHashes
<1> DEFINE Step == /\ index' > index => ~NotAfter(date', date)
                   /\ index' < index => ~NotAfter(date, date')
<1>1. DateInv /\ DateInv' => Step
  <2> SUFFICES ASSUME DateInv, DateInv' PROVE Step
    OBVIOUS
  <2>1. Proper(date) /\ index = InRange(Number(date)) /\ Proper(date') /\ index' = InRange(Number(date'))
    BY DEF DateInv
  <2>2. Number(date) \in Int /\ Number(date') \in Int
    BY <2>1, ProperDay
  <2>3. /\ index' > index => Number(date) < Number(date')
        /\ index' < index => Number(date') < Number(date)
    BY <2>1, <2>2 DEF InRange, BeginIndex, EndIndex
  <2> QED BY <2>1, <2>3, LaterDayLaterHash
<1>2. DateInv /\ DateInv' => [Step]_vars
  BY <1>1
<1> QED BY <1>2, DateIsOnItsDay, PTL DEF OrderOfHashes

=============================================================================
