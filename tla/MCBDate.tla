------------------------------ MODULE MCBDate ------------------------------
(***************************************************************************)
(* Instance of BDate for TLC: every day the calendar has, and moves of a    *)
(* day up to some cycles of the calendar from the days of a few years.      *)
(***************************************************************************)
EXTENDS BDate

MCYears == 1583 .. 2499
MCDays == {-146097, -366, -31, -1, 2, 59, 1461, 36525}
MCWeeks == {-53, -2, -1, 0, 1, 2}
MCMonths == {-25, -12, -1, 1, 11, 14}
MCYearCounts == {-2, -1, 1, 4}
MCHundredths == {-8640001, -6000, -1, 1, 359999, 8999999}
=============================================================================
