SPECIFICATION Spec
CONSTANTS
  Years <- MCYears
  MoveYears = {1583, 1600, 1700, 1904, 2100, 2499}
  Days <- MCDays
  Weeks <- MCWeeks
  Months <- MCMonths
  YearCounts <- MCYearCounts
  Hundredths <- MCHundredths
INVARIANTS
  IndexCountsDays
  DayIsKept
  WeekGoesRound
  EasterByTheTable
PROPERTY OrderOfHashes
CHECK_DEADLOCK FALSE
