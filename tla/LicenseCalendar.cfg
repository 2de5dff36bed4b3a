SPECIFICATION Spec
CONSTANTS
  DayParts = 3
  MonthLengths <- MCMonthLengths
  UpdateDays = {16, 27, 31}
  CheckDays = {11, 30}
  MaxReloads = 1
INVARIANT TypeOK
PROPERTIES
  UpdateWindowServed
  CheckDayPassedOnlyByDrift
CHECK_DEADLOCK FALSE
