CONSTANTS
  Principals = {a, b}
  MaxRowsPerHour = 2
  MinShare = 1
  ShareDivisor = 10
  MaxHourBuckets = 1
  ClockStepsBack = TRUE
  Hours <- MCHours
  MaxAttempts = 3
  MaxFailures = 1
SPECIFICATION LiveSpec
INVARIANTS TypeOK BudgetNotRearmed StoredIsReal
PROPERTIES FigureNeverCollapses FiguresReachTheTable
