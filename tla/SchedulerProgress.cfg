\* Two jobs, enough failures for the breaker, a lost answer at any of them and a crash.
SPECIFICATION ProgressSpec
CONSTANTS
  Jobs = {j1, j2}
  Runs = {1, 2, 3, 4, 5}
  Ticks = {k1}
  NoJob = NoJob
  NoRun = NoRun
  Periods = {1, 3}
  MaxTime = 3
  MaxEdits = 0
  MaxFaults = 3
  MaxCrashes = 1
ACTION_CONSTRAINT RunsInOrder
PROPERTY DueIsTakenUp
CHECK_DEADLOCK FALSE
