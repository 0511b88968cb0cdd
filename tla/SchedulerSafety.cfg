SPECIFICATION Spec
CONSTANTS
  Jobs = {j1}
  Runs = {r1, r2}
  Ticks = {k1, k2}
  NoJob = NoJob
  NoRun = NoRun
  Periods = {1, 2}
  MaxTime = 4
  MaxEdits = 1
  MaxFaults = 3
  MaxCrashes = 1
SYMMETRY Symmetry
INVARIANTS SchedInv  OncePerFiring
PROPERTY RecordedRunsNeverOverlap
CHECK_DEADLOCK FALSE
