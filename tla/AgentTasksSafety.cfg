\* Two concurrent calls and a repository error.
SPECIFICATION Spec
CONSTANTS
  Tasks = {t1}
  Runs = {r1, r2}
  Messages = {m1}
  Calls = {c1, c2}
  NoTask = NoTask
  NoRun = NoRun
  MaxRunMessages = 2
  MaxFaults = 1
  MaxCrashes = 0
  MaxDeletions = 0
SYMMETRY Symmetry
INVARIANTS
  LaunchInv
  ExclusiveExecution
  LaunchNeverLeaks
  RunningIsAttended
  TranscriptMirrorsRuns
  TranscriptUnbroken
PROPERTY ImplementsSerial
CHECK_DEADLOCK FALSE
