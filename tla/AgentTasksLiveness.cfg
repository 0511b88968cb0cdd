\* One call at a time beside the executions, a repository error and a crash.
SPECIFICATION FairSpec
CONSTANTS
  Tasks = {t1}
  Runs = {r1, r2}
  Messages = {m1}
  Calls = {c1}
  NoTask = NoTask
  NoRun = NoRun
  MaxRunMessages = 2
  MaxFaults = 1
  MaxCrashes = 1
  MaxDeletions = 1
PROPERTIES
  LaunchReleased
  RunningTaskSettles
CHECK_DEADLOCK FALSE
