SPECIFICATION Spec
CONSTANTS
  Levels = {0, 1, 2, 3, 4}
  MaxAttempts = 10
INVARIANTS
  SandboxInv
PROPERTIES
  NoKillAfterAnswer
  CallEnds
CHECK_DEADLOCK FALSE
