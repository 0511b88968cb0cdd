SPECIFICATION Spec
CONSTANTS
  Segments = {"a", "..", "..a"}
  Dotted = {"..", "..a"}
  Cwd = "a"
  MaxDepth = 3
  MaxTurns = 2
  MaxFaults = 2
INVARIANTS
  RunInv
PROPERTIES
  ImplementsRunRecords
  RunSettles
CHECK_DEADLOCK FALSE
