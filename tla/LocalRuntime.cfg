SPECIFICATION Spec
CONSTANTS
  Launchers = {l1, l2}
  Pids = {p1, p2, p3}
  NoPid = NoPid
  Keys = {k1, k2}
  NoKey = NoKey
  EmptyKey = EmptyKey
  Agents = {a1, a2, a3}
  NoAgent = NoAgent
  MaxCommands = 2
  MaxFaults = 1
INVARIANTS
  RuntimeInv
  NothingUntracked
PROPERTIES
  EditsAreKept
  CommandsWork
CHECK_DEADLOCK FALSE
