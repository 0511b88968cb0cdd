\* Two messages and one republished entry, two failures, a close event, a stop or crash.
SPECIFICATION Spec
CONSTANTS
  Payloads = {p1, p2}
  NoPayload = NoPayload
  Entries = {e1, e2, e3}
  NoEntry = NoEntry
  Clients = {c1, c2}
  NoClient = NoClient
  BatchSize = 2
  MaxRetries = 1
  MaxFaults = 2
  MaxCloses = 1
  MaxStops = 1
SYMMETRY Symmetry
INVARIANTS
  IntakeInv
  NothingLost
  DuplicatesNeedFaults
CHECK_DEADLOCK FALSE
