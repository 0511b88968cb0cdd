\* Close events only: every client that is replaced leaves a loop at work.
SPECIFICATION FairSpec
CONSTANTS
  Payloads = {p1, p2}
  NoPayload = NoPayload
  Entries = {e1, e2}
  NoEntry = NoEntry
  Clients = {c1, c2}
  NoClient = NoClient
  BatchSize = 2
  MaxRetries = 1
  MaxFaults = 1
  MaxCloses = 1
  MaxStops = 0
PROPERTY
  WaitingIsHandled
CHECK_DEADLOCK FALSE
