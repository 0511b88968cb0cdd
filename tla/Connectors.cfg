SPECIFICATION Spec
CONSTANTS
  Types = {"queue", "polling", "webhook"}
  Requests = {r1, r2}
  Boot = boot
  Subs = {s1, s2}
  NoSub = NoSub
  Messages = {m1}
  Polls = {p1, p2}
  MaxEdits = 1
  MaxContent = 3
  MaxCloses = 1
  MaxFaults = 2
INVARIANTS
  
  EventInv
PROPERTIES
  SettlesOnLatest
  
CHECK_DEADLOCK FALSE
