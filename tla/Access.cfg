SPECIFICATION Spec
CONSTANTS
  Keys = {k1, k2, k3}
  NoKey = NoKey
  Requests = {r1, r2}
  Approvals = {a1}
  Starters = {gateway, script}
  Gateway = gateway
  MaxTime = 3
  Retention = 1
  MaxFaults = 1
SYMMETRY Interchangeable
INVARIANTS
  AccessInv
  BootstrapOnce
PROPERTIES
  RevocationIsFinal
CHECK_DEADLOCK FALSE
