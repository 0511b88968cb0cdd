\* Every mix of three invocations, every outcome.
SPECIFICATION BatchFairSpec
CONSTANT N = 3
INVARIANTS
  BatchInv
  ResultsInOrder
  SerialCallsAlone
  CancelledForSibling
PROPERTY AlwaysReturns
CHECK_DEADLOCK FALSE
