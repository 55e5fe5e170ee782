SPECIFICATION Spec
CONSTANTS
  MaxTimers = 2
  Capacity = 1
INVARIANT CloseWaitsForAll
