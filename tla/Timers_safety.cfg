SPECIFICATION Spec
CONSTANTS
  MaxTimers = 3
  Capacity = 2
INVARIANTS
  IInv
  RefBalance
  IntervalOutlived
  HasPendingComplete
PROPERTY ContractSpec
