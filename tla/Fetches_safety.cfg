SPECIFICATION Spec
CONSTANTS
  Fetch = {f1, f2, f3, f4}
  NotifyCap = 2
SYMMETRY Symmetry
INVARIANTS
  IInv
  TrackedOnce
  HandlesBalance
  HasPendingExact
  NoLostWakeup
