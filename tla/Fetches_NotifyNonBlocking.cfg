SPECIFICATION Spec
CONSTANTS
  Fetch = {f1, f2, f3}
  NotifyCap = 1
INVARIANT NotifyNonBlocking
