SPECIFICATION Spec
CONSTANTS
  Request = {r1}
  Dispatch = {d1}
INVARIANTS
  OneAnswer
