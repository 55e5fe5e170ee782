SPECIFICATION Spec
CONSTANTS
  Runtime = {r1, r2}
  Context = {c1, c2, c3}
  Address = {a1, a2}
  MaxFn = 2
  MaxJobs = 2
  None = None
SYMMETRY Symmetry
INVARIANTS
  IInv
  ContextsListed
  CallsOpenContext
  FunctionsTracked
