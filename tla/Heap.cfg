SPECIFICATION Spec
CONSTANTS
  o1 = o1
  o2 = o2
  o3 = o3
  f1 = f1
  f2 = f2
  v1 = v1
  m1 = m1
  w1 = w1
  r1 = r1
  Plain = {o1, o2, o3}
  Function = {f1, f2}
  VarRef = {v1}
  WeakMap = {m1}
  WeakRef = {w1}
  Registry = {r1}
  Slot = {"a"}
  Entry = {e1}
  None = None
  MaxHandles = 2
  Universes <- MCUniverses
SYMMETRY Symmetry
INVARIANTS
  CountsExact
  NothingDangles
PROPERTIES
  ReachableKept
  GarbageCollected
  FinalizationDelivered
