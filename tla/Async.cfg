SPECIFICATION Spec
CONSTANTS
  a = a
  t = t
  x = x
  c1 = c1
  c2 = c2
  Promise = {p1, p2, p3, p4, p5}
  Plain = {a}
  Thenable = {t}
  Poisoned = {x}
  Error = Error
  None = None
  Hook = Hook
  Array = Array
  MaxItems = 2
  Activation = {c1, c2}
  Iterated = Iterated
  Done = Done
  Scripts <- MCScripts
SYMMETRY Symmetry
CHECK_DEADLOCK FALSE
INVARIANTS
  IInv
  OneResolver
  CallbacksInOrder
  OutcomesFollow
  NothingForgotten
  CombinatorSound
  OneContinuation
  GeneratorServes
PROPERTIES
  SettledOnce
