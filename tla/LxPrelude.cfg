SPECIFICATION Spec
CONSTANTS
  Request = {r1, r2}
  Dispatch = {d1}
INVARIANTS
  IInv
  CallbackDiscipline
  AnswersFit
PROPERTIES
  CancelledIsSilent
  EveryRequestCalls
  EveryPromiseAnswered
