SPECIFICATION Spec
CONSTANTS
  wa = wa
  wb = wb
  e1 = e1
  e2 = e2
  e3 = e3
  pa = pa
  pb = pb
  Webhooks = {wa}
  Events = {e1, e2}
  Pollers = {pa, pb}
  Subscribed <- AllSubscribe
  BatchLimit = 2
  Threshold = 2

SYMMETRY Symmetric
INVARIANTS
  TypeOK
  AnswerBacksOutcome
  NoSelfRepeat
  OnlyRejectsDisable
  StreakDisables
PROPERTIES
  OutcomeIsFinal
CHECK_DEADLOCK FALSE
