SPECIFICATION Spec
CONSTANTS
  w1 = w1
  w2 = w2
  p1 = p1
  p2 = p2
  q1 = q1
  s1 = s1
  s2 = s2
  Workers = {w1, w2}
  Requests = {}
  Projects = {p1}
  Schedules = {s1}
  ProjectOf <- OneProject
  Interval = 1
  ReapAge = 0
  MaxConcurrency = 1
  Cells = 1
  Edited = {s1}
  MaxTime = 2
SYMMETRY WorkerSymmetry
INVARIANTS
  TypeOK
  AtMostOnce
  EventsTell
PROPERTIES
  SettledIsFinal
CHECK_DEADLOCK FALSE
