SPECIFICATION Spec
CONSTANTS
  w1 = w1
  w2 = w2
  p1 = p1
  p2 = p2
  q1 = q1
  s1 = s1
  s2 = s2
  Workers = {w1}
  Requests = {q1}
  Projects = {p1}
  Schedules = {s1}
  ProjectOf <- OneProject
  Interval = 2
  ReapAge = 0
  MaxConcurrency = 1
  Cells = 1
  Edited = {s1}
  MaxTime = 3

INVARIANTS
  Ownership
  CompletedIsWhole
  GapsAreManual
PROPERTIES
  TicksFollowLedger
CHECK_DEADLOCK FALSE
