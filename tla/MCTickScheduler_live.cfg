SPECIFICATION FairSpec
CONSTANTS
  w1 = w1
  w2 = w2
  p1 = p1
  p2 = p2
  q1 = q1
  s1 = s1
  s2 = s2
  Workers = {w1}
  Requests = {}
  Projects = {p1, p2}
  Schedules = {s1}
  ProjectOf <- TwoProjects
  Interval = 1
  ReapAge = 0
  MaxConcurrency = 1
  Cells = 0
  Edited = {s1}
  MaxTime = 2

PROPERTIES
  StaleClaimSettles
  DueSlotServed
CHECK_DEADLOCK FALSE
