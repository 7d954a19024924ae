SPECIFICATION FairSweeps
CONSTANTS
  wa = wa
  wb = wb
  c1 = c1
  j1 = j1
  j2 = j2
  p1 = p1
  point1 = point1
  point2 = point2
  total1 = total1
  Nobody = Nobody
  Workers = {wa, wb}
  Commands = {}
  Jobs = {j1, j2}
  Projects = {p1}
  ProjectOf <- OneProject
  Rows = {point1, total1}
  Totals = {total1}
  SortKey <- SameDay
  Volatile = {}
  BatchSize = 1
  h1 = h1
  e1 = e1
  e2 = e2
  pa = pa
  Webhooks = {h1}
  Events = {e1, e2}
  Pollers = {pa}
  Subscribed <- AllSubscribe
  BatchLimit = 2
  Threshold = 1
INVARIANTS
  JobsRunOnce
PROPERTIES
  PendingIsClaimed
  RunningSettles
  PendingIsSettled
CHECK_DEADLOCK FALSE
