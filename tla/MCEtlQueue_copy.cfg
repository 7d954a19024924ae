SPECIFICATION Spec
CONSTANTS
  wa = wa
  wb = wb
  c1 = c1
  j1 = j1
  j2 = j2
  p1 = p1
  point1 = point1
  point2 = point2
  total1 = total1
  Nobody = Nobody
  Workers = {wa}
  Commands = {c1}
  Jobs = {j1, j2}
  Projects = {p1}
  ProjectOf <- OneProject
  Rows = {point1, point2, total1}
  Totals = {total1}
  SortKey <- SameDay
  Volatile = {total1}
  BatchSize = 2
INVARIANTS
  TypeOK
  CheckpointIsBacked
PROPERTIES
  FinishedIsWhole
  BoundaryCutsConverge
CHECK_DEADLOCK FALSE
