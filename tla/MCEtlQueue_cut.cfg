SPECIFICATION FairSpec
CONSTANTS
  wa = wa
  wb = wb
  c1 = c1
  j1 = j1
  j2 = j2
  p1 = p1
  point1 = point1
  point2 = point2
  total1 = total1
  Nobody = Nobody
  Workers = {wa}
  Commands = {}
  Jobs = {j1, j2}
  Projects = {p1}
  ProjectOf <- OneProject
  Rows = {point1, total1}
  Totals = {total1}
  SortKey <- SameDay
  Volatile = {}
  BatchSize = 1
PROPERTIES
  ResumeConverges
CHECK_DEADLOCK FALSE
