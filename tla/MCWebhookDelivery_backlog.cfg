SPECIFICATION Spec
CONSTANTS
  wa = wa
  wb = wb
  e1 = e1
  e2 = e2
  e3 = e3
  pa = pa
  pb = pb
  Webhooks = {wa, wb}
  Events = {e1, e2}
  Pollers = {pa}
  Subscribed <- OneAndBoth
  BatchLimit = 1
  Threshold = 1

INVARIANT
  SiblingsAreListed
CHECK_DEADLOCK FALSE
