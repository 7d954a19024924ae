SPECIFICATION FairSpec
CONSTANTS
  wa = wa
  wb = wb
  e1 = e1
  e2 = e2
  e3 = e3
  pa = pa
  pb = pb
  Webhooks = {wa}
  Events = {e1}
  Pollers = {pa}
  Subscribed <- AllSubscribe
  BatchLimit = 1
  Threshold = 1

PROPERTIES
  FailedIsRetried
CHECK_DEADLOCK FALSE
