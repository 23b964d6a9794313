SPECIFICATION FairSpec
CONSTANTS
  Requests = {r1, r2}
  PerRequest = 1
  FromTasks = 2
  Pollers = {p1, p2}
  Batch = 2
  Refused = {1}
  MaxFailures = 2
  NoRequest = NoRequest
INVARIANTS
  DeliveredOnce
  
PROPERTIES
  DeliverySpec
  AllPublished
CHECK_DEADLOCK FALSE
