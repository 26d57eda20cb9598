SPECIFICATION Spec
CONSTANTS
  None = None
  Bus = "redis"
  Consumers = {c1}
  Regions = {r1}
  Payloads = {TRUE}
  CertDays = {None}
  Types = {"http"}
  Thresholds = {1}
  MaxResults = 2
  MaxAt = 2
  MaxFaults = 1
  MaxEdits = 0
INVARIANTS
  NotificationNotLost
CHECK_DEADLOCK FALSE
