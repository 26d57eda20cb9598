SPECIFICATION FairSpec
CONSTANTS
  None = None
  Bus = "redis"
  Consumers = {c1}
  Regions = {r1}
  Payloads = {TRUE}
  CertDays = {None, 7, 2}
  Types = {"ssl"}
  Thresholds = {1, 2}
  MaxResults = 3
  MaxAt = 3
  MaxFaults = 2
  MaxEdits = 1
INVARIANTS
  TypeOK
  CountersMatchHistory
  OpenIncidentIsCurrent
  AckedIsApplied
  NotifyOnce
PROPERTIES
  ActsAtomically
  AllProcessed
CHECK_DEADLOCK FALSE
