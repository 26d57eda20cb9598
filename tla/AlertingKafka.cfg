SPECIFICATION Spec
CONSTANTS
  None = None
  Bus = "kafka"
  Consumers = {c1, c2}
  Regions = {r1}
  Payloads = {TRUE, FALSE}
  CertDays = {None}
  Types = {"http", "ssl"}
  Thresholds = {1}
  MaxResults = 2
  MaxAt = 2
  MaxFaults = 3
  MaxEdits = 1
INVARIANTS
  OneOpenIncident
  PlainOnce
  UpOnlyIfRecovered
PROPERTIES
  ClosedIsFinal
SYMMETRY Symmetry
CHECK_DEADLOCK FALSE
