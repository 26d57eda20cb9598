SPECIFICATION Spec
CONSTANTS
  None = None
  Bus = "kafka"
  Keys <- SSLKeys
  Consumers = {c1, c2}
  MaxFaults = 1
  Payloads = {TRUE, FALSE}
  Channels = {a}
  Hooks = {h}
  maxRetries = 2
  MaxEvents = 2
  MaxEvictions = 1
  MaxEdits = 1
INVARIANTS
  DeliveredOnce
  SoleDispatcher
  EveryAlertTried
SYMMETRY Symmetry
CHECK_DEADLOCK FALSE
