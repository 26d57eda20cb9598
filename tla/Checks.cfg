SPECIFICATION Spec
CONSTANTS
  None = None
  m1 = m1
  r1 = r1
  r2 = r2
  Monitors = {m1}
  DefaultRegion = r1
  Regions = {r1, r2}
  Configs <- MCConfigs
  Worlds <- MCWorlds
  Block = TRUE
  MaxStream = 1
  MaxFaults = 1
  MaxEdits = 1
INVARIANTS
  VerdictIsRight

PROPERTIES
  KeepsChecking
  LiveStateHeals
