SPECIFICATION ServicesSpec
CONSTANTS
  NoHeader = NoHeader
  Deployments <- Both
  Envs <- Plain
  Requests = {1}
  MaxMishaps = 0
INVARIANTS
  HeadersDecrypted
CHECK_DEADLOCK FALSE
