SPECIFICATION ServicesSpec
CONSTANTS
  NoHeader = NoHeader
  Deployments <- MCDeployments
  Envs <- MCEnvs
  Requests = {1, 2}
  MaxMishaps = 2
INVARIANTS
  DrainedBeforeClosed
PROPERTIES
  ComesBack
CHECK_DEADLOCK FALSE
