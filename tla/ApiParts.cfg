SPECIFICATION Spec
CONSTANTS
  None = None
  Nothing = Nothing
  NoCall = NoCall
  Null = Null
  Garbled = Garbled
  End = End
  e1 = e1
  e2 = e2
  s1 = s1
  s2 = s2
  u1 = u1
  o1 = o1
  i1 = i1
  m1 = m1
  m2 = m2
  Clients = {1, 2}
  Browsers = {1}
  Configured = {"google", "github"}
  ProviderAccounts <- MCAccounts
  DevLogin = TRUE
  LinkEmails = {e2}
  MaxUsers = 2
  MaxFlows = 1
  MaxLinks = 1
  MaxRequests = 3
  MaxTokens = 4
  KeyOrg = o1
  KeyPlan = "tier3"
  KeyActors <- MCKeyActors
  Verifiers = {1, 2}
  MaxKeys = 1
  Orgs = {o1}
  Callers = {1, 2}
  Actors <- MCActors
  Monitors <- MCMonitors
  Plan = "tier2"
  Emails = {e1}
  Ips = {i1}
  MaxPerWindow = 1
  EmailLimit = 1
  IpLimit = 2
  MaxCount = 3
  MaxFaults = 1
  Pages = {1}
  Desks = {1}
  Staff <- MCStaff
  OrgOf <- MCOrgOf
  CheckRegions = {"eu", "us"}
  Ranges = {1}
  PageSize = 1
  MaxClock = 2
  MaxRows = 3
  MaxIncidents = 2
  MaxNotes = 1
INVARIANTS
  ChainIntact
  OneSignInPerLink
  WithinLimits
  ListedOnce
  AnswersHold
PROPERTIES
  RevocationTakesHold
  WindowReopens
CHECK_DEADLOCK FALSE
