SPECIFICATION Spec
CONSTANTS
  None = None
  Blank = Blank
  o1 = o1
  o2 = o2
  u1 = u1
  u2 = u2
  secretValue = secretValue
  c1 = c1
  c2 = c2
  Orgs = {o1, o2}
  Users = {u1, u2, 0}
  Clients = {c1, c2}
  Actors <- MCActors
  Values = {secretValue}
  PlanMoves <- MCMoves
  MaxRequests = 3
  MonitorInputs <- MCMonitorInputs
  MonitorResolver <- MCLimits
  MaxMonitors = 3
  ChannelInputs <- MCChannelInputs
  HookInputs <- MCHookInputs
  Members <- MCMembers
  MaxChannels = 2
  MaxHooks = 2
  PageInputs <- MCPageInputs
  PageCaps <- MCCaps
  MaxPages = 3
INVARIANTS
  CapSlack
  OrgsApart
  SecretsConfined
  ChannelsSendable
  SigningSecretIsCurrent
CHECK_DEADLOCK FALSE
