SPECIFICATION Spec
CONSTANTS
  None = None
  u1 = u1
  u2 = u2
  u3 = u3
  e4 = e4
  e5 = e5
  slug = slug
  Users = {u1, u2, u3}
  Clients = {1, 2}
  Mailers = {1, 2}
  KeyRoles = {"admin"}
  InviteEmails = {u3, e4, e5}
  Slugs = {slug, 1}
  OtherIntents = {"channel_test", "unknown"}
  MaxOrgs = 2
  MaxInvites = 3
  MaxTokens = 3
  MaxIntents = 2
  MaxRequests = 2
  Admins = {u2}
  Prices <- MCPrices
  Hooks = {1}
  Customs = {}
  Outcomes = {"canceled"}
  MaxEvents <- FewEvents
  MaxFaults = 0
  OperatorPlans = {"tier1"}
  Starts <- MemberStarts
INVARIANTS
  OwnerKept
  InviteReachable
PROPERTIES
  SeatsBounded
CHECK_DEADLOCK FALSE
