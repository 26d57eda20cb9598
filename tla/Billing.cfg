SPECIFICATION Spec
CONSTANTS
  None = None
  u1 = u1
  u2 = u2
  u3 = u3
  e4 = e4
  e5 = e5
  slug = slug
  Users = {u1, u2, u3}
  Clients = {1, 2}
  Mailers = {1}
  KeyRoles = {"admin"}
  InviteEmails = {}
  Slugs = {slug, 1}
  OtherIntents = {}
  MaxOrgs = 2
  MaxInvites = 3
  MaxTokens = 3
  MaxIntents = 2
  MaxRequests = 2
  Admins = {u2}
  Prices <- MCPrices
  Hooks = {1, 2}
  Customs = {0, 9}
  Outcomes = {"canceled", "paid"}
  MaxEvents <- MCEvents
  MaxFaults = 1
  OperatorPlans = {"tier3"}
  Starts <- BillingStarts
INVARIANTS
  MirrorsProvider
PROPERTIES
  EventsSettle
CHECK_DEADLOCK FALSE
