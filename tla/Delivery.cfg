SPECIFICATION Spec
CONSTANTS
  None = None
  Blank = Blank
  m1 = m1
  m2 = m2
  key = key
  Script <- MCScript
  Channels <- MCChannels
  Members <- MCMembers
  Hooks <- MCHooks
  Attempts = 2
  HookAttempts = 2
  Budget = 1
  MaxAge = 2
  MaxRemovals = 1
INVARIANTS
  RowsAreTrue
  EmailReachesTeam
PROPERTIES
  RecoveryClosesAlert
  HandlingEnds
CHECK_DEADLOCK FALSE
