SPECIFICATION WatchSpec
CONSTANTS
  Slots = {A}
  Skew = 3
  HealthFresh = 1
  CheckStale = 1
  OfflineAfter = 1
  AgentLookback = 2
  Cooldown = 1
  MaxDelay = 1
  Never = Never
  Pages = {"other"}
  MaxTime = 3
  MaxChecks = 2
  MaxSends = 1
  MaxOther = 0
INVARIANTS SwappedRouterIsNotBlamed
CHECK_DEADLOCK FALSE
