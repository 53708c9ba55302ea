SPECIFICATION LiveSpec
CONSTANTS
  Tables = {a, b}
  Main = main
  None = None
  MaxForced = 8
  Stretch = 1
  GpsWait = 3
  WatchdogMin = 10
  Tries = 2
  MaxFailures = 3
  MaxSwitches = 1
  MaxCrashes = 1
INVARIANTS TypeOK HonestEnd EthernetOnlyOnFallback
PROPERTIES WatchdogSparesTests RuleReturns
CHECK_DEADLOCK FALSE
