SPECIFICATION LiveSpec
CONSTANTS
  Commands = {1, 2}
  Runs = {r1, r2}
  Devices = {d1}
  Probe = probe
  Cyclers = {dashboard}
  Scheduler = scheduler
  Asked = {"agent"}
  None = None
  StaleClaimAfter = 0
  Interval = 0
  MaxFailures = 1
  MaxDeaths = 1
INVARIANTS TypeOK MeasuredOnce
PROPERTIES ImplementsCommandLifecycle NoneBlocked
CHECK_DEADLOCK FALSE
