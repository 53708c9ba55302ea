SPECIFICATION Spec
CONSTANTS
  Commands = {1, 2}
  Runs = {r1, r2}
  Devices = {d1}
  Probe = probe
  Cyclers = {}
  Scheduler = scheduler
  Asked = {"agent", "probe"}
  None = None
  StaleClaimAfter = 1
  Interval = 1
  MaxFailures = 0
  MaxDeaths = 0
SYMMETRY Symmetry
PROPERTIES ClaimsAreExclusive
CHECK_DEADLOCK FALSE
