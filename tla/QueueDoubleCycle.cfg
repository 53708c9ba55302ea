SPECIFICATION Spec
CONSTANTS
  Commands = {1, 2}
  Runs = {r1}
  Devices = {d1}
  Probe = probe
  Cyclers = {dashboard, scheduler}
  Scheduler = scheduler
  Asked = {}
  None = None
  StaleClaimAfter = 1
  Interval = 1
  MaxFailures = 0
  MaxDeaths = 0
PROPERTIES CyclesDoNotDuplicate
CHECK_DEADLOCK FALSE
