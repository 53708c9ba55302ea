SPECIFICATION Spec
CONSTANTS
  OrderIds = {o1, o2}
  ResultIds = {}
  Devices = {d1}
  ProbeDevice = probe
  None = None
  Windows = {}
  RunningStale = 1
  RebootWindow = 0
  RebootCooldown = 1
  Runners = {}
  OrderTypes = {"reboot_router"}
  MaxTime = 1
  MaxLate = 0
  MaxFaults = 0
SYMMETRY Symmetry
PROPERTIES NeverTwoRebootsInARow
CHECK_DEADLOCK FALSE
