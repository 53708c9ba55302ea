SPECIFICATION Spec
CONSTANTS
  OrderIds = {o1, o2}
  ResultIds = {}
  Devices = {d1}
  ProbeDevice = probe
  None = None
  Windows = {}
  RunningStale = 0
  RebootWindow = 0
  RebootCooldown = 1
  Runners = {"phone", "probe"}
  OrderTypes = {"reboot_router"}
  MaxTime = 2
SYMMETRY Symmetry
PROPERTIES CooldownCoversAllSentReboots
CHECK_DEADLOCK FALSE
