SPECIFICATION LiveSpec
CONSTANTS
  OrderIds = {o1}
  ResultIds = {r1}
  Devices = {d1}
  ProbeDevice = probe
  None = None
  Windows = {0}
  RunningStale = 0
  RebootWindow = 0
  RebootCooldown = 1
  Runners = {}
  OrderTypes = {"run_speedtest"}
  MaxTime = 1
  MaxLate = 0
  MaxFaults = 1
PROPERTIES EverythingArrives SilentOrdersAreSwept
CHECK_DEADLOCK FALSE
