SPECIFICATION Spec
CONSTANTS
  OrderIds = {o1}
  ResultIds = {r1, r2}
  Devices = {d1}
  ProbeDevice = probe
  None = None
  Windows = {0}
  RunningStale = 0
  RebootWindow = 0
  RebootCooldown = 1
  Runners = {}
  OrderTypes = {"run_speedtest", "reboot_router"}
  MaxTime = 1
  MaxLate = 1
  MaxFaults = 1
SYMMETRY Symmetry
VIEW OneOrderView
INVARIANTS TypeOK Agreement SentRebootsCount PhoneKeepsContract
PROPERTIES StartsOnce
CHECK_DEADLOCK FALSE
