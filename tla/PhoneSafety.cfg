SPECIFICATION Spec
CONSTANTS
  OrderIds = {o1, o2}
  ResultIds = {r1}
  Devices = {d1}
  ProbeDevice = probe
  None = None
  Windows = {0}
  RunningStale = 0
  RebootWindow = 0
  RebootCooldown = 1
  Runners = {"phone", "probe"}
  OrderTypes = {"run_speedtest", "reboot_router"}
  MaxTime = 1
SYMMETRY Symmetry
INVARIANTS TypeOK LinkIntegrity OneRebootQueued NoResultLeftOut
PROPERTIES HardFinalIsFinal CooldownCoversSentReboots ImplementsOrderLifecycle
CHECK_DEADLOCK FALSE
