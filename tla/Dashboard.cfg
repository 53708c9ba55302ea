SPECIFICATION DashboardSpec
CONSTANTS
  Addresses <- MCAddresses
  Family <- MCFamily
  Pool <- MCPool
  Link <- MCLink
  Asn <- MCAsn
  RelayAsns <- MCRelayAsns
  Uplinks <- MCUplinks
  SimAddresses <- MCSimAddresses
  OtherAddresses <- MCOtherAddresses
  Tests = {t1, t2}
  Commands = {c1}
  ObsMax = 1
  QueueMax = 1
  NoAddress = NoAddress
  MaxEvents = 4
  Devices = {"d1", "d2", "d3"}
  Tables = {"ta", "tb"}
  Agents = {"d3"}
  Main = "main"
  Operator <- MCOperator
  Requests <- MCRequests
  OldTargets <- MCOldTargets
  LastLetter = 3
  Results = {result}
  NoDevice = NoDevice
  KeepAsn = KeepAsn
  MaxSaves = 2
  Slots = {A}
  Skew = 3
  HealthFresh = 1
  CheckStale = 1
  OfflineAfter = 1
  AgentLookback = 2
  Cooldown = 1
  MaxDelay = 1
  Never = Never
  Pages = {}
  MaxTime = 3
  MaxChecks = 3
  MaxSends = 2
  MaxOther = 1
INVARIANTS
  NetTypeOK EgressAsnIsOfItsAddress HeadlineIsHonest SureOtherNetworkIsTrue UnverifiedRequestIsNeverSure EquipmentAlwaysCounts
  ConfigTypeOK LettersAreDistinct SureResultIsTrue
  WatchTypeOK AdviceIsEarned AdviceIsNotMissed AdviceIsActionable
PROPERTIES NoLatePromotion LettersAreKept StatusNeverGoesBack
SYMMETRY Symmetry
CHECK_DEADLOCK FALSE
