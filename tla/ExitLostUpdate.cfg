SPECIFICATION NetSpec
CONSTANTS
  Addresses <- MCAddresses
  Family <- MCFamily
  Pool <- MCPool
  Link <- MCLink
  Asn <- MCAsn
  RelayAsns <- MCRelayAsns
  Uplinks <- MCUplinks
  SimAddresses <- MCSimAddresses
  OtherAddresses <- MCOtherAddresses
  Tests = {t1}
  Commands = {c1}
  ObsMax = 1
  QueueMax = 1
  NoAddress = NoAddress
  MaxEvents = 3
INVARIANTS ColumnsMatchRaw

CHECK_DEADLOCK FALSE
