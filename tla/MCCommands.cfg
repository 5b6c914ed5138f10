SPECIFICATION FairSpec
CONSTANTS
  Ssids = {0, 32}
  Keys = {0, 64}
  WepKeys = {5, 13}
  Hosts = {1, 230, 248}
  Services = {0, 32, 33}
  Options = {4}
  Datas <- MCDatas
  Socks = {0, 1}
  Verdicts <- MCVerdicts
  AnyByte = {0, 255}
INVARIANTS NeighbourSafe LengthExact
PROPERTIES VerdictReturned HandlesUsable CallsReturn
CHECK_DEADLOCK FALSE
