SPECIFICATION Spec
CONSTANTS
  h1 = h1 h2 = h2 h3 = h3 LE1 = LE1 LE2 = LE2 SP1 = SP1 SP2 = SP2
  fA = fA fB = fB fC = fC
  Hosts <- MCHosts
  Switches <- MCSwitches
  Links <- MCLinks
  Detour = 0
  Flows = {fA, fB, fC}
  Src <- MCSrc
  Dst <- MCDst
  EcmpPath <- MCEcmpPath
  NoPath = NoPath
  Dscps = {d0, d8}
  DscpInt = dInt
  Lengths = {60, 65500}
  Modulus = 65536
  MaxHop = 4
  Slots = {k1}
  Idle = Idle
  Absent = Absent
INVARIANT TypeOK
INVARIANT FollowsSourceRoute
INVARIANT ReportTellsRoute
PROPERTY DeliversAsSent
CHECK_DEADLOCK FALSE
