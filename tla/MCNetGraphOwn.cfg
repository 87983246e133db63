SPECIFICATION FairSpec
CONSTANTS
  h1 = h1 h2 = h2 h3 = h3 h4 = h4
  LE1 = LE1 LE2 = LE2 LE3 = LE3 SP1 = SP1 SP2 = SP2
  fA = fA fB = fB none = none
  NoPath = none
  Hosts <- HostsY
  Switches <- SwitchesY
  Links <- LinksY
  Detour = 0
  Flows = {fA, fB}
  Src <- SplitSrc
  Dst <- SplitDst
  FlowKey <- OwnKey
  EcmpPath <- EcmpFirst
  Levels = {0, 1}
  Cost <- CostTwo
  Delta = 1
  MaxReports = 2
  MaxShifts = 2
  Persistent = {fA}
  Cut = {}
  ThriftMayFail = TRUE
  AnswerMayBeLost = FALSE
INVARIANT DigestMatchesRoute
PROPERTIES MovesOneFlow SettlesOnLightPath
CHECK_DEADLOCK FALSE
