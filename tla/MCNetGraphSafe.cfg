SPECIFICATION FairSpec
CONSTANTS
  h1 = h1 h2 = h2 h3 = h3 h4 = h4
  LE1 = LE1 LE2 = LE2 LE3 = LE3 SP1 = SP1 SP2 = SP2
  fA = fA fB = fB none = none
  NoPath = none
  Hosts <- Hosts2
  Switches <- Switches2
  Links <- Links2
  Detour = 0
  Flows = {fA, fB}
  Src <- SharedSrc
  Dst <- SharedDst
  FlowKey <- CollidingKey
  EcmpPath <- EcmpSplit
  Levels = {0, 1}
  Cost <- CostTwo
  Delta = 1
  MaxReports = 2
  MaxShifts = 2
  Persistent = {fA}
  Cut = {fA}
  ThriftMayFail = TRUE
  AnswerMayBeLost = TRUE
INVARIANT TypeOK
INVARIANT RoutesReachTarget
CHECK_DEADLOCK FALSE
PROPERTY ViewConverges
