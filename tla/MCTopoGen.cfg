SPECIFICATION Spec
CONSTANTS
  MaxSNum = 12
  HostsPerLeaf = 2
  Lost = Lost
  Collector = collector
INVARIANT TypeOK
INVARIANT OnlyTargetReached
PROPERTY Arrives
PROPERTY FollowsSegments
CHECK_DEADLOCK FALSE
