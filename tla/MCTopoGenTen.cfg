SPECIFICATION Spec
CONSTANTS
  MaxSNum = 15
  HostsPerLeaf = 2
  Lost = Lost
  Collector = collector
PROPERTY Arrives
CHECK_DEADLOCK FALSE
