SPECIFICATION FairSpec
CONSTANTS
  Dests = {d1, d2}
  Main = main
  NoOne = none
  Iter = 2
  FanoutSizes = {1, 2}
  Sizes = {0, 2}
  Window = 1
  Mortal = {d1}
INVARIANT TypeOK
INVARIANT StatsComplete
INVARIANT CountsOutstanding
INVARIANT FlowsInSync
PROPERTY ImplementsLoop
PROPERTY Ends
CHECK_DEADLOCK FALSE
