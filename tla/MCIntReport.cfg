SPECIFICATION ReportSpec
CONSTANTS
  Versions = {4, 6}
  Segments = {0, 2, 3}
  DataOffsets = {0, 5, 6, 8}
  Queues = {0, 5, 300}
  MaxHops = 2
  NoReport = NoReport
INVARIANT FieldsFound
INVARIANT OnlySourceDepthLost
