CONSTANTS
  Objs = {o1, o2, o3}
  None = None
  Configs <- MCConfigs
  DefaultMax = 2
SPECIFICATION FairSpec
INVARIANTS
  TypeOK
  ThreadsAreOwned
  QuietWhenStopped
  ReportsFollowMetrics
PROPERTIES
  ConfigureWhenQuiet
  HandlersEnd
