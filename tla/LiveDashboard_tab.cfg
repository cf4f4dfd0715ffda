SPECIFICATION FairLive
CONSTANTS
  Query = {"tasks"}
  Metric = {"system"}
  Visited = {"dashboard"}
  MaxVersion = 3
  MaxChanges = 2
  Budget = 1
INVARIANT LiveTypeOK
PROPERTIES
  UpdatesAreNotForgotten
  PushSuffices
  PollingCatchesUp
  OwnCommandsShow
  MetricsKeepUp
