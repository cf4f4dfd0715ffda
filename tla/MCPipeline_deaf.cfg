SPECIFICATION FairPipeline
CONSTANTS
  TaskId = {t1}
  Request = {s1, s2}
  Key = {}
  Priority = {"NORMAL"}
  MaxRetries = {1}
  NoKey = NoKey
  NoTask = NoTask
  OutboxBound = 2
  CountBound = 3
  Worker = {w1}
  Prefetch = 1
  Runnable = {t1}
  Nothing = Nothing
  NoLane = NoLane
  Disturbance = {"workerDrop"}
  Budget = 1
PROPERTY DroppedWorkersConsumeAgain
CHECK_DEADLOCK FALSE
