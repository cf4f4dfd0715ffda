SPECIFICATION FairPipeline
CONSTANTS
  TaskId = {t1}
  Request = {s1, s2}
  Key = {}
  Priority = {"NORMAL"}
  MaxRetries = {0}
  NoKey = NoKey
  NoTask = NoTask
  OutboxBound = 2
  CountBound = 3
  Worker = {w1, w2}
  Prefetch = 1
  Runnable = {t1}
  Nothing = Nothing
  NoLane = NoLane
  Disturbance = {}
  Budget = 0
PROPERTY AcceptedTasksFinish
CHECK_DEADLOCK FALSE
