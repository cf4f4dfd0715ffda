SPECIFICATION PipelineSpec
CONSTANTS
  TaskId = {t1}
  Request = {s1, s2}
  Key = {}
  Priority = {"NORMAL"}
  MaxRetries = {0, 1, 3}
  NoKey = NoKey
  NoTask = NoTask
  OutboxBound = 2
  CountBound = 3
  Worker = {w1, w2}
  Prefetch = 1
  Runnable = {t1}
  Nothing = Nothing
  NoLane = NoLane
  Disturbance = {"workerCrash", "workerDrop", "shutdown", "timeout", "unreachable", "publish", "apiDrop", "apiCrash", "db", "cancel", "retry", "delete", "update"}
  Budget = 2
INVARIANTS PipelineTypeOK DeliveriesMatchJobs OneSubscribedRunner RunningTasksHaveAJob ExhaustedInTurn
PROPERTIES ContractKept JobsLeaveWhenRun OutcomesAreRecorded TableObeyedInTurn
CHECK_DEADLOCK FALSE
SYMMETRY Symmetry
