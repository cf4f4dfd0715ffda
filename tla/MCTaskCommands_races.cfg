SPECIFICATION Spec
CONSTANTS
  TaskId = {t1, t2}
  Request = {r1, r2}
  Key = {k1}
  Priority = {"NORMAL"}
  MaxRetries = {1}
  NoKey = NoKey
  NoTask = NoTask
  OutboxBound = 1
  CountBound = 2
INVARIANTS TypeOK TerminalHasCompletedAt KeyNamesOneTask
PROPERTIES OnlyStaleWritesBreakTheTable DeletedStaysDeleted
SYMMETRY Symmetry
