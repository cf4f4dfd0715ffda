SPECIFICATION BootSpec
CONSTANTS
  Task = {t1, t2}
  Starts = 2
PROPERTY ConnectedApiPublishes
CHECK_DEADLOCK FALSE
