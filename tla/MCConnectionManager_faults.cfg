SPECIFICATION FairManager
CONSTANTS
  Call = {1, 2, 3, 4}
  None = None
  Attempts = 2
  Faults = 2
INVARIANTS ManagerTypeOK NeverForsaken ChannelIsCurrent
PROPERTY ConnectionReturns
CHECK_DEADLOCK FALSE
