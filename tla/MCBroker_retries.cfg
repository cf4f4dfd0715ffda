SPECIFICATION BrokerSpec
CONSTANTS
  Priority = {"HIGH", "LOW"}
  Worker = {w1}
  Prefetch = 1
  Message <- Messages
  Nothing = Nothing
PROPERTY ExpiredRetriesReturn
CHECK_DEADLOCK FALSE
