CONSTANTS
  Addr = {a1}
  server_not_found = none
  Device = {d1}
  Closed = closed
  MaxTasks = 3
  MaxRecords = 2
  EarlyThread = FALSE
  AsyncThrows = FALSE
  WakeAfterSettle = TRUE
SPECIFICATION FairSpec
PROPERTIES ExceptionReachesCaller
