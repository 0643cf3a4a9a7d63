CONSTANTS
  Addr = {a1}
  server_not_found = none
  Device = {d1}
  Closed = closed
  MaxTasks = 4
  MaxRecords = 2
  EarlyThread = FALSE
  AsyncThrows = FALSE
  WakeAfterSettle = FALSE
SPECIFICATION Spec
PROPERTIES AvailableOnlyByPing
