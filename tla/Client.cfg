CONSTANTS
  Addr = {a1}
  server_not_found = none
  Device = {d1}
  Closed = closed
  MaxTasks = 4
  MaxRecords = 2
  EarlyThread = TRUE
  AsyncThrows = TRUE
  WakeAfterSettle = TRUE
SPECIFICATION FairSpec
CHECK_DEADLOCK FALSE
INVARIANTS TypeOK RequestOfTheWaitingCall StopAndWait SuccessIsEarned RecordInPlace OnlyKnownHangs ErrorTellsTheReply
PROPERTIES ReadFileIsCounted AvailableOnlyByPing CallsEnd DestructorEnds ServiceSpec
