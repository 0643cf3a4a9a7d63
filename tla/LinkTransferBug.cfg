SPECIFICATION Spec
CONSTANTS
  record_size = 4
  files <- MCfiles
  flash_access = FALSE
  Unset = {0}
  ReadSizes = {0, 8}
  WriteSizes = {4}
  RecordSizes = {4}
  WriteAddresses = {40001, 40002}
  RegisterValues = {2}
  Shorts = {0, 1}
  MaxEvents = 6
CHECK_DEADLOCK FALSE
INVARIANTS FileCallsSucceed
