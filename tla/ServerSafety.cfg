SPECIFICATION Spec
CONSTANTS
  record_size = 3
  files <- MCfiles
  flash_access = TRUE
  Unset = {0, 1, 65535}
  Value = {0, 1, 2}
  Payload = {0, 1}
CHECK_DEADLOCK FALSE
INVARIANTS
  TypeOK
  BufferFits
  TransfersAreBounded
PROPERTIES
  RefusedMeansUntouched
  CallbackEarned
