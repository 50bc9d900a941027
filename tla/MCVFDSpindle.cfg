SPECIFICATION Spec
CONSTANTS
  Drives = {"Huanyang", "H2A", "YL620"}
  Requests <- Changes
  MaxRpm = 120
  Uninitialised = 0
  VFD_RS485_QUEUE_SIZE = 3
  MAX_RETRIES = 2
  SyncLimit = 1
  MaxCalls <- Calls
  MaxMotions <- Motions
  MaxResets <- Resets
INVARIANTS DriveObeys
PROPERTIES CriticalFailureAlarms
CHECK_DEADLOCK FALSE
