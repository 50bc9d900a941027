SPECIFICATION Spec
CONSTANTS
  SEGMENT_BUFFER_SIZE = 4
  Lines <- MCLines
  MaxAmassLevel = 1
  MaxSegment = 2
  ParkingHeights = {2}
  Underruns = TRUE
  MaxLines = 3
  MaxHolds = 2
  MaxParkings = 2
INVARIANTS LineFollowed
PROPERTIES DataInUseKept
CHECK_DEADLOCK FALSE
