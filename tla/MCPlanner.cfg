SPECIFICATION Spec
CONSTANTS
  BLOCK_BUFFER_SIZE = 4
  Reaches = {1, 3}
  SystemReaches = {1}
  Rates = {2}
  Junctions = {4}
  RapidRate = 3
  FeedOverrides = {50, 100}
  DefaultFeedOverride = 100
  Motions = {"feed", "rapid"}
INVARIANTS RingConsistent PlanOptimal
PROPERTIES SpeedContinuous QueueSpec
CHECK_DEADLOCK FALSE
