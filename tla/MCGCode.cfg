SPECIFICATION Spec
CONSTANTS
    Features <- MCFeatures
    Systems <- MCSystems
    MM_PER_INCH = 2
    Lines <- MCLines
    MaxPosition = 4
    QueueSize = 2
    MaxLines = 3
    MaxResets = 1
INVARIANTS PositionAgrees OutputsFollowProgram
PROPERTIES WorkCoordinates LineEnds
CHECK_DEADLOCK FALSE
