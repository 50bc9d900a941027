SPECIFICATION FairSpec
CONSTANTS
    Lines = {"move", "jog", "spindle"}
    FileLines = {}
    Characters = {"JogCancel", "SpindleOvrStop"}
    Pins = {"FeedHold", "CycleStart"}
    HardLimits = FALSE
    CanPark = FALSE
    IdleDisable = TRUE
    InitialStates = {"Idle"}
    PlannerBlocks = 1
    MaxLines = 2
    MaxEvents = 3
INVARIANTS NoMotionAtRest SpindleRunning
PROPERTIES NoUnaskedResume StopCompletes QueuedMotionRuns
