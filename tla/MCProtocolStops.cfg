SPECIFICATION FairSpec
CONSTANTS
    Lines = {"move", "spindle", "jog", "unlock", "check", "run", "far", "sleep", "probe"}
    FileLines = {"move", "pause", "dwell", "probe"}
    Characters = {"Reset"}
    Pins = {"SafetyDoor", "CycleStart"}
    HardLimits = TRUE
    CanPark = TRUE
    IdleDisable = FALSE
    InitialStates = {"Idle", "Alarm", "ConfigAlarm"}
    PlannerBlocks = 2
    MaxLines = 2
    MaxEvents = 3
CHECK_DEADLOCK FALSE
INVARIANTS AlarmWhenLost
PROPERTIES ClosedDoorAtStart DoorRetracts
