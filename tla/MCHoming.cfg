SPECIFICATION Spec
CONSTANTS
  Axis <- MCAxis
  Machines <- MCMachines
  Starts <- MCStarts
  Faults = {"on", "off"}
  Buttons = {"reset", "door"}
  MaxHomes = 1
INVARIANTS HomedAsAsked
PROPERTIES HomingEnds
CHECK_DEADLOCK FALSE
