SPECIFICATION PartsSpec
CONSTANTS
  SpindleMachines <- MCSpindleMachines
  SpindleLines <- MCSpindleLines
  Overrides = {50, 100}
  Rates = {50, 100}
  RingSize = 2
  MaxLines = 3
  MaxEvents = 2
  Rigs <- MCRigs
  PlannerBlocks = 1
  LimitPins = {1}
  ControlPins = {2}
  GpioPins = {3}
  MaxChanges = 2
  MaxUnlocks = 1
  SettingNames <- MCNames
  SettingKinds <- MCKind
  Described = {"mode", "ssid", "ip", "mask"}
  Default <- MCDefault
  Accepted <- MCAccepted
  Group <- MCGroup
  MaxCommands = 3
  MaxBoots = 1
  FileNames = {"f", "g"}
  FileTexts <- MCTexts
  Images <- MCImages
  Space = 3
  MaxForms = 2
  MaxRequests = 2
  WebTroubles = 2
  ClientInputs <- MCInputs
  Room <- MCRoom
  MaxLine = 4
  ClientTroubles = 1
  MotorMachines <- MCMotorMachines
  MaxPos = 2
  MaxCalls = 3
CHECK_DEADLOCK FALSE
INVARIANTS OutputsAsSaid SwitchesHeeded NetworkAsSet UploadsWhole LinesIntact MotorsAsAsked
PROPERTIES SettingsKept
