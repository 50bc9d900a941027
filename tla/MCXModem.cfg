SPECIFICATION Spec
CONSTANTS
  Packets = 6
  NumberRange = 5
  AckWaits = {2, 20}
  SyncTries = 6
  MAXRETRANS = 3
  EotTries = 2
  LateStarts = {0, 11}
  Faults = {"lost", "damaged", "header", "slow"}
  MaxFaults = 2
  Transfers = 2
INVARIANTS FileAsSaid
PROPERTIES TransferEnds
CHECK_DEADLOCK FALSE
