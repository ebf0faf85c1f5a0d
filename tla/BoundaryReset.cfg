SPECIFICATION BndSpec
CONSTANTS
  Launches = {1}
  MaxTerminal = 1
  BndFaults = 1
  MaxPackets = 1
  MaxRestarts = 0
PROPERTY ResetBeforeRelease
CHECK_DEADLOCK FALSE
