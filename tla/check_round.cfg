SPECIFICATION CkSpec
CONSTANTS
  NChecks = 1  RepairLimit = 1  RecoveryLimit = 1  MaxRevs = 1  MaxLost = 1  MaxEdits = 1
PROPERTY CheckRoundSettles
CHECK_DEADLOCK FALSE
