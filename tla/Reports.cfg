SPECIFICATION ReportsSpec
CONSTANTS
  name = name
  power = power
  Params <- NameAndPower
  Names <- OneName
  MaxUpdates = 2
  MaxFailures = 1
  MaxDrops = 1
  IdleDrops = FALSE
CHECK_DEADLOCK FALSE
INVARIANTS
  ReportsTypeOK
  CloudHasValues
  StoredIsCurrent
  CommandPursued
