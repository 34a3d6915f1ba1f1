SPECIFICATION Spec
CONSTANTS
  Jobs = {"job 1", "job 2"}
  RollbackConfigs = {TRUE, FALSE}
  MaxAttempts = 2
  MaxOffers = 1
  MaxCuts = 1
  MaxMishaps = 1
CHECK_DEADLOCK FALSE
INVARIANTS
  PreviousImageKept
  OneJobAtATime
  CommittedIsReported
  RolledBackIsTrue
PROPERTIES
  ProgressEnds
