SPECIFICATION FairSpec
CONSTANTS
  u1 = u1
  u2 = u2
  m1 = m1
  m2 = m2
  Users <- TwoUsers
  MsgIds <- TwoMsgs
  ResetUser = "esp-rmaker"
  UserIdCheck = TRUE
  ResetReporting = TRUE
  MaxRetries = 2
  MaxStarts = 2
  MaxRefused = 3
  MaxMishaps = 1
  MaxBoots = 1
CHECK_DEADLOCK FALSE
INVARIANTS
  TypeOK
  StoredUserIsCloudUser
  RequestPursued
PROPERTIES
  ParamsStart
