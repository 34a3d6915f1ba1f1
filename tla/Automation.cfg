SPECIFICATION Spec
CONSTANTS
  a = a
  b = b
  evening = evening
  Ids <- TwoIds
  SceneIds <- OneScene
  ActionScene = evening
  MaxSchedules = 2
  QueueSize = 1
  MaxScenes = 1
  MaxBatch = 2
  MaxRequests = 2
  MaxBoots = 1
SYMMETRY Symmetry
CHECK_DEADLOCK FALSE
INVARIANTS
  TypeOK
  SchedulesStored
  EnabledIsArmed
  OneShotOnce
  TriggerNamesItsSchedule
  UseAfterFreeNeedsOverlap
  ScenesStored
