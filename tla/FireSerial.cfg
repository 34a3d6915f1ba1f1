SPECIFICATION HSpec
CONSTANTS
  FireDevs <- TwoActuators
  Temps = {260, 300}
  AcOn = 270
  AcOff = 260
  AlarmOn = 300
  AlarmOff = 290
  QueueSize = 1
  CloudTargets <- AllTargets
  CloudPriority = 5
CONSTRAINT NoOverlapYet
INVARIANTS
  AgreeUnlessOverlap
  ActuatorsFollowUnlessOverlap
