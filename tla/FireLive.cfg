SPECIFICATION LocalSpec
CONSTANTS
  FireDevs <- OneActuator
  Temps = {260, 300}
  AcOn = 270
  AcOff = 260
  AlarmOn = 300
  AlarmOff = 290
  QueueSize = 1
  CloudTargets <- NoDevice
  CloudPriority = 5
INVARIANTS
  EmergencyKeepsAcOff
PROPERTIES
  HeatRaisesAlarm
  CoolingEndsAutoAlarm
