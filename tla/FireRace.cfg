\* Expected to be violated: the controller interrupts a deactivation at the button.
SPECIFICATION HSpec
CONSTANTS
  FireDevs <- TwoActuators
  Temps = {280, 300}
  AcOn = 270
  AcOff = 260
  AlarmOn = 300
  AlarmOff = 290
  QueueSize = 1
  CloudTargets <- NoDevice
  CloudPriority = 5
INVARIANTS
  EmergencyRunsActuators
