SPECIFICATION FairSpec
CONSTANTS
  m1 = m1
  m2 = m2
  w1 = w1
  w2 = w2
  w3 = w3
  MsgIds <- TwoMsgs
  Timers <- ThreeTimers
  AutoFetch = TRUE
  MaxAsked = 3
  MaxFaults = 1
INVARIANTS
  TypeOK
  NeverStuck
  OneAttemptEach
PROPERTIES
  RequestGoesOut
