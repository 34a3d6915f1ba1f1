SPECIFICATION Spec
CONSTANTS
  n1 = n1
  n2 = n2
  Nodes <- TwoNodes
  Methods <- EveryMethod
  Fragments = 2
  MaxPhones = 2
  MaxFaults = 2
  MaxDisables = 1
  MaxDrops = 1
  MaxBoots = 1
SYMMETRY Symmetry
CHECK_DEADLOCK FALSE
INVARIANTS
  TypeOK
  CredentialsMatch
  NeverStranded
  ClaimDataOwned
  LocalControlPursued
