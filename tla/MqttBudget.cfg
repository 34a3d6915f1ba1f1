SPECIFICATION Spec
CONSTANTS
  t1 = t1
  t2 = t2
  t3 = t3
  Tasks <- ThreeTasks
  DefaultBudget = 2
  MaxBudget = 3
  ReviveCount = 2
  MaxGranted = 4
  MaxWaived = 2
SYMMETRY TaskSymmetry
INVARIANTS
  RateBound
