SPECIFICATION Spec
CONSTANTS
  t1 = t1
  Tasks <- OneTask
  DefaultBudget = 2
  MaxBudget = 3
  ReviveCount = 2
  MaxGranted = 5
  MaxWaived = 0
PROPERTIES
  ImplementsTokenBucket
