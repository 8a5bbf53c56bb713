SPECIFICATION Spec
CONSTANTS
  a = a
  b = b
  MaxSub = 1
  MaxEntry = 2
  MaxVersion = 0
  MaxBirths = 2
  Items <- Both
  Linked <- OnlyA
  Feeds <- FeedsAB
  Filters <- AcceptAllOrB
  Policies <- BothPolicies
  InitialCount = 1
  MaxAttempts = 2
  UserOps <- OpsRevise
INVARIANTS
  DuplicateNeedsLostAnswer
