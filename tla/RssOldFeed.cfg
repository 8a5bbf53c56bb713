SPECIFICATION Spec
CONSTANTS
  a = a
  b = b
  MaxSub = 1
  MaxEntry = 1
  MaxVersion = 1
  MaxBirths = 2
  Items <- OnlyA
  Linked <- OnlyA
  Feeds <- FeedA
  Filters <- AcceptA
  Policies <- PublishLatest
  InitialCount = 1
  MaxAttempts = 1
  UserOps <- OpsOldFeed
INVARIANT
  QueuedFromCurrentFeed
