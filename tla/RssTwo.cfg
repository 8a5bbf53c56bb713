SPECIFICATION FairSpec
CONSTANTS
  a = a
  b = b
  MaxSub = 2
  MaxEntry = 2
  MaxVersion = 0
  MaxBirths = 4
  Items <- OnlyA
  Linked <- OnlyA
  Feeds <- FeedA
  Filters <- AcceptA
  Policies <- PublishLatest
  InitialCount = 1
  MaxAttempts = 1
  UserOps <- OpsTwo
PROPERTIES
  RecoversOnlyOrphans
  QueueDrains
