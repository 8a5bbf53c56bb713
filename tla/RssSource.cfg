SPECIFICATION FairSpec
CONSTANTS
  a = a
  b = b
  MaxSub = 1
  MaxEntry = 2
  MaxVersion = 1
  MaxBirths = 2
  Items <- Both
  Linked <- Both
  Feeds <- FeedsAB
  Filters <- AcceptAllOrB
  Policies <- PublishLatest
  InitialCount = 1
  MaxAttempts = 2
  UserOps <- OpsSource
INVARIANTS
  TypeOK
  SendingIsOwned
  DuplicateNeedsLostAnswer
  QueuedFromCurrentFeed
PROPERTIES
  StaleFetchDiscarded
  ImplementsOutbox
  ManualCheckHonoured
