SPECIFICATION Spec
CONSTANTS
  a = a
  b = b
  MaxSub = 2
  MaxEntry = 1
  MaxVersion = 0
  MaxBirths = 5
  Items <- OnlyA
  Linked <- OnlyA
  Feeds <- FeedA
  Filters <- AcceptA
  Policies <- PublishLatest
  InitialCount = 1
  MaxAttempts = 1
  UserOps <- OpsReuse
INVARIANT
  OwnChannelOnly
