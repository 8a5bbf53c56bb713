CONSTANTS
  Requesters = {"sender", "gateway"}
  MaxTrouble = 2
  MaxAttempts = 2
  QQJobs <- MCQQJobs
  MaxDeliveries = 2
  UseMarkdown = TRUE
  AllowWithoutMsgId = FALSE
  LinkFallback = TRUE
  Accounts = {"a", "b"}
  DefaultAccount = "a"
  NoAccount = "default"
  Bot = "bot"
  Person = "person"
  Texts = {"", "t"}
  TgJobs <- MCTgJobs
  Writers <- MCWriters
  MaxPosts = 2
  MaxSends = 2
  Channels = {"qq", "telegram"}
SPECIFICATION FairSpec
INVARIANTS TypeOK AuditFinal TwiceNeedsLostAnswer Complete RetriedWithNewToken OneRenewal
PROPERTIES OwnIsNotForwarded OthersHeard DeliveryEnds
CHECK_DEADLOCK FALSE
