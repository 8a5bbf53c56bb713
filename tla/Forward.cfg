CONSTANTS
  MaxRule = 2
  MaxBirths = 2
  Copies <- MCCopies
  Post <- MCPost
  Shapes <- MCShapes
  Handwritten = {}
  Accepts <- MCAccepts
  Words <- MCWords
  Says <- MCSays
  Targets <- MCTargets
  Requests <- MCRequests
  UserOps <- MCUserOps
  QueueSize = 1
  MaxChanges = 2
  Deduped <- MCCopies
  InitialRules <- MCInitialRules
  Echo <- MCEcho
  SkipsQQ <- MCSkipsQQ
  QQTargets = {"qq"}
  Linked = {"a"}
SPECIFICATION FairSpec
INVARIANTS TypeOK OnlyOffered PostOnce DuplicateJustified
PROPERTIES NothingSkipped AddingKeepsCoverage Processed
CHECK_DEADLOCK FALSE
