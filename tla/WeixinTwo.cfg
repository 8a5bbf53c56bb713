SPECIFICATION FairSpec
CONSTANTS
  ann = ann
  bob = bob
  None = none
  Contacts = {ann, bob}
  N = 3
  Target <- ToTwo
  Parts <- Mixed
  Limit = 1
  Retries = 1
PROPERTIES
  ParkedEnds
