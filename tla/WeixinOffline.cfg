SPECIFICATION Spec
CONSTANTS
  ann = ann
  bob = bob
  None = none
  Contacts = {ann}
  N = 2
  Target <- ShortTo
  Parts <- Short
  Limit = 2
  Retries = 0
INVARIANT
  KeptWhileOffline
