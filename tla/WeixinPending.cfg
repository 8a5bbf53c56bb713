SPECIFICATION Spec
CONSTANTS
  ann = ann
  bob = bob
  None = none
  Contacts = {ann}
  N = 3
  Target <- ToOne
  Parts <- Mixed
  Limit = 2
  Retries = 1
INVARIANTS
  TypeOK
  WithinLimit
  ParkedIsHeld
  DeliveredOnce
  InOrder
PROPERTIES
  NeverSentAged
