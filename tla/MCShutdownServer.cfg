CONSTANTS
  c1 = c1
  c2 = c2
  c3 = c3
  Clients <- MCClients
  SaveTypes <- MCSaveTypes
  HasTimer = TRUE
SPECIFICATION FairSpec
INVARIANTS
  TypeOK
  MessagesAreOwned
PROPERTIES
  SavedBeforeOff
  PowerOffIsTimed
  PowerOffEnds
CHECK_DEADLOCK FALSE
