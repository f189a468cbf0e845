CONSTANTS
  c1 = c1
  c2 = c2
  c3 = c3
  Clients <- MCClients
  NoClient = NoClient
SPECIFICATION FairSpec
INVARIANTS
  TypeOK
  SlotsAreOwned
  ExecutorOwesAnswer
  ClosedIsCancelled
PROPERTIES
  NoListAbandoned
  RequestAnswered
  SlotsAreReleased
\* Every client may be dead.
CHECK_DEADLOCK FALSE
