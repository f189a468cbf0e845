CONSTANTS
  r1 = r1
  r2 = r2
  r3 = r3
  s1 = s1
  s2 = s2
  Requests <- MCRequests
  NoRequest = NoRequest
  Sessions <- MCSessions
  SessionOf <- MCSessionOf
  Keys <- MCKeys
  Changes <- MCChanges
  KeyRange <- MCKeyRange
  AfterFault = FALSE
SPECIFICATION FairSpec
INVARIANTS
  TypeOK
  EnginesAreHeld
  CallsArePossible
PROPERTIES
  ImplementsContract
  RequestsAreAnswered
CHECK_DEADLOCK FALSE
