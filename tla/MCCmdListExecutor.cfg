\* Every list, with and without delays between its commands.
CONSTANTS
  Lists <- MCLists
  Delays <- MCDelays
SPECIFICATION FairSpec
INVARIANTS
  TypeOK
  CancelNeverHangs
  NothingDangles
  InOrder
  SuccessMeansDone
PROPERTIES
  OneObserver
  ListAnswered
  ListDisposed
\* An executed list is over.
CHECK_DEADLOCK FALSE
