\* A list is cancelled before its deferred commands are executed.
CONSTANTS
  Lists <- CancelLists
  Delays <- MCDelays
SPECIFICATION FairSpec
PROPERTIES
  CancelDisposes
CHECK_DEADLOCK FALSE
