CONSTANTS
  c1 = c1
  c2 = c2
  c3 = c3
  Callers <- MCCallers
  Nobody = Nobody
  StartupProperties <- MCProperties
SPECIFICATION FairSpec
INVARIANTS
  TypeOK
  EntriesAreCallers
  FailureLeavesNoProcess
PROPERTIES
  CancelSparesPending
  TimedStartsEnd
CHECK_DEADLOCK FALSE
