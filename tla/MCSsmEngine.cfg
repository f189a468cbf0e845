SPECIFICATION FairSpec
CONSTANTS
  r1 = r1
  r2 = r2
  r3 = r3
  s1 = s1
  s2 = s2
  Requests = {r1, r2, r3}
  Sessions = {s1, s2}
  SessionOf <- MCSessionOf
  States = {StartupMain, Normal}
  StartupState = StartupMain
  Startup = Startup
  None = None
  Validate = FALSE
INVARIANTS
  TypeOK
  EngineAtWork
  NoRequestLost
  AcknowledgedBeforeWork
  PolicyFollowsEngine
  ConnectsOnlyWhenClosed
  ListOutlivesExecution
PROPERTIES
  AnsweredOnce
  EveryRequestAnswered
  ImplementsContract
CHECK_DEADLOCK FALSE
