CONSTANTS
  c1 = c1
  c2 = c2
  c3 = c3
  Clients <- MCThreeClients
  NoClient = NoClient
SPECIFICATION OutOfMemorySpec
INVARIANTS
  ExecutorOwesAnswer
CHECK_DEADLOCK FALSE
