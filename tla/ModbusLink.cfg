SPECIFICATION Spec
CONSTANTS
  Lengths <- SolisLengths
  Transports <- Both
  Backlog = 2
  MaxRequests = 12
INVARIANTS
  TypeOK
  InSyncPollIsOwn
  PromptPollSucceeds
PROPERTIES
  TcpTakesOwn
  TakenHaveItsSize
  WriteIsOwn
CHECK_DEADLOCK FALSE
