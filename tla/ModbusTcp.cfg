SPECIFICATION Spec
CONSTANTS
  None = None
  Conns <- TwoConns
  TidModulus = 3
  Slaves <- TwoSlaves
  Misreads <- TwoMisreads
  MaxDelay = 2
  MaxAttempts = 1
  Scenarios <- SomeScenarios
  MaxTroubles = 3
INVARIANTS
  OwnAnswer
  ServedAsSent
  NoneForgotten
PROPERTIES
  ClosedStaysClosed
  Reconnects
CHECK_DEADLOCK FALSE
