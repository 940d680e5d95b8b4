SPECIFICATION TruthSpec
CONSTANTS
  None = None
  Phase <- NoPhase
  Prefix = "vebus"
  Transport = "tcp"
  Situations <- ComesAndGoes
  OfflineAfter = 1
  QuitAfter = 2
  IndexMax = 0
INVARIANTS
  TypeOK
  StateFollowsInput
PROPERTIES
  KeepsPromise
  QuitsForCause
  SteadyIsTrue
  FaultIsReal
