SPECIFICATION HistorySpec
CONSTANTS
  L1 = L1
  L2 = L2
  None = None
  Phase <- TwoPhases
  InverterPhase = L1
  Prefix = "pvinverter"
  OutputType = 0
  OfflineAfter = 2
  QuitAfter = 3
  IndexMax = 2
  MaxAcPower = 800
  InexactPct <- InexactPctOf800
  StatusRegs <- SomeStatusRegs
  LimitRegs <- FullLimit
  PanelRegs <- BetweenPercents
  Requests <- NoPercent
INVARIANTS
  TypeOK
  MeasuredAreFresh
  NothingStale
  StalenessBounded
  OnlineIsHonest
PROPERTIES
  WritesNearest
  KeepsPromise
  LimitUntouched
