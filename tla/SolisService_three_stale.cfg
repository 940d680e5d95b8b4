SPECIFICATION Spec
CONSTANTS
  L1 = L1
  L2 = L2
  None = None
  Phase <- TwoPhases
  InverterPhase = L1
  Prefix = "pvinverter"
  OutputType = 1
  OfflineAfter = 2
  QuitAfter = 3
  IndexMax = 1
  MaxAcPower = 800
  InexactPct <- InexactPctOf800
  StatusRegs <- Generating
  LimitRegs <- FullLimit
  PanelRegs <- NoPanel
  Requests <- NoRequest
INVARIANT
  NothingStale
