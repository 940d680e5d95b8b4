SPECIFICATION FairSpec
CONSTANTS
  L1 = L1
  L2 = L2
  None = None
  Phase <- OnePhase
  InverterPhase = L1
  Prefix = "pvinverter"
  OutputType = 0
  OfflineAfter = 1
  QuitAfter = 2
  IndexMax = 1
  MaxAcPower = 800
  InexactPct <- InexactPctOf800
  StatusRegs <- Generating
  LimitRegs <- FullLimit
  PanelRegs <- NoPanel
  Requests <- MissedPercent
PROPERTY
  WritesStop
