SPECIFICATION Spec
CONSTANTS
  None = None
  Phase <- NoPhase
  Prefix = "vebus"
  Transport = "tcp"
  Situations <- StopsAndStarts
  OfflineAfter = 2
  QuitAfter = 3
  IndexMax = 1
PROPERTY
  QuitsAfterCounting
