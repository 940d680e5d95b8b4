SPECIFICATION Spec
CONSTANTS
  Types <- EveryType
  Ports <- EveryPort
  Registers <- EveryMap
  Devices <- EveryDevice
  Mimics = TRUE
  Limits <- Watts
  MaxSoc = 5
INVARIANTS
  RightDriver
  GivesUpAfterThree
PROPERTY
  StartupEnds
CHECK_DEADLOCK FALSE
