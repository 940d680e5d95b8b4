SPECIFICATION Spec
CONSTANTS
  Types <- EveryType
  Ports <- EveryPort
  Registers <- EveryMap
  Devices <- EveryDevice
  Mimics = TRUE
  Limits <- Watts
  MaxSoc = 5
INVARIANT
  SerialPortAccepted
CHECK_DEADLOCK FALSE
