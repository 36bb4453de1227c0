SPECIFICATION MCSpec
CONSTANTS
  NotLoaded = NotLoaded
  Editors = {"menu"}
  Lines = {1, 2}
  Ports = {"ttyACM0"}
  BaseAddresses = {2, 3}
  ChannelChoices <- MCChannelChoices
  FirstDocuments <- MCFirstDocuments
  MaxAddress = 4
  MAX_BUSES = 2
  MAX_DEVICES_PER_BUS = 2
  Configurable <- MCConfigurable
  Reserved <- MCReserved
  StatusType = "holding"
  ExtraRegisters <- MCExtraRegisters
  None = None
CHECK_DEADLOCK FALSE
PROPERTIES
  ChannelEditsKeepSlaveID
