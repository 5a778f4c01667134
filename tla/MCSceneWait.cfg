CONSTANTS
  Runs <- MCRuns
  Devices <- MCDevices
  Actions <- MCActions
  Values = {"on", "off"}
  Undef = Undef
  Via <- MCVia
  Inventories <- MCInventories
  Effect <- MCEffect
  Wanted <- MCWanted
  Scenes <- MCScenes
  None = None
SPECIFICATION Spec
PROPERTY GoesOnWhenMet
CHECK_DEADLOCK FALSE
