CONSTANTS
  Ids = {"b1", "b2"}
  Channels = {"left", "right"}
  Sources <- MCSources
  Targets = {"left", "right"}
  Wanted <- MCWanted
  FirstFiles <- MCFirstFiles
  Slots = {1, 2}
  Loads = {1, 2}
  MaxRequests = 2
  None = None
SPECIFICATION Spec
INVARIANT OneBindingPerSource
INVARIANT NoStateLoop
INVARIANT RecordedIsLoaded
PROPERTY EngineCatchesUp
CHECK_DEADLOCK FALSE
