CONSTANTS
  MaxCaptures = 2
  MaxChunks = 2
  MaxUnderWay = 1
  MaxFaults = 1
SPECIFICATION Spec
PROPERTY HearsAgain
INVARIANT OneCapture
INVARIANT ListensInSession
CHECK_DEADLOCK FALSE
