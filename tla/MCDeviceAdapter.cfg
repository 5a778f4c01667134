CONSTANTS
  d1 = d1
  d2 = d2
  c1 = c1
  e1 = e1
  kitchen = kitchen
  bath = bath
  Zigbee <- MCZigbee
  Endpoints <- MCEndpoints
  PanelOf <- MCPanelOf
  Entities <- MCEntities
  n1 = n1
  n2 = n2
  Names <- MCNames
  Nets <- MCNets
  Values = {on, off}
  Files <- MCFiles
  Broken = Broken
  Places = {kitchen, bath}
  None = None
  MaxQueue = 1
  MaxEdits = 1
  MaxChanges = 1
  MaxMoves = 1
  MaxFaults = 1
  Requests = {r1, r2}
  Orders <- MCOrders
  Targets <- MCTargets
  Transports <- MCTransports
  Mics <- MCMics
  Modes = {"heat", "high"}
  Properties = {"state_left", "operation_mode_left"}
  Absent = Absent
SPECIFICATION MCSpec
INVARIANT CurrentUnlessOverlapped
INVARIANT OverridesInForce
INVARIANT AnswersTrue
INVARIANT CommandIsAwaited
PROPERTY Settles
CHECK_DEADLOCK FALSE
