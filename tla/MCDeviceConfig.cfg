CONSTANTS
  Devices <- MCDevices
  Mics = {"mic"}
  Plans = {"p1", "p2"}
  Layouts <- MCLayouts
  Rooms = {"Living", "Den"}
  Typed = {"Den", None}
  Slots = {s1, s2}
  Files <- MCFiles
  MaxRequests = 3
  None = None
  Simulated = {"lamp"}
  Looks = {"old", "new"}
  Calls = {c1, c2}
  PlanFiles <- MCPlanFiles
  Foreign = {}
  MaxCalls = 3
  MaxEdits = 2
SYMMETRY Interchangeable
SPECIFICATION MCSpec
INVARIANT PlacementsRepaired
INVARIANT TypedRoomKept
INVARIANT SavedPartsKept
INVARIANT DraftInOrder
INVARIANT ShowsWhatIsStored
CHECK_DEADLOCK FALSE
