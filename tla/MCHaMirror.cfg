CONSTANTS
  Plans <- MCPlans
  Names = {"Ground", "Upper", "Living", "Den"}
  Entities = {"lamp", "power", "fan"}
  HaDevices = {"lamp", "fan"}
  DeviceOf <- MCDeviceOf
  Scenes = {"evening", "tidy"}
  KindOf <- MCKindOf
  Locals <- MCLocals
  MaxChanges = 2
  MaxFaults = 1
  MaxEdits = 1
  None = None
SPECIFICATION Spec
PROPERTY RunMirrors
PROPERTY OwnAreaKept
PROPERTY BecomesMirrored
CHECK_DEADLOCK FALSE
