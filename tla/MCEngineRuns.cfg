CONSTANTS
  Ids = {night}
  Gens = {0, 1}
  Frames = {1, 2}
  Devices <- MCDevices
  Values = {"on", "off"}
  EventIds = {e1, e2}
  Gestures = {"single"}
  Day = 1
  Defs <- MCDefs
  Configs <- MCConfigs
  Expansions <- MCExpansions
  None = None
  Undef = Undef
  Unseen = Unseen
SPECIFICATION Spec
INVARIANT OneRunPerObject
INVARIANT PendingJustified
INVARIANT NoLostWakeup
PROPERTY StepsAwaitTheirConditions
PROPERTY StartsJustified
SYMMETRY EventSymmetry
