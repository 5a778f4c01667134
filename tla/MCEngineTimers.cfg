CONSTANTS
  Ids = {night}
  Gens = {0, 1}
  Frames = {1, 2}
  Devices <- MCDevices
  Values = {"on"}
  EventIds = {}
  Gestures = {}
  Day = 3
  Defs <- MCDefs
  Configs <- MCConfigs
  Expansions <- MCExpansions
  None = None
  Undef = Undef
  Unseen = Unseen
SPECIFICATION FairSpec
INVARIANT TimersFollowList
PROPERTY RunsEnd
