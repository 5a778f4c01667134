CONSTANTS
  SceneIds = {"a", "b", "c"}
  Torn = Torn
  Requests = {r1, r2}
  Stored <- MCStored
SPECIFICATION StoreSpec
INVARIANT FileAlwaysValid
INVARIANT ExpansionTerminates
INVARIANT LostOnlyToOverlap
PROPERTY KeepsPromise
CHECK_DEADLOCK FALSE
