CONSTANTS
  Turns = {t1, t2, t3}
  lock = lock
  dim20 = dim20
  dim80 = dim80
  bindA = bindA
  bindB = bindB
  Items <- MCItems
  KeyOf <- MCKeyOf
  Risky = {lock, dim80}
  SceneSteps = {lock}
  Plans <- MCPlans
  Mode = "auto"
  Longest = 2
  None = None
  MaxTools = 1
  MaxFaults = 1
  Clients = {c1, c2}
  Kinds = {"devices"}
  Missing = Missing
  Awaited = Awaited
  Nothing = Nothing
  MaxEffects = 2
  MaxTroubles = 2
SPECIFICATION MCSpec
SYMMETRY Symmetry
INVARIANT PendingAsOffered
INVARIANT WritesAreConfirmed
INVARIANT NotWrittenTwice
INVARIANT ReportedIsWritten
INVARIANT ArrivedIsSeen
CHECK_DEADLOCK FALSE
