SPECIFICATION SerialSpec
CONSTANTS
  file = file
  root = root
  other = other
  NoKey = NoKey
  Keys <- MCKeys
  Children <- MCChildren
  Pinned <- MCPinned
  RootSets <- MCRootSets
  CutOffs = {2}
  Writers = {w1}
  Collectors = {g1}
  WriteOnce = TRUE
  MaxTime = 2
  MaxPuts = 3
  MaxGcs = 1
INVARIANT CollectsGarbage
CHECK_DEADLOCK FALSE
