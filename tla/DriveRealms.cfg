SPECIFICATION Spec
CONSTANTS
  Names = {n}
  Files = {x}
  NoNode = NoNode
  Realms = {r1, r2}
  Branches = {}
  NoRealm = NoRealm
  Processes = {p1}
  NoProcess = NoProcess
  Requests = {q1}
  Collectors = {g1}
  Kinds = {"upload"}
  Overlap = FALSE
  Grace = TRUE
  Handover = FALSE
  MaxTime = 2
  MaxRequests = 1
  MaxGcs = 1
INVARIANT RootsWhole
CHECK_DEADLOCK FALSE
