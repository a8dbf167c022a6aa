SPECIFICATION Spec
CONSTANTS
  Names = {n}
  Files = {x}
  NoNode = NoNode
  Realms = {r1}
  Branches = {b1}
  NoRealm = NoRealm
  Processes = {p1}
  NoProcess = NoProcess
  Requests = {q1}
  Collectors = {g1}
  Kinds = {"upload", "transfer", "create", "close"}
  Overlap = FALSE
  Grace = TRUE
  Handover = TRUE
  MaxTime = 2
  MaxRequests = 4
  MaxGcs = 1
INVARIANT RootsWhole
CHECK_DEADLOCK FALSE
