SPECIFICATION Spec
CONSTANTS
  Names = {n}
  Files = {x}
  NoNode = NoNode
  Realms = {r1}
  Branches = {b1}
  NoRealm = NoRealm
  Processes = {p1}
  NoProcess = NoProcess
  Requests = {q1, q2}
  Collectors = {g1}
  Kinds = {"upload", "mkdir", "rm", "rootfile", "transfer", "create", "close"}
  Overlap = FALSE
  Grace = TRUE
  Handover = FALSE
  MaxTime = 2
  MaxRequests = 4
  MaxGcs = 1
INVARIANTS RootsWhole
SYMMETRY RequestSymmetry
PROPERTIES NoLostUpdate TransferKeepsTarget
CHECK_DEADLOCK FALSE
