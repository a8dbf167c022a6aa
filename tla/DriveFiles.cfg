SPECIFICATION Spec
CONSTANTS
  Names = {m, n}
  Files = {x}
  NoNode = NoNode
  Realms = {r1}
  Branches = {}
  NoRealm = NoRealm
  Processes = {p1}
  NoProcess = NoProcess
  Requests = {q1, q2}
  Collectors = {g1}
  Kinds = {"upload", "mkdir", "rm", "mv", "cp"}
  Overlap = FALSE
  Grace = TRUE
  Handover = TRUE
  MaxTime = 2
  MaxRequests = 3
  MaxGcs = 1
INVARIANTS TypeOK OneUploadAtATime RootsWhole
SYMMETRY RequestSymmetry
PROPERTIES NoLostUpdate
CHECK_DEADLOCK FALSE
