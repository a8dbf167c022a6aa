SPECIFICATION Spec
CONSTANTS
  Names = {m, n}
  Files = {x}
  NoNode = NoNode
  Realms = {r1}
  Branches = {}
  NoRealm = NoRealm
  Processes = {p1, p2}
  NoProcess = NoProcess
  Requests = {q1, q2}
  Collectors = {}
  Kinds = {"upload"}
  Overlap = TRUE
  Grace = TRUE
  Handover = TRUE
  MaxTime = 1
  MaxRequests = 2
  MaxGcs = 0
PROPERTY NoLostUpdate
CHECK_DEADLOCK FALSE
