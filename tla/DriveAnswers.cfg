SPECIFICATION Spec
CONSTANTS
  Names = {n}
  Files = {x}
  NoNode = NoNode
  Realms = {r1}
  Branches = {b1}
  NoRealm = NoRealm
  Processes = {p1}
  NoProcess = NoProcess
  Requests = {q1, q2, q3}
  Collectors = {}
  Kinds = {"upload", "mkdir", "rm", "mv", "cp", "rootfile", "transfer", "create", "close"}
  Overlap = TRUE
  Grace = TRUE
  Handover = TRUE
  MaxTime = 1
  MaxRequests = 3
  MaxGcs = 0

PROPERTY Answered
CHECK_DEADLOCK FALSE
