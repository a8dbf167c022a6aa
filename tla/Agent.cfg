SPECIFICATION AgentSpec
CONSTANTS
  Requests = {q1, q2}
  PageSize = 1
  MaxMessages = 3
  Threads = {t1}
  Runs = {r1, r2}
  MaxRounds = 2
  ListCap = 2
  MaxUpdates = 1
  MaxRestarts = 1
  Actions = {a1, a2}
  MaxDeaths = 1
  Tools = {u1, u2, u3}
  ToolRuns = {w1, w2}
  MaxLoaded = 2
  MaxKills = 1
  McpServers <- mcMcpServers
  SiteOf <- mcSites
  AuthServers <- mcAuthServers
  Logins = {l1, l2}
  MaxReloads = 1
  NoLogin = NoLogin
INVARIANTS
  AgentTypeOK
  DeletedThreadIsGone
  UiStreamsEnd CopiesAreWhole
  OfferedCanBeCalled
PROPERTIES
  ActionEndsWell
  LoginEndsWell
CHECK_DEADLOCK FALSE
