SPECIFICATION CellsSpec
CONSTANTS
  Consents = {c1}
  Handlers = {h1, h2}
  Dynamo = TRUE
  MaxPairs = 2
  Fetches = {f1, f2}
  MaxHandles = 2
  Servers <- mcServers
  DriveServers <- mcDrives
  GatewayCalls = {g1, g2}
  MaxLogins = 1
  MaxRuntimes = 1
  McpMain <- mcMain
  McpChild <- mcChild
  McpFiles <- mcFiles
  Dict <- mcDict
  EntryNames <- mcEntryNames
  NoRoot = NoRoot
  SortedPaths <- mcPaths
  Patterns <- mcGlobs
  Templates <- mcTemplates
  StartTrees <- mcTrees
  TransferSpecs <- mcSpecs
  MaxCalls = 1
  MaxCommands = 2
  MaxForeign = 1
  RealmCalls = {k1, k2, k3}
  OldRoot = old
  NoBranch = NoBranch
  NoKey = NoKey
  EmptyKey = EmptyKey
  Content = Content
  LostContent = LostContent
  Unensured = {k3}
  Cold = FALSE
  Deployers = {d1, d2}
  Buckets = {b1, b2}
  MaxStarts = 2
  MaxFaults = 1
  Segments <- mcSegments
  MaxSegments = 3
  Textual <- mcTextual
  Mounts <- mcServers
  FirstMount <- mcFirst
  DefaultMount <- mcDefault
  RoutesOf <- mcRoutes
  ModulesOf <- mcModules
  Strips <- mcStrips
  WellKnown <- mcWellKnown
  Dotted <- mcDotted
  Ops = {o1, o2}
  FolderNames <- mcFolders
  Uploads <- mcUploads
  Targets <- mcTargets
  StartTree <- mcStart
  MaxLoads = 2
  MaxEvents = 1
  Hash = 2
  InfoSize = 3
  Usable = 8
  Rounded = 31
  FileSizes = {0, 1, 7, 8, 9, 14, 15, 20, 21, 30, 31, 32, 36, 37}
  MaxFiles = 2
  Base = 4
  ByHash = 1
  HeaderBytes = 12
  TypeMax = 2
  NodeInputs <- mcNodeInputs
  Received <- mcReceived
  NoBuffer = NoBuffer
  CellFiles <- mcCellFiles
  InstanceFiles <- mcInstances
  NoInstance = NoInstance
  Environments <- mcEnvironments
  CommandOptions <- mcOptions
  Stacks <- mcStacks
  Declarations <- mcDeclarations
  StackEnvs <- mcStackEnvs
  ParamKeys <- mcParamKeys
  StackCells <- mcStackCells
  Pascal <- mcPascal
  MaxStack = 2
  Machines = {m1, m2}
  MachineNames <- mcMachineNames
  Roots <- mcRoots
  NoDomain = NoDomain
  MaxSetups = 2
  MaxMisfortunes = 1
  LocalCells = {a, b}
  LocalStacks = {s1, s2}
  E2e = e2e
  Bases = {1, 2}
  MaxRuns = 3
  MaxMishaps = 1
  BoxCells = {x1, x2}
  BoxHost <- mcBoxHost
  BoxPort <- mcBoxPort
  BoxCommands = {y1, y2}
  NoRoute = NoRoute
  MaxDevs = 2
  MaxBoxes = 2
  MaxDeaths = 1
  DomainDeploys <- mcDeploys
  DomainTool <- mcTools
  DomainOf <- mcHosts
  OtherRecords <- mcRecords
  NoWriter = NoWriter
  LabelBegins <- mcLabels
  MaxDeploys = 2
  MaxRefusals = 1
INVARIANTS
  CellsTypeOK
  CodesAreForOneUse RevokedIsDead
  SessionHolds
  TokensHaveServers RuntimeHolds
  ListIsFresh
  StoredReadsBack
  CodecAgrees
  StackIsServed
  DevIsLikeCloud
  ConfigResolves
  CellParamsStand
  TemplateWhole
  SetupStands
  OwnData
  DevboxStands
  DomainsStand
PROPERTIES
  ToolsKeepFiles
  EnsureKeepsRealm
  DeploySpares
CHECK_DEADLOCK FALSE
