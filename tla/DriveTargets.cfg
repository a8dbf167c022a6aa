SPECIFICATION McpSpec
CONSTANTS
  McpMain <- mcMain
  McpChild <- mcChild
  McpFiles <- mcFiles
  Dict <- mcDict
  EntryNames <- mcEntryNames
  NoRoot = NoRoot
  SortedPaths <- mcPaths
  Patterns = {}
  Templates = {}
  StartTrees <- mcTrees
  TransferSpecs <- mcSpecs
  MaxCalls = 1
  MaxCommands = 1
  MaxForeign = 1
INVARIANT TargetsApart
CHECK_DEADLOCK FALSE
