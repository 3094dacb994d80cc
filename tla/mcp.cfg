\* Over the pipe: three calls; a server that says anything, requests of its own included.
SPECIFICATION ConnectionsSpec
CONSTANTS
  Patience = 2
  MaxCalls = 3
  MaxLines = 2
  MaxId = 2
  KeepsSessions = TRUE
  MaxAsked = 3
  MaxBuilds = 2
  RepoNames <- TwoNames
  Programs <- TwoPrograms
  Settings <- RepoSettings
  MaxRepoId = 2
  MaxCommands = 4
  RepoSwitches <- OneSwitch
  MaxRuns = 2
  TargetTables <- SomeTables
  Builtins <- SomeBuiltins
  Capabilities <- TwoCapabilities
  Builds <- ToolLists
  Overrides <- SomeOverrides
  MaxTargetEdits = 2
  HooksOf <- TwoModes
  Originals <- Scripts
  BlockBodies <- TwoBodies
  Additions <- SomeAdditions
  MayCut = TRUE
  MaxOwnerEdits = 1
  MaxHookCommands = 2
  Part <- EveryPart
INVARIANTS
  AnswersMatch
  DiscoveryIsTrue
PROPERTIES
  CallsReturn
  TargetsKept
  HooksKept
  Apart
  SwitchKept
CHECK_DEADLOCK FALSE
