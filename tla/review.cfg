SPECIFICATION MCSpec
CONSTANTS
  Diffs <- SomeDiffs
  Guides <- SomeGuides
  Templates <- SomeTemplates
  FindingLists <- SomeLists
  Suppressions <- SomeSuppressions
  MaxFileBytes = 6
  MaxTotalBytes = 8
  StatBytes = 1
  MaxConventionBytes = 3
  DeepFileLimit = 2
  MaxDeepLines = 9
  Actions <- TheActions
  Plans <- ThePlans
  Modes <- AutonomyModes
  Options <- TheOptions
  Anchors = {"f", "h"}
  Notes = {"n1", "n2"}
  CanSearch = TRUE
  MaxAttempts = 2
  Part <- EveryPart
INVARIANTS
  NothingVanishes
  SevereMeansDeeper
  PromptDelivered
  OneOfEach
  NothingBindingUnasked
  DeliveredIsThere
PROPERTIES
  HumanTextKept
CHECK_DEADLOCK FALSE
