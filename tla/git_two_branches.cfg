SPECIFICATION SourcesSpec
CONSTANTS
  Parents <- History
  Patch <- Patches
  Author <- Authors
  Paths <- Touched
  Config <- Rules
  Branches <- MainAndTopic
  Default = "main"
  Watched <- Both
  Page = 2
  MaxRewrites = 0
  MaxMishaps = 0
  Defects = {"d"}
  MaxRevs = 5
  Limit = 2
  WatchBranches = TRUE
  MinFiles = 3
  Ids <- TwoIds
  MaxRuns = 3
  Files <- FilesOf
  KeepOnFailure = TRUE
  Histories <- Pasts
  Limits <- TwoLimits
  EnumerationCap = 3
  MaxCrashes = 1
  Numbers <- TwoRequests
  Shas = {"p", "q"}
  BaseOf <- BasesOfTwo
  Bases = {"main"}
  ReviewDrafts = FALSE
  MaxPasses = 2
  Part <- OnlyGit
PROPERTIES AllCaughtUp
CHECK_DEADLOCK FALSE
