\* Two loops over one change, with recovery at every start.
SPECIFICATION Spec
CONSTANTS
  watch = watch
  desktop = desktop
  r1 = r1
  r2 = r2
  Procs <- TwoProcesses
  Repos <- OneRepo
  N = 1
  RepoOf <- AllOfOne
  Unwanted <- AllWanted
  Results <- AnyReview
  Limit = 2
  MaxAttempts = 2
  RecoveryRuns = TRUE
  MaxMishaps = 1
  MaxRetries = 1
  MaxVacuums = 0
INVARIANTS
  OneWorkerPerRun
  OneLiveRun
PROPERTIES
  TerminalIsFinal
