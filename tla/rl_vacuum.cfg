\* One loop, a change to review and one to skip, every outcome of a review, and a vacuum.
SPECIFICATION Spec
CONSTANTS
  watch = watch
  desktop = desktop
  r1 = r1
  r2 = r2
  Procs <- OneWatch
  Repos <- OneRepo
  N = 2
  RepoOf <- AllOfOne
  Unwanted <- SecondUnwanted
  Results <- AnyOutcome
  Limit = 2
  MaxAttempts = 1
  RecoveryRuns = FALSE
  MaxMishaps = 1
  MaxRetries = 1
  MaxVacuums = 1
INVARIANTS
  SkippedStaysUnreviewed
  OnTheBooks
