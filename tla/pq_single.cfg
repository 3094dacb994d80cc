\* One daemon, two actions of one run; the target of the second is not configured.
SPECIFICATION FairSpec
CONSTANTS
  daemon = daemon
  other = other
  p1 = p1
  p2 = p2
  NoPayload = NoPayload
  Passes <- OneDaemon
  Daemons <- JustTheDaemon
  Actions <- TwoActions
  Payloads <- TwoPayloads
  GroupOf <- OneGroup
  Routes <- RoutesFirst
  Searchable <- SearchFirst
  MaxAttempts = 2
  MaxMishaps = 1
  MaxReplays = 1
  ApprovedIsRequeued = TRUE
INVARIANTS
  FiledOnce
  RetriesPaced
PROPERTIES
  BudgetsKept
  RetriesEnd
  ImplementsContract
