\* Two processes dispatch the same action at once.
SPECIFICATION Spec
CONSTANTS
  daemon = daemon
  other = other
  p1 = p1
  p2 = p2
  NoPayload = NoPayload
  Passes <- TwoProcesses
  Daemons <- TwoProcesses
  Actions <- OneAction
  Payloads <- TwoPayloads
  GroupOf <- OneGroup
  Routes <- RoutesAll
  Searchable <- NeverSearch
  MaxAttempts = 2
  MaxMishaps = 1
  MaxReplays = 1
  ApprovedIsRequeued = TRUE
INVARIANTS
  HeldUntouched
  SentAsApproved
SYMMETRY Symmetry
