\* One daemon that dispatches for ever; nothing moves an approved row on.
SPECIFICATION ServedSpec
CONSTANTS
  daemon = daemon
  other = other
  p1 = p1
  p2 = p2
  NoPayload = NoPayload
  Passes <- OneDaemon
  Daemons <- JustTheDaemon
  Actions <- OneAction
  Payloads <- OnePayload
  GroupOf <- OneGroup
  Routes <- RoutesAll
  Searchable <- SearchFirst
  MaxAttempts = 2
  MaxMishaps = 0
  MaxReplays = 0
  ApprovedIsRequeued = FALSE
PROPERTIES
  ApprovedSettles
