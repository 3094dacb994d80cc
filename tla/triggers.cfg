\* Two repositories, one of which also takes webhooks.
SPECIFICATION FairSpec
CONSTANTS
  push = push
  ping = ping
  Repos = {1, 2}
  Window = 1
  Deliveries <- AllDeliveries
  SentTo <- ToFirst
  Unroutable = {ping}
  OptedIn = {1}
  Memory = 1
  Capped = {1}
  Lag = 1
  MaxEvents = 3
  Horizon = 2
  MaxStepsBack = 1
INVARIANTS
  NoTriggerLost
  RememberedIsActedOn
PROPERTIES
  PassesAreEarned
  TriggersAreRead
CHECK_DEADLOCK FALSE
