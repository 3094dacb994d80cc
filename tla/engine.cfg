\* A review whose prompt the engine receives at once.
SPECIFICATION FairSpec
CONSTANTS
  Timeouts <- ShortTimeouts
  Grace = 2
  CancelGrace = 1
  DrainGrace = 1
  ExitDrainGrace = 3
  Feeding = "fits"
INVARIANTS
  WithinLimits
  HandedOverWhole
PROPERTIES
  ReviewEnds
CHECK_DEADLOCK FALSE
