SPECIFICATION FairSpec
CONSTANTS
  Drain = {d1, d2}
  c1 = c1
  Call = {c1}
  Event <- MCEvent
  Backlogs <- MCBacklogs
  Limit = 2
  MaxCrashes = 1
  Untouched = Untouched
CHECK_DEADLOCK FALSE
INVARIANTS
  DrainTypeOK
  ChargedOnce
PROPERTIES
  DrainsAreSerial
  KnownEventsLeave
