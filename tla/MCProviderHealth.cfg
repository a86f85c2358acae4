SPECIFICATION FairHealthSpec
CONSTANTS
  Provider = {p1, p2}
  Window = 0
  MinCalls = 2
  ErrNum = 1
  ErrDen = 2
  Cooldown = 1
  HalfOpenProbes = 2
  MaxRequest = 2
  MaxFresh = 3
INVARIANTS
  HealthTypeOK
  HalfOpenAdmits
  FewLateCalls
PROPERTIES
  OpensOnRecentErrors
  OpenEnds
  HaltsOnlyOnLowScores
