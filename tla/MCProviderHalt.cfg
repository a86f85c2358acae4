SPECIFICATION FairHealthSpec
CONSTANTS
  Provider = {p1, p2}
  Window = 1
  MinCalls = 2
  ErrNum = 1
  ErrDen = 2
  Cooldown = 1
  HalfOpenProbes = 2
  MaxRequest = 3
  MaxFresh = 3
PROPERTIES
  DialingResumes
