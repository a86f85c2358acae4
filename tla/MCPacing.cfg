SPECIFICATION PacingSpec
CONSTANTS
  Agent = {a1, a2, a3}
  Worker = {w1, w2}
  NoWorker = NoWorker
  OverdialNum = 3
  OverdialDen = 2
  RingingHardCap = 2
  CooldownTicks = 2
  Odds = {1, 4}
  Talk = 2
  Health = {0, 50, 100}
  MaxDeaths = 1
SYMMETRY Symmetry
INVARIANTS
  LoopTypeOK
  CountersExact
  OneLoopTicks
  LockIsAWorkingLoops
  RingingWithinCap
  ForcedProgressive
  InFlightWithinAvailable
