SPECIFICATION SplitSpec
CONSTANTS
  Agent = {a1}
  Worker = {w1, w2}
  NoWorker = NoWorker
  OverdialNum = 3
  OverdialDen = 2
  RingingHardCap = 2
  CooldownTicks = 2
  Odds = {1, 4}
  Talk = 2
  Health = {0, 50, 100}
  MaxDeaths = 0
INVARIANTS
  OneLoopTicks
