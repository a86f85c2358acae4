SPECIFICATION FairSpec
CONSTANTS
  Task = {c1, c2, Loop, Injector}
  Call = {c1, c2}
  Loop = Loop
  Injector = Injector
  Awake = Awake
  Nothing = Nothing
  End = 8
  TickS = 2
  RingS = 3
  Talks = {1, 4}
  OutageAt = 4
  OutageS = 2
CHECK_DEADLOCK FALSE
INVARIANTS
  SimulationTypeOK
  TicksOnSchedule
  EndedCallsAreReported
  EveryTickRecorded
PROPERTIES
  WokenOnTime
  MockIsAProvider
  NoCallInOutage
  SimulationEnds
