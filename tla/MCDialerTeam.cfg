SPECIFICATION PunctualSpec
CONSTANTS
  Agent = {a1, a2}
  Borrower = {b1, b2}
  Slot = {s1, s2}
  MaxAttempts = 1
  Copies = 1
  ReserveLease = 1
  DialLease = 1
  WrapUp = 1
  GiveUpAge = 1
  NoAgent = NoAgent
  NoCall = NoCall
SYMMETRY Symmetry
INVARIANTS
  OneLiveCallPerAgent
  LiveCallHasItsAgent
  BusyAgentHasACall
PROPERTIES
  ImplementsPool
  EventsAreSerial
  ConnectedUntilHungUp
