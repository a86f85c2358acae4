SPECIFICATION PunctualSpec
CONSTANTS
  Agent = {a1, a2}
  Borrower = {b1}
  Slot = {s1, s2}
  MaxAttempts = 2
  Copies = 1
  ReserveLease = 2
  DialLease = 1
  WrapUp = 1
  GiveUpAge = 2
  NoAgent = NoAgent
  NoCall = NoCall
SYMMETRY Symmetry
INVARIANTS
  IInv
  OneLiveCallPerBorrower
  
  AttemptsAreFinishedCalls
  DoneMeansCompleted
PROPERTIES
  CallsOnlyAdvance
