SPECIFICATION FairSpec
CONSTANTS
  Agent = {a1}
  Borrower = {b1}
  Slot = {s1}
  MaxAttempts = 1
  Copies = 2
  ReserveLease = 1
  DialLease = 2
  WrapUp = 1
  GiveUpAge = 1
  NoAgent = NoAgent
  NoCall = NoCall
PROPERTIES
  ReservationEnds
  LedgerDrains
  
