SPECIFICATION PunctualSpec
CONSTANTS
  Agent = {a1, a2}
  Borrower = {b1}
  Slot = {s1, s2}
  MaxAttempts = 1
  Copies = 1
  ReserveLease = 1
  DialLease = 2
  WrapUp = 1
  GiveUpAge = 1
  NoAgent = NoAgent
  NoCall = NoCall
INVARIANTS
  NoUnhandledCollision
