\* Three threads on one account.
CONSTANTS
  w1 = w1
  w2 = w2
  w3 = w3
  u1 = u1
  p = p
  q = q
  None = None
  Workers <- ThreeThreads
  Users <- OneUser
  Passwords <- TwoPasswords
  MaxFailed = 2
SPECIFICATION Spec
SYMMETRY Symmetry
INVARIANTS TypeOK GuessesBounded OnlyResetsGoUnrecorded
PROPERTY ImplementsLockout
