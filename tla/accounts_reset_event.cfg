\* Resets of a password beside everything else that is logged.
CONSTANTS
  w1 = w1
  w2 = w2
  w3 = w3
  u1 = u1
  p = p
  q = q
  None = None
  Workers <- OneThread
  Users <- OneUser
  Passwords <- TwoPasswords
  MaxFailed = 2
SPECIFICATION Spec
INVARIANT EveryEventRecorded
