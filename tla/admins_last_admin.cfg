\* What the docstring of set_admin promises, with two requests at once.
CONSTANTS
  w1 = w1
  w2 = w2
  Users <- MCUsers
  Workers <- TwoWorkers
SPECIFICATION Spec
PROPERTY LastAdminNeverDemoted
