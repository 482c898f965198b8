\* Two requests interleaved statement by statement, beside init-auth.
CONSTANTS
  w1 = w1
  w2 = w2
  Users <- MCUsers
  Workers <- TwoWorkers
SPECIFICATION FairSpec
INVARIANTS TypeOK InitAuthLeavesAnAdmin
PROPERTIES ImplementsAdminSet InitAuthMakesAnAdmin
