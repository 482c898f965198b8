\* Two handlers suspended at once.
CONSTANTS
  k1 = k1
  k2 = k2
  sa = sa
  sb = sb
  d = d
  None = None
  Servers <- TwoServers
  NoServer = NoServer
  Pages <- UsersPage
  Dbs <- OneDb
  Calls <- TwoCalls
SYMMETRY Symmetry
SPECIFICATION Spec
INVARIANTS TypeOK DataUnderItsHeading PanelFollowsClick OneServerPerPart OneScreen LoginOnlySignedOut
