\* Up to two requests or callbacks out at once.
CONSTANTS
  t1 = t1
  t2 = t2
  sa = sa
  sb = sb
  da = da
  None = None
  Servers <- MCServers
  Dbs <- OneDb
  Tasks <- TwoTasks
  MaxInFlight = 2
  Rewrites = TRUE
SPECIFICATION Spec
INVARIANTS TypeOK TreeShowsActiveServer ExpandedIffInSet
PROPERTY DropHitsShownServer
SYMMETRY Symmetry
