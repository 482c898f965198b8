\* Two users, two connections, at most two requests.
CONSTANTS
  c1 = c1
  c2 = c2
  a = a
  b = b
  x = x
  y = y
  o = o
  i1 = i1
  i2 = i2
  Null = Null
  Clients <- TwoClients
  Tables <- TwoTables
  Columns <- TwoColumns
  Objects <- OneName
  Values <- Bits
  Conns <- TwoConns
  Lent <- OneConn
  Menu <- OneMenu
  Start <- Starts
  MaxRequests = 2
SPECIFICATION FairSpec
INVARIANT TypeOK
PROPERTIES ImplementsAtomicDdl AnswersTell EveryRequestAnswered
