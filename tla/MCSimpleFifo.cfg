SPECIFICATION FairSpec
CONSTANTS
  Clients = {c1, c2, c3}
  Mortal = {c1, Server}
  MaxRuns = 2
  Server = Server
  NoName = NoName
INVARIANTS
  TypeOK
  OrderlyEndServed
PROPERTIES
  NameEndsServer
  OpenedClientEnds
CHECK_DEADLOCK FALSE
