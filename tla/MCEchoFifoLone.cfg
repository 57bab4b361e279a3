SPECIFICATION FairLoneSpec
CONSTANTS
  Clients = {c1, c2}
  Unsafe = {c1}
  Mortal = {c1, Server}
  MaxRuns = 2
  Prealloc = 3
  Free = Free
  Stdin = Stdin
  Server = Server
  NoPackage = NoPackage
INVARIANT LoneSessionIsItsOwn
PROPERTIES
  LoneClientEnds
  CloseEndsServer
CHECK_DEADLOCK FALSE
