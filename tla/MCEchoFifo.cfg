SPECIFICATION Spec
CONSTANTS
  Clients = {c1, c2, c3, c4}
  Unsafe = {}
  Mortal = {c1, Server}
  MaxRuns = 2
  Prealloc = 3
  Free = Free
  Stdin = Stdin
  Server = Server
  NoPackage = NoPackage
SYMMETRY ImmortalSymmetry
INVARIANTS
  TypeOK
  SessionsAreConnections
  GreetedFirst
PROPERTY CrashNeedsDeparture
CHECK_DEADLOCK FALSE
