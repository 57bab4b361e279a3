SPECIFICATION Spec
CONSTANTS
  Clients = {c1, c2}
  Unsafe = {}
  Mortal = {}
  MaxRuns = 1
  Prealloc = 3
  Free = Free
  Stdin = Stdin
  Server = Server
  NoPackage = NoPackage
PROPERTY ReadFromReturnsData
CHECK_DEADLOCK FALSE
