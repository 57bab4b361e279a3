SPECIFICATION FairSpec
CONSTANTS
  Clients = {c1, c2, c3}
  Eager = {c2}
  Lines = {hello}
  StopLine = stop
  NoLine = NoLine
  Backlog = 0
  MaxUnread = 1
  ListenFd = 3
  LastFd = 5
  NoClient = NoClient
  Expected = 2
INVARIANTS
  TypeOK
  VectorsRunInParallel
  NeverBlocksOutsidePoll
  MessagesAreGenuine
PROPERTIES
  OnlyLateResetsKill
  EveryReadReturns
  ReceiveReturns
  ImplementsEchoService
CHECK_DEADLOCK FALSE
