SPECIFICATION FairSpec
CONSTANTS
  Clients = {c1, c2}
  Eager = {c2}
  Lines = {hello, stop}
  StopLine = stop
  NoLine = NoLine
  Backlog = 1
  MaxUnread = 2
  ListenFd = 3
  LastFd = 5
  NoClient = NoClient
INVARIANTS
  NeverBlocksOutsideSelect
  AnswerNeverFails
PROPERTIES
  ImplementsEchoService
  EveryReadReturns
  StopEndsServer
CHECK_DEADLOCK FALSE
