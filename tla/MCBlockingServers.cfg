SPECIFICATION FairSpec
CONSTANTS
  Clients = {c1, c2, c3}
  Eager = {c2}
  Lines = {hello, stop}
  StopLine = stop
  NoLine = NoLine
  Backlog = 0
  MaxUnread = 1
  MaxSessions = 3
INVARIANT TypeOK
PROPERTIES
  OnlyLeaversKill
  EveryReadReturns
  NoSessionOutlivesItsClient
  ImplementsEchoService
CHECK_DEADLOCK FALSE
