SPECIFICATION Spec
CONSTANTS
  Clients = {c1, c2, c3}
  Eager = {}
  Lines = {hello, stop}
  StopLine = stop
  NoLine = NoLine
  Backlog = 1
  MaxUnread = 0
  ListenFd = 3
  LastFd = 5
  NoClient = NoClient
SYMMETRY ClientSymmetry
INVARIANTS
  TypeOK
  PollsEverySession
CHECK_DEADLOCK FALSE
