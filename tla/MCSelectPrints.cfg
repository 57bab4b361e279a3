SPECIFICATION Spec
CONSTANTS
  Clients = {c1}
  Eager = {}
  Lines = {hello, stop}
  StopLine = stop
  NoLine = NoLine
  Backlog = 1
  MaxUnread = 0
  ListenFd = 3
  LastFd = 4
  NoClient = NoClient
PROPERTY PrintsOnlyServerData
CHECK_DEADLOCK FALSE
