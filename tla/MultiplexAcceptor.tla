------------------------- MODULE MultiplexAcceptor -------------------------
(***************************************************************************)
(* The engine's TcpMultiplexAcceptor, with the handler of the program      *)
(* socket/examples/multiplex_server, which echoes, or with the handler of  *)
(* TcpReceiver, which collects messages until receive() has enough.        *)
(*                                                                         *)
(* Two vectors run in parallel: the entries of poll() and the sessions,    *)
(* the listening socket first in both.  Accepting is the handler of that   *)
(* first session: it appends to the vectors while the loop over them runs. *)
(*                                                                         *)
(* The engine keeps the results of read() and write() in a size_t, so no   *)
(* error is noticed, and the handlers do not notice an end of stream: one  *)
(* answers it, the other takes it for a message.  No session is ever       *)
(* removed.  The echo server never stops.                                  *)
(*                                                                         *)
(* A run of examples/tcp_sender is a client that connects and closes: its  *)
(* send() writes buffer.size() bytes, and nothing ever sets that size.     *)
(***************************************************************************)
EXTENDS TcpClients, FiniteSets

CONSTANTS
  ListenFd,   \* the descriptor of the listening socket, the lowest free one
  LastFd,     \* the highest descriptor the process may have (RLIMIT_NOFILE)
  NoClient,   \* owner of a free descriptor
  Expected    \* the argument of receive(): 5 in examples/tcp_receiver

ASSUME FdAssumption ==
  /\ ListenFd \in Nat /\ LastFd \in Nat /\ ListenFd < LastFd
  /\ NoClient \notin Clients
  /\ Expected \in Nat

VARIABLES
  handler,          \* clientRequestHandler_: it never changes
  pc,               \* where pollingLoop() or receive() is
  owner,            \* the client behind each descriptor
  clientPollFdSet,  \* std::vector<struct pollfd> clientPollFdSet_
  tcpSessions,      \* the sockets of std::vector<TcpSession> tcpSessions_
  readyCount,       \* int &readyCount
  i,                \* the loop index over tcpSessions, from 1
  buffer,           \* the lines in the handler's buffer; none: 1024 zeros
  messages          \* messages_ of TcpReceiver

srvVars == <<handler, pc, owner, clientPollFdSet, tcpSessions, readyCount, i,
             buffer, messages>>
vars == <<cliVars, srvVars>>

SrvState == {"poll", "loop", "read", "write", "print", "stopped", "dead"}

Fds == ListenFd + 1 .. LastFd

\* revents is 0, POLLRDNORM alone, or has any other bit.
Revents == {"none", "rdnorm", "other"}

Pollfd == [fd : Fds \cup {ListenFd}, revents : Revents]

Message == [from : Clients, data : Seq(Lines)]

TypeOK ==
  /\ CliTypeOK
  /\ handler \in {"echo", "receiver"}
  /\ pc \in SrvState
  /\ owner \in [Fds -> Clients \cup {NoClient}]
  /\ clientPollFdSet \in Seq(Pollfd)
  /\ tcpSessions \in Seq(Fds \cup {ListenFd})
  /\ readyCount \in Nat
  /\ i \in Nat \ {0}
  /\ buffer \in Seq(Lines)
  /\ messages \in Seq(Message)

\* The constructor puts the listening socket into both vectors; the moved
\* acceptor has them, and its listening session accepts into its own.
Init ==
  /\ CliInit
  /\ handler \in {"echo", "receiver"}
  /\ pc = "poll"
  /\ owner = [f \in Fds |-> NoClient]
  /\ clientPollFdSet = <<[fd |-> ListenFd, revents |-> "none"]>>
  /\ tcpSessions = <<ListenFd>>
  /\ readyCount = 0
  /\ i = 1
  /\ buffer = <<>>
  /\ messages = <<>>

OpenFds == {f \in Fds : owner[f] # NoClient}
Sessions == {owner[f] : f \in OpenFds}

-----------------------------------------------------------------------------

\* An exception nobody catches, or SIGPIPE: the kernel closes everything.
Die ==
  /\ CloseAll(Sessions)
  /\ pc' = "dead"
  /\ owner' = [f \in Fds |-> NoClient]
  /\ UNCHANGED <<handler, clientPollFdSet, tcpSessions, readyCount, i, buffer,
                 messages>>

\* Mutant of Poll: revents & POLLRDNORM instead of revents == POLLRDNORM.
PollMasked(f) ==
  IF f = ListenFd THEN IF backlog = <<>> THEN "none" ELSE "rdnorm"
  ELSE IF Readable(owner[f]) THEN "rdnorm" ELSE "none"

\* Mutant of Poll: every session is said to have data.
PollUnasked(f) ==
  IF f = ListenFd /\ backlog = <<>> THEN "none" ELSE "rdnorm"

\* A session that was reset has POLLERR or POLLHUP as well.
Poll(f) ==
  IF f = ListenFd THEN IF backlog = <<>> THEN "none" ELSE "rdnorm"
  ELSE IF peer[owner[f]] \in {"rst", "finrst"} THEN "other"
  ELSE IF Readable(owner[f]) THEN "rdnorm" ELSE "none"

\* poll() blocks until an entry has an event.
GetCountReadyTcpSessions ==
  /\ pc = "poll"
  /\ LET polled == [k \in DOMAIN clientPollFdSet |->
                      [fd |-> clientPollFdSet[k].fd,
                       revents |-> Poll(clientPollFdSet[k].fd)]]
         ready == {k \in DOMAIN polled : polled[k].revents # "none"}
     IN  /\ ready # {}
         /\ clientPollFdSet' = polled
         /\ readyCount' = Cardinality(ready)
  /\ pc' = "loop" /\ i' = 1
  /\ UNCHANGED <<cliVars, handler, owner, tcpSessions, buffer, messages>>

-----------------------------------------------------------------------------
(***************************************************************************)
(* handleClientsSocket() and handleEvent().                                *)
(***************************************************************************)

InLoop == pc = "loop" /\ readyCount > 0 /\ i <= Len(tcpSessions)

\* The handler of session i is called and readyCount goes down after it.
Called == InLoop /\ clientPollFdSet[i].revents = "rdnorm"

\* Mutant of Served: the handler counts as well.
ServedTwice == pc' = "loop" /\ i' = i + 1 /\ readyCount' = readyCount - 2

Served == pc' = "loop" /\ i' = i + 1 /\ readyCount' = readyCount - 1

\* Mutant of NotReady: --readyCount for every session looked at.
NotReadyCounted ==
  /\ InLoop /\ clientPollFdSet[i].revents # "rdnorm"
  /\ i' = i + 1
  /\ readyCount' = readyCount - 1
  /\ UNCHANGED <<cliVars, handler, pc, owner, clientPollFdSet, tcpSessions,
                 buffer, messages>>

NotReady ==
  /\ InLoop /\ clientPollFdSet[i].revents # "rdnorm"
  /\ i' = i + 1
  /\ UNCHANGED <<cliVars, handler, pc, owner, clientPollFdSet, tcpSessions,
                 readyCount, buffer, messages>>

LowestFree(f) == owner[f] = NoClient /\ \A g \in Fds : g < f => owner[g] # NoClient

\* Socket::accept(): the client gets the lowest free descriptor.
NewSocket(f) ==
  /\ TakeConnection
  /\ LowestFree(f)
  /\ owner' = [owner EXCEPT ![f] = Head(backlog)]

\* Mutant of Accept: the entry of poll() is forgotten.
AcceptUnpolled ==
  /\ Called /\ tcpSessions[i] = ListenFd
  /\ \E f \in Fds :
       /\ NewSocket(f)
       /\ tcpSessions' = Append(tcpSessions, f)
  /\ Served
  /\ UNCHANGED <<handler, clientPollFdSet, buffer, messages>>

\* TcpListenerRequestHandler: the new entry's revents is 0.
Accept ==
  /\ Called /\ tcpSessions[i] = ListenFd
  /\ \E f \in Fds :
       /\ NewSocket(f)
       /\ clientPollFdSet' = Append(clientPollFdSet, [fd |-> f, revents |-> "none"])
       /\ tcpSessions' = Append(tcpSessions, f)
  /\ Served
  /\ UNCHANGED <<handler, buffer, messages>>

\* No descriptor is free: accept() fails and the exception ends the server.
AcceptFails ==
  /\ Called /\ tcpSessions[i] = ListenFd
  /\ OpenFds = Fds
  /\ Die

\* The handler of the example enters read().
Handle ==
  /\ Called /\ tcpSessions[i] # ListenFd
  /\ pc' = "read"
  /\ UNCHANGED <<cliVars, handler, owner, clientPollFdSet, tcpSessions,
                 readyCount, i, buffer, messages>>

client == owner[tcpSessions[i]]

\* read() takes all that has arrived.  The end of the stream or an error
\* leaves the buffer as it was: zeros.
ReadFrom ==
  \/ TakeData(client)
  \/ (AtEof(client) \/ AtReset(client)) /\ UNCHANGED cliVars

Read ==
  /\ pc = "read" /\ handler = "echo"
  /\ ReadFrom
  /\ buffer' = inbox[client]
  /\ pc' = "write"
  /\ UNCHANGED <<handler, owner, clientPollFdSet, tcpSessions, readyCount, i,
                 messages>>

\* Mutant of Receive: the buffer still holds the message before.
ReceiveStale ==
  /\ pc = "read" /\ handler = "receiver"
  /\ ReadFrom
  /\ LET data == IF inbox[client] = <<>> /\ messages # <<>>
                 THEN messages[Len(messages)].data ELSE inbox[client]
     IN  messages' = Append(messages, [from |-> client, data |-> data])
  /\ Served
  /\ UNCHANGED <<handler, owner, clientPollFdSet, tcpSessions, buffer>>

\* The handler of TcpReceiver: whatever read() brought is a message.
Receive ==
  /\ pc = "read" /\ handler = "receiver"
  /\ ReadFrom
  /\ messages' = Append(messages, [from |-> client, data |-> inbox[client]])
  /\ Served
  /\ UNCHANGED <<handler, owner, clientPollFdSet, tcpSessions, buffer>>

\* Mutant of Write: the answer goes to the session accepted last.
WriteToLast ==
  /\ pc = "write"
  /\ PutData(owner[tcpSessions[Len(tcpSessions)]], buffer)
  /\ buffer' = <<>>
  /\ Served
  /\ UNCHANGED <<handler, owner, clientPollFdSet, tcpSessions, messages>>

\* write() of the whole buffer, also when read() brought nothing.
Write ==
  /\ pc = "write"
  /\ PutData(client, buffer)
  /\ buffer' = <<>>
  /\ Served
  /\ UNCHANGED <<handler, owner, clientPollFdSet, tcpSessions, messages>>

\* The first call on a connection that was reset fails with ECONNRESET, and
\* nobody looks.
WriteUnnoticed ==
  /\ pc = "write" /\ peer[client] = "rst" /\ buffer # <<>>
  /\ buffer' = <<>>
  /\ Served
  /\ UNCHANGED <<cliVars, handler, owner, clientPollFdSet, tcpSessions,
                 messages>>

\* SIGPIPE, for a write after the error was reported or after a reset that
\* came behind the end of the stream.
WriteKills ==
  /\ pc = "write"
  /\ peer[client] = "finrst" \/ (peer[client] = "rst" /\ buffer = <<>>)
  /\ Die

\* pollingLoop() goes on for ever, receive() until it has enough.
EndOfRound ==
  /\ pc = "loop" /\ ~InLoop
  /\ pc' = IF handler = "receiver" /\ Len(messages) >= Expected THEN "print" ELSE "poll"
  /\ UNCHANGED <<cliVars, handler, owner, clientPollFdSet, tcpSessions,
                 readyCount, i, buffer, messages>>

\* main() has printed the messages, and the acceptor is destroyed: it closes
\* the socket of every session, the listening one included.
Destroy ==
  /\ pc = "print"
  /\ CloseAll({owner[tcpSessions[k]] : k \in 2 .. Len(tcpSessions)})
  /\ owner' = [f \in Fds |-> IF \E k \in DOMAIN tcpSessions : tcpSessions[k] = f
                             THEN NoClient ELSE owner[f]]
  /\ clientPollFdSet' = <<>> /\ tcpSessions' = <<>> /\ messages' = <<>>
  /\ pc' = "stopped"
  /\ UNCHANGED <<handler, readyCount, i, buffer>>

ServerStep ==
  \/ GetCountReadyTcpSessions
  \/ NotReady
  \/ Accept
  \/ AcceptFails
  \/ Handle
  \/ Read
  \/ Receive
  \/ Write
  \/ WriteUnnoticed
  \/ WriteKills
  \/ EndOfRound
  \/ Destroy

EnvStep == UNCHANGED srvVars /\ \E c \in Clients : ClientStep(c)

Next == ServerStep \/ EnvStep

Spec == Init /\ [][Next]_vars

\* The server process is scheduled.  While poll() or read() blocks, no step
\* is enabled.
FairSpec == Spec /\ WF_vars(ServerStep) /\ ClientFairness
-----------------------------------------------------------------------------
(***************************************************************************)
(* Properties.                                                             *)
(***************************************************************************)

\* handleClientsSocket() pairs tcpSessions_[i] with clientPollFdSet_[i]: the
\* vectors name the same descriptors in the same order, the listening socket
\* first and every open session once, although one handler grows them.  So the
\* destructor closes them all.
VectorsRunInParallel ==
  /\ pc \notin {"stopped", "dead"} =>
       /\ tcpSessions = [k \in DOMAIN clientPollFdSet |-> clientPollFdSet[k].fd]
       /\ tcpSessions[1] = ListenFd
       /\ \A j, k \in DOMAIN tcpSessions : tcpSessions[j] = tcpSessions[k] => j = k
       /\ {tcpSessions[k] : k \in 2 .. Len(tcpSessions)} = OpenFds
  /\ pc = "stopped" => OpenFds = {}

\* A handler is called only for what poll() found, and what poll() found is
\* still there: accept() and read() never block the one thread.
NeverBlocksOutsidePoll ==
  /\ Called /\ tcpSessions[i] = ListenFd => backlog # <<>>
  /\ pc = "read" => Readable(client)

\* A client that dies while its line is served cannot end the server by it.
\* Only an exhausted descriptor table can, or a client that left in order and
\* was sent zeros before, whose reset comes between poll() and write().
OnlyLateResetsKill ==
  [][pc # "dead" /\ pc' = "dead" =>
       \/ pc = "loop" /\ OpenFds = Fds
       \/ pc = "write" /\ peer[client] = "finrst" /\ cli[client] = "done"]_vars

\* A client of the echo server blocked in read() gets an answer or learns that
\* the server died, whatever sessions that were reset keep poll() busy and
\* although the loop may end early, when readyCount is 0.
EveryReadReturns ==
  \A c \in Clients : handler = "echo" /\ cli[c] = "reading" ~> cli[c] # "reading"

\* A message without data comes only from a client that has left, however
\* often it comes, and a client that waits for an answer is the sender of at
\* most one other message: the line it wrote.  (Nobody sees the messages of a
\* process that died, and its clients may go on to write.)
MessagesAreGenuine ==
  pc # "dead" =>
    \A k \in DOMAIN messages :
      LET m == messages[k]
      IN  \/ m.data = <<>> /\ peer[m.from] = "fin"
          \/ m.data # <<>> /\ m.from \in Eager
          \/ /\ m.data = <<line[m.from]>> /\ inbox[m.from] = <<>>
             /\ \A j \in DOMAIN messages \ {k} :
                  messages[j].from = m.from => messages[j].data = <<>>

\* One client that has left is enough for receive() to return: the end of its
\* stream is a message in every round, whatever the others do.
ReceiveReturns ==
  handler = "receiver" /\ (\E c \in Sessions : peer[c] = "fin")
    ~> pc \in {"stopped", "dead"}

\* What the handler has read and not written back yet.
InService(c) == IF pc = "write" /\ client = c THEN buffer ELSE <<>>

Echo == INSTANCE EchoService WITH
          StopLine <- NoLine,
          place <- [c \in Clients |-> Place(c)],
          asked <- [c \in Clients |-> InService(c) \o inbox[c]],
          replies <- outbox,
          open <- pc # "dead"

\* With the echo handler the server implements the echo service, in which no
\* line is a stop: the texts with which other servers end are answered here.
ImplementsEchoService ==
  Echo!Init /\ [][handler = "echo" => Echo!Next]_(Echo!vars)
=============================================================================
