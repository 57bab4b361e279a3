----------------------------- MODULE PollServer -----------------------------
(***************************************************************************)
(* socket/servers/multiplex_server_use_poll/main.cpp: the echo server on   *)
(* poll().  One vector, clients, holds the listening socket and the        *)
(* sessions; it is the argument of poll() and the only table of sessions.  *)
(* The program compares revents with POLLRDNORM for equality, and it leaves*)
(* revents of a session it has just accepted uninitialized.                *)
(***************************************************************************)
EXTENDS TcpClients, SequencesExt

CONSTANTS
  ListenFd,   \* the descriptor of the listening socket, the lowest free one
  LastFd,     \* the highest descriptor the process may have (RLIMIT_NOFILE)
  NoClient    \* owner of a free descriptor

ASSUME FdAssumption ==
  /\ ListenFd \in Nat /\ LastFd \in Nat /\ ListenFd < LastFd
  /\ NoClient \notin Clients

VARIABLES
  pc,         \* where main() is
  owner,      \* the session behind each descriptor
  clients,    \* std::vector<struct pollfd> clients, the listener first
  nready,     \* the result of poll()
  isRunning,  \* bool isRunning
  i,          \* the loop index over clients, from 1
  buff        \* what handleRequest() has read and not yet written back

srvVars == <<pc, owner, clients, nready, isRunning, i, buff>>
vars == <<cliVars, srvVars>>

SrvState == {"poll", "accept", "scan", "read", "write", "stop", "closed",
             "stopped", "dead"}

Fds == ListenFd + 1 .. LastFd

\* revents is 0, POLLRDNORM alone, or has any other bit.
Revents == {"none", "rdnorm", "other"}

Pollfd == [fd : Fds \cup {ListenFd}, revents : Revents]

TypeOK ==
  /\ CliTypeOK
  /\ pc \in SrvState
  /\ owner \in [Fds -> Clients \cup {NoClient}]
  /\ clients \in Seq(Pollfd)
  /\ nready \in Nat
  /\ isRunning \in BOOLEAN
  /\ i \in Nat \ {0}
  /\ buff \in Seq(Lines)

Init ==
  /\ CliInit
  /\ pc = "poll"
  /\ owner = [f \in Fds |-> NoClient]
  /\ clients = <<[fd |-> ListenFd, revents |-> "none"]>>
  /\ nready = 0
  /\ isRunning = TRUE
  /\ i = 2
  /\ buff = <<>>

OpenFds == {f \in Fds : owner[f] # NoClient}
Sessions == {owner[f] : f \in OpenFds}

-----------------------------------------------------------------------------

\* errorHandler(): exit(-1), and the kernel closes every descriptor.  A
\* SIGPIPE ends the process the same way.
Die ==
  /\ CloseAll(Sessions)
  /\ pc' = "dead"
  /\ owner' = [f \in Fds |-> NoClient]
  /\ UNCHANGED <<clients, nready, isRunning, i, buff>>

\* Mutant of Poll: every session is said to have data.
PollUnasked(f) ==
  IF f = ListenFd /\ backlog = <<>> THEN "none" ELSE "rdnorm"

\* Mutant of Poll: revents & POLLRDNORM instead of revents == POLLRDNORM.
PollMasked(f) ==
  IF f = ListenFd THEN IF backlog = <<>> THEN "none" ELSE "rdnorm"
  ELSE IF Readable(owner[f]) THEN "rdnorm" ELSE "none"

\* POLLERR and POLLHUP come unasked for: a reset session has them, whichever
\* way it was reset, and with or without data to read.
Poll(f) ==
  IF f = ListenFd THEN IF backlog = <<>> THEN "none" ELSE "rdnorm"
  ELSE IF peer[owner[f]] \in {"rst", "finrst"} THEN "other"
  ELSE IF Readable(owner[f]) THEN "rdnorm" ELSE "none"

\* poll() blocks until an entry has an event.
PollClients ==
  /\ pc = "poll"
  /\ LET polled == [k \in DOMAIN clients |->
                      [fd |-> clients[k].fd, revents |-> Poll(clients[k].fd)]]
         ready == {k \in DOMAIN clients : polled[k].revents # "none"}
     IN  /\ ready # {}
         /\ clients' = polled
         /\ nready' = Cardinality(ready)
  /\ pc' = "accept"
  /\ UNCHANGED <<cliVars, owner, isRunning, i, buff>>

LowestFree(f) == owner[f] = NoClient /\ \A g \in Fds : g < f => owner[g] # NoClient

\* accept(), and push_back of a pollfd whose revents is whatever was on the
\* stack.  With nothing else ready the loop over clients is skipped.
Accept ==
  /\ pc = "accept" /\ clients[1].revents = "rdnorm"
  /\ TakeConnection
  /\ \E f \in Fds, garbage \in Revents :
       /\ LowestFree(f)
       /\ owner' = [owner EXCEPT ![f] = Head(backlog)]
       /\ clients' = Append(clients, [fd |-> f, revents |-> garbage])
  /\ pc' = IF nready < 2 THEN "poll" ELSE "scan"
  /\ i' = 2
  /\ UNCHANGED <<nready, isRunning, buff>>

\* No descriptor is free: accept() fails.
AcceptFails ==
  /\ pc = "accept" /\ clients[1].revents = "rdnorm"
  /\ OpenFds = Fds
  /\ Die

NothingToAccept ==
  /\ pc = "accept" /\ clients[1].revents # "rdnorm"
  /\ pc' = "scan" /\ i' = 2
  /\ UNCHANGED <<cliVars, owner, clients, nready, isRunning, buff>>

-----------------------------------------------------------------------------
(***************************************************************************)
(* The loop over clients and handleRequest().                              *)
(***************************************************************************)

InLoop == pc = "scan" /\ i <= Len(clients)

sockfd == clients[i].fd

\* Mutant of NotReady: break instead of going on.
NotReadyBreak ==
  /\ InLoop /\ clients[i].revents # "rdnorm"
  /\ i' = Len(clients) + 1
  /\ UNCHANGED <<cliVars, pc, owner, clients, nready, isRunning, buff>>

NotReady ==
  /\ InLoop /\ clients[i].revents # "rdnorm"
  /\ i' = i + 1
  /\ UNCHANGED <<cliVars, pc, owner, clients, nready, isRunning, buff>>

\* handleRequest() enters read(), which blocks until there is something.
Handle ==
  /\ InLoop /\ clients[i].revents = "rdnorm"
  /\ pc' = "read"
  /\ UNCHANGED <<cliVars, owner, clients, nready, isRunning, i, buff>>

\* Mutant of Erase: the entry stays, disabled by a negative descriptor.
EraseByNegating(fd) ==
  clients' = [k \in DOMAIN clients |->
                IF clients[k].fd = fd THEN [clients[k] EXCEPT !.fd = 0 - 1] ELSE clients[k]]

\* Mutant of Erase: the last session goes, whichever was found.
EraseLast(fd) == clients' = SubSeq(clients, 1, Len(clients) - 1)

\* std::find_if() always finds fd: it was read from clients.
Erase(fd) ==
  \E k \in DOMAIN clients :
    /\ clients[k].fd = fd /\ \A j \in 1 .. k - 1 : clients[j].fd # fd
    /\ clients' = RemoveAt(clients, k)

\* read() returned 0.  The loop then steps over the element that moved into
\* the erased place.
ReadEof ==
  /\ pc = "read" /\ AtEof(owner[sockfd])
  /\ CloseEnds({owner[sockfd]})
  /\ Erase(sockfd)
  /\ owner' = [owner EXCEPT ![sockfd] = NoClient]
  /\ pc' = "scan" /\ i' = i + 1
  /\ UNCHANGED <<nready, isRunning, buff>>

\* The answer to StopLine is to leave the outer loop once this round ends.
ReadStop ==
  /\ pc = "read" /\ inbox[owner[sockfd]] = <<StopLine>>
  /\ TakeData(owner[sockfd])
  /\ isRunning' = FALSE
  /\ pc' = "scan" /\ i' = i + 1
  /\ UNCHANGED <<owner, clients, nready, buff>>

ReadLine ==
  /\ pc = "read" /\ inbox[owner[sockfd]] # <<StopLine>>
  /\ TakeData(owner[sockfd])
  /\ buff' = inbox[owner[sockfd]]
  /\ pc' = "write"
  /\ UNCHANGED <<owner, clients, nready, isRunning, i>>

\* Mutant of Write: the answer goes to the first session.
WriteToFirst ==
  /\ pc = "write"
  /\ PutData(owner[clients[2].fd], buff)
  /\ pc' = "scan" /\ i' = i + 1
  /\ buff' = <<>>
  /\ UNCHANGED <<owner, clients, nready, isRunning>>

Write ==
  /\ pc = "write"
  /\ PutData(owner[sockfd], buff)
  /\ pc' = "scan" /\ i' = i + 1
  /\ buff' = <<>>
  /\ UNCHANGED <<owner, clients, nready, isRunning>>

\* errorHandler() after read() or write().
CallFails ==
  \/ pc = "read" /\ AtReset(owner[sockfd])
  \/ pc = "write" /\ ~CanWrite(owner[sockfd])

RequestFails == CallFails /\ Die

\* Mutant of EndOfRound: isRunning is not looked at.
EndOfRoundOn ==
  /\ pc = "scan" /\ i > Len(clients)
  /\ pc' = "poll"
  /\ UNCHANGED <<cliVars, owner, clients, nready, isRunning, i, buff>>

EndOfRound ==
  /\ pc = "scan" /\ i > Len(clients)
  /\ pc' = IF isRunning THEN "poll" ELSE "stop"
  /\ UNCHANGED <<cliVars, owner, clients, nready, isRunning, i, buff>>

\* CloseOpeningFileDescriptors() closes what is in clients, the listening
\* socket included.
Stop ==
  /\ pc = "stop"
  /\ CloseAll({owner[clients[k].fd] : k \in 2 .. Len(clients)})
  /\ owner' = [f \in Fds |-> IF \E k \in DOMAIN clients : clients[k].fd = f
                             THEN NoClient ELSE owner[f]]
  /\ clients' = <<>>
  /\ pc' = "closed"
  /\ UNCHANGED <<nready, isRunning, i, buff>>

\* The end of main(), where the kernel closes the rest.
Exit ==
  /\ pc = "closed"
  /\ CloseAll(Sessions)
  /\ owner' = [f \in Fds |-> NoClient]
  /\ pc' = "stopped"
  /\ UNCHANGED <<clients, nready, isRunning, i, buff>>

ServerStep ==
  \/ PollClients
  \/ Accept
  \/ AcceptFails
  \/ NothingToAccept
  \/ NotReady
  \/ Handle
  \/ ReadEof
  \/ ReadStop
  \/ ReadLine
  \/ Write
  \/ RequestFails
  \/ EndOfRound
  \/ Stop
  \/ Exit

EnvStep == UNCHANGED srvVars /\ \E c \in Clients : ClientStep(c)

Next == ServerStep \/ EnvStep

Spec == Init /\ [][Next]_vars

\* The server process is scheduled.  While poll() or read() blocks, no step
\* is enabled.
FairSpec == Spec /\ WF_vars(ServerStep) /\ ClientFairness
-----------------------------------------------------------------------------
(***************************************************************************)
(* Properties.                                                             *)
(***************************************************************************)

Running == pc \notin {"closed", "stopped", "dead"}

\* The vector names the listening socket first and then every open session
\* once, and no session has two descriptors: so CloseOpeningFileDescriptors()
\* leaves none open.
PollsEverySession ==
  /\ Running =>
       /\ clients[1].fd = ListenFd
       /\ {clients[k].fd : k \in 2 .. Len(clients)} = OpenFds
       /\ \A j, k \in DOMAIN clients : clients[j].fd = clients[k].fd => j = k
       /\ \A f, g \in OpenFds : owner[f] = owner[g] => f = g
  /\ pc = "closed" => OpenFds = {}

Blocked == pc = "read" /\ ~Readable(owner[sockfd])

\* The server blocks outside poll() in one case only: it reads a session it
\* accepted in this very round, whose revents nobody has set, while another
\* session was ready.
BlocksOnNewcomerOnly ==
  Blocked => /\ i = Len(clients)
             /\ clients[1].revents = "rdnorm" /\ nready > 1

InService(c) == IF pc = "write" /\ owner[sockfd] = c THEN buff ELSE <<>>

\* No client that waits for its answers can end the server by dying, at
\* whatever moment: the server only fails when it has no descriptor left, or
\* on an eager peer.  A reset is an event the loop never takes to read().
OnlyEagerPeersKill ==
  [][pc # "dead" /\ pc' = "dead" =>
       \/ pc = "accept" /\ OpenFds = Fds
       \/ pc = "write" /\ owner[sockfd] \in Eager]_vars

\* A client blocked in read() gets an answer or learns that the server is
\* gone, unless the server itself is blocked by a newcomer.
EveryReadReturns ==
  \A c \in Clients : cli[c] = "reading" ~> cli[c] # "reading" \/ Blocked

\* A client that closed in order is noticed and its descriptor freed, unless
\* the answer to its last line turns the end into a reset, which the loop
\* never handles.
OrderlyLeaveIsNoticed ==
  \A c \in Clients : c \in Sessions /\ peer[c] = "fin"
                       ~> c \notin Sessions \/ peer[c] # "fin" \/ Blocked

\* After a "stop" the server ends, whatever the other clients go on doing,
\* unless a newcomer of the same round blocks it.
StopEndsServer == ~isRunning ~> pc \in {"stopped", "dead"} \/ Blocked

\* The connections as the echo service sees them.
Echo == INSTANCE EchoService WITH
          place <- [c \in Clients |-> Place(c)],
          asked <- [c \in Clients |-> InService(c) \o inbox[c]],
          replies <- outbox,
          open <- Running

\* The server implements the echo service.
ImplementsEchoService == Echo!Spec
=============================================================================
