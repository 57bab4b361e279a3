---------------------------- MODULE SelectServer ----------------------------
(***************************************************************************)
(* socket/servers/multiplex_server/main.cpp: one thread, select(), and an  *)
(* echo.  The program keeps each session in three places: the vector       *)
(* clients, the set allset given to select(), and the bound maxfd on the   *)
(* numbers select() looks at.  The kernel's descriptor table is owner.     *)
(* The clients run between any two system calls of the server.             *)
(***************************************************************************)
EXTENDS TcpClients, SequencesExt

CONSTANTS
  ListenFd,   \* the descriptor of the listening socket, the lowest free one
  LastFd,     \* the highest descriptor the process may have (RLIMIT_NOFILE)
  NoClient    \* owner of a free descriptor

ASSUME FdAssumption ==
  /\ ListenFd \in Nat /\ LastFd \in Nat /\ ListenFd < LastFd
  /\ NoClient \notin Clients

VARIABLES
  pc,         \* where main() is
  owner,      \* the session behind each descriptor
  clients,    \* std::vector<int> clients
  allset,     \* fd_set allset
  readset,    \* fd_set readset
  maxfd,      \* int maxfd
  isRunning,  \* bool isRunning
  i,          \* the loop index over clients, from 1
  buff        \* what handleRequest() has read and not yet written back

srvVars == <<pc, owner, clients, allset, readset, maxfd, isRunning, i, buff>>
vars == <<cliVars, srvVars>>

SrvState == {"select", "accept", "scan", "write", "stop", "close", "stopped", "dead"}

Fds == ListenFd + 1 .. LastFd

TypeOK ==
  /\ CliTypeOK
  /\ pc \in SrvState
  /\ owner \in [Fds -> Clients \cup {NoClient}]
  /\ clients \in Seq(Fds)
  /\ allset \in SUBSET (Fds \cup {ListenFd})
  /\ readset \in SUBSET (Fds \cup {ListenFd})
  /\ maxfd \in Fds \cup {ListenFd}
  /\ isRunning \in BOOLEAN
  /\ i \in Nat \ {0}
  /\ buff \in Seq(Lines)

Init ==
  /\ CliInit
  /\ pc = "select"
  /\ owner = [f \in Fds |-> NoClient]
  /\ clients = <<>>
  /\ allset = {ListenFd}
  /\ readset = {}
  /\ maxfd = ListenFd
  /\ isRunning = TRUE
  /\ i = 1
  /\ buff = <<>>

OpenFds == {f \in Fds : owner[f] # NoClient}
Sessions == {owner[f] : f \in OpenFds}
Members(s) == {s[k] : k \in DOMAIN s}

IsMaxOf(m, S) == m \in S /\ \A f \in S : f <= m

-----------------------------------------------------------------------------

\* errorHandler(): exit(-1), and the kernel closes every descriptor.  A
\* SIGPIPE ends the process the same way.
Die ==
  /\ CloseAll(Sessions)
  /\ pc' = "dead"
  /\ owner' = [f \in Fds |-> NoClient]
  /\ UNCHANGED <<clients, allset, readset, maxfd, isRunning, i, buff>>

\* Mutant of FdReady: FD_ISSET looks at allset instead of readset.
FdReadyUnasked(f) == f # ListenFd \/ backlog # <<>>

FdReady(f) == IF f = ListenFd THEN backlog # <<>> ELSE Readable(owner[f])

\* select() blocks until a descriptor of allset, not above maxfd, is ready.
Select ==
  /\ pc = "select"
  /\ LET ready == {f \in allset : f <= maxfd /\ FdReady(f)}
     IN  ready # {} /\ readset' = ready
  /\ pc' = "accept"
  /\ UNCHANGED <<cliVars, owner, clients, allset, maxfd, isRunning, i, buff>>

LowestFree(f) == owner[f] = NoClient /\ \A g \in Fds : g < f => owner[g] # NoClient

\* accept() and the registration of the session, then updateMaxfd().
Accept ==
  /\ pc = "accept" /\ ListenFd \in readset
  /\ TakeConnection
  /\ \E f \in Fds :
       /\ LowestFree(f)
       /\ owner' = [owner EXCEPT ![f] = Head(backlog)]
       /\ clients' = Append(clients, f)
       /\ allset' = allset \cup {f}
  /\ \E m \in Members(clients') : IsMaxOf(m, Members(clients')) /\ maxfd' = m
  /\ pc' = "scan" /\ i' = 1
  /\ UNCHANGED <<readset, isRunning, buff>>

\* No descriptor is free: accept() fails.
AcceptFails ==
  /\ pc = "accept" /\ ListenFd \in readset
  /\ OpenFds = Fds
  /\ Die

NothingToAccept ==
  /\ pc = "accept" /\ ListenFd \notin readset
  /\ pc' = "scan" /\ i' = 1
  /\ UNCHANGED <<cliVars, owner, clients, allset, readset, maxfd, isRunning, buff>>

-----------------------------------------------------------------------------
(***************************************************************************)
(* The loop over clients and handleRequest().                              *)
(***************************************************************************)

connfd == clients[i]

InLoop == pc = "scan" /\ i <= Len(clients)

NotReady ==
  /\ InLoop /\ connfd \notin readset
  /\ i' = i + 1
  /\ UNCHANGED <<cliVars, pc, owner, clients, allset, readset, maxfd, isRunning, buff>>

\* Mutant of Erase: the last session goes, whichever was found.
EraseLast(fd) == clients' = SubSeq(clients, 1, Len(clients) - 1)

\* std::find() always finds fd: it was read from clients.
Erase(fd) ==
  \E k \in DOMAIN clients :
    /\ clients[k] = fd /\ \A j \in 1 .. k - 1 : clients[j] # fd
    /\ clients' = RemoveAt(clients, k)

\* Mutant of MaxfdAfterErase: no session, nothing to watch.
MaxfdReset ==
  IF clients' = <<>> THEN maxfd' = 0
  ELSE \E m \in Members(clients') : IsMaxOf(m, Members(clients')) /\ maxfd' = m

\* updateMaxfd() after an erase.  With no client left it reads through the
\* end iterator of the empty vector, where the erased element still lies.
MaxfdAfterErase ==
  IF clients' = <<>> THEN maxfd' = connfd
  ELSE \E m \in Members(clients') : IsMaxOf(m, Members(clients')) /\ maxfd' = m

\* read() returned 0.  The loop then steps over the element that moved into
\* the erased place.
ReadEof ==
  /\ InLoop /\ connfd \in readset
  /\ AtEof(owner[connfd])
  /\ CloseEnds({owner[connfd]})
  /\ Erase(connfd)
  /\ owner' = [owner EXCEPT ![connfd] = NoClient]
  /\ allset' = allset \ {connfd}
  /\ MaxfdAfterErase
  /\ i' = i + 1
  /\ UNCHANGED <<pc, readset, isRunning, buff>>

ReadError ==
  /\ InLoop /\ connfd \in readset
  /\ AtReset(owner[connfd])
  /\ Die

\* The answer to StopLine is to leave the outer loop once this round ends.
ReadStop ==
  /\ InLoop /\ connfd \in readset
  /\ inbox[owner[connfd]] = <<StopLine>>
  /\ TakeData(owner[connfd])
  /\ isRunning' = FALSE
  /\ i' = i + 1
  /\ UNCHANGED <<pc, owner, clients, allset, readset, maxfd, buff>>

\* Mutant of ReadLine: the data is looked at and stays.
ReadLinePeek ==
  /\ InLoop /\ connfd \in readset
  /\ inbox[owner[connfd]] \notin {<<>>, <<StopLine>>}
  /\ buff' = inbox[owner[connfd]]
  /\ pc' = "write"
  /\ UNCHANGED <<cliVars, owner, clients, allset, readset, maxfd, isRunning, i>>

ReadLine ==
  /\ InLoop /\ connfd \in readset
  /\ inbox[owner[connfd]] # <<StopLine>>
  /\ TakeData(owner[connfd])
  /\ buff' = inbox[owner[connfd]]
  /\ pc' = "write"
  /\ UNCHANGED <<owner, clients, allset, readset, maxfd, isRunning, i>>

\* Mutant of Write: the answer goes to the first session.
WriteToFirst ==
  /\ pc = "write"
  /\ PutData(owner[clients[1]], buff)
  /\ pc' = "scan" /\ i' = i + 1
  /\ buff' = <<>>
  /\ UNCHANGED <<owner, clients, allset, readset, maxfd, isRunning>>

Write ==
  /\ pc = "write"
  /\ PutData(owner[connfd], buff)
  /\ pc' = "scan" /\ i' = i + 1
  /\ buff' = <<>>
  /\ UNCHANGED <<owner, clients, allset, readset, maxfd, isRunning>>

WriteError ==
  /\ pc = "write" /\ ~CanWrite(owner[connfd])
  /\ Die

\* Mutant of EndOfRound: isRunning is not looked at.
EndOfRoundOn ==
  /\ pc = "scan" /\ i > Len(clients)
  /\ pc' = "select"
  /\ UNCHANGED <<cliVars, owner, clients, allset, readset, maxfd, isRunning, i, buff>>

EndOfRound ==
  /\ pc = "scan" /\ i > Len(clients)
  /\ pc' = IF isRunning THEN "select" ELSE "stop"
  /\ UNCHANGED <<cliVars, owner, clients, allset, readset, maxfd, isRunning, i, buff>>

\* CloseConnections() closes what is in clients.
CloseConnections ==
  /\ pc = "stop"
  /\ CloseEnds({owner[f] : f \in Members(clients)} \ {NoClient})
  /\ owner' = [f \in Fds |-> IF f \in Members(clients) THEN NoClient ELSE owner[f]]
  /\ clients' = <<>>
  /\ pc' = "close"
  /\ UNCHANGED <<allset, readset, maxfd, isRunning, i, buff>>

\* close(listenfd) and the end of main(), where the kernel closes the rest.
CloseListener ==
  /\ pc = "close"
  /\ CloseAll(Sessions)
  /\ pc' = "stopped"
  /\ owner' = [f \in Fds |-> NoClient]
  /\ UNCHANGED <<clients, allset, readset, maxfd, isRunning, i, buff>>

ServerStep ==
  \/ Select
  \/ Accept
  \/ AcceptFails
  \/ NothingToAccept
  \/ NotReady
  \/ ReadEof
  \/ ReadError
  \/ ReadStop
  \/ ReadLine
  \/ Write
  \/ WriteError
  \/ EndOfRound
  \/ CloseConnections
  \/ CloseListener

EnvStep == UNCHANGED srvVars /\ \E c \in Clients : ClientStep(c)

Next == ServerStep \/ EnvStep

Spec == Init /\ [][Next]_vars

\* The server process is scheduled.  While select() blocks, no step is
\* enabled.
FairSpec == Spec /\ WF_vars(ServerStep) /\ ClientFairness
-----------------------------------------------------------------------------
(***************************************************************************)
(* Properties.                                                             *)
(***************************************************************************)

Running == pc \notin {"close", "stopped", "dead"}

\* The three tables of sessions agree between any two system calls: the
\* vector clients names every open session once, and allset holds the same
\* descriptors and the listening one.  No session has two descriptors.
SessionTablesAgree ==
  Running =>
    /\ Members(clients) = OpenFds
    /\ \A j, k \in DOMAIN clients : clients[j] = clients[k] => j = k
    /\ allset = OpenFds \cup {ListenFd}
    /\ \A f, g \in OpenFds : owner[f] = owner[g] => f = g

\* select() is asked about every open descriptor: none lies above maxfd, not
\* even after the last session was erased and updateMaxfd() read past the
\* end of an empty vector.
SelectCoversEverySession ==
  pc = "select" => \A f \in OpenFds \cup {ListenFd} : f \in allset /\ f <= maxfd

\* The server blocks in select() only: an accept() or a read() it is about to
\* make has something to return, however long ago select() said so and
\* whatever the clients did since.
NeverBlocksOutsideSelect ==
  /\ pc = "accept" /\ ListenFd \in readset => backlog # <<>>
  /\ InLoop /\ connfd \in readset => owner[connfd] # NoClient /\ Readable(owner[connfd])

InService(c) == IF pc = "write" /\ owner[connfd] = c THEN buff ELSE <<>>

\* The write() of an answer never fails, so neither its errorHandler() nor a
\* SIGPIPE ends the server, as long as the client waits for each answer:
\* such a client may die at any moment, but not twice.
AnswerNeverFails ==
  pc = "write" /\ owner[connfd] \notin Eager => CanWrite(owner[connfd])

\* A client blocked in read() gets an answer or learns that the server is
\* gone, although the loop skips a session whenever it erases one, and also
\* if it connected while CloseConnections() was closing the sessions.
EveryReadReturns == \A c \in Clients : cli[c] = "reading" ~> cli[c] # "reading"

\* After a "stop" the server ends, whatever the other clients go on doing.
StopEndsServer == ~isRunning ~> pc \in {"stopped", "dead"}

\* The connections as the echo service sees them.
Echo == INSTANCE EchoService WITH
          place <- [c \in Clients |-> Place(c)],
          asked <- [c \in Clients |-> InService(c) \o inbox[c]],
          replies <- outbox,
          open <- Running

\* The server implements the echo service.
ImplementsEchoService == Echo!Spec

\* A client that prints "data from multiplex_server" has been sent data: as
\* the message of tcp_client says, after a read() that returned 0 bytes as
\* well.
PrintsOnlyServerData ==
  [][\A c \in Clients : cli[c] = "reading" /\ cli'[c] \in {"input", "closing"}
                           => outbox[c] # <<>>]_cliVars
=============================================================================
