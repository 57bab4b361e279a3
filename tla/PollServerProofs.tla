-------------------------- MODULE PollServerProofs --------------------------
(***************************************************************************)
(* Proofs about PollServer, for every number of clients, descriptors and   *)
(* lines, eager peers included.                                            *)
(***************************************************************************)
EXTENDS PollServer, TcpClientsProofs, FiniteSetTheorems

(***************************************************************************)
(* The inductive invariant.                                                *)
(***************************************************************************)

\* The listening socket is never erased, and the loop starts after it.
ListenerFirst == i >= 2 /\ (Running => clients # <<>>)

InBody == pc \in {"read", "write"}

\* A session accepted in this round is the last of the vector, and nobody has
\* set its revents.
Newcomer(k) == clients[1].revents = "rdnorm" /\ k = Len(clients)

EntryHolds(k) ==
  IF Newcomer(k) THEN Unanswered(owner[clients[k].fd])
  ELSE clients[k].revents = "rdnorm" => Answerable(owner[clients[k].fd])

StillReady(first) == \A k \in first .. Len(clients) : EntryHolds(k)

\* What poll() reported stays true until the loop has been there.  The loop
\* runs after an accept() only if something else was ready.
ReportHolds ==
  /\ pc = "accept" => \A k \in 2 .. Len(clients) :
                        clients[k].revents = "rdnorm" => Answerable(owner[clients[k].fd])
  /\ pc = "scan" => StillReady(i)
  /\ pc = "read" => StillReady(i) /\ clients[i].revents = "rdnorm"
  /\ pc = "write" => StillReady(i + 1)
  /\ InBody => i <= Len(clients)
  /\ (pc = "scan" \/ InBody) /\ clients[1].revents = "rdnorm" => nready > 1

\* An answer has text, and StopLine is not answered.
InHand == pc = "write" => buff \notin {<<>>, <<StopLine>>}

\* A client that waits for each answer has one line under way at most.
OneAtATime == \A c \in Clients \ Eager : Waiting(c, InService(c))

IInv ==
  /\ TypeOK
  /\ PollsEverySession
  /\ ListenerFirst
  /\ Connected(Sessions)
  /\ ReportHolds
  /\ InHand
  /\ OneAtATime

-----------------------------------------------------------------------------
(***************************************************************************)
(* What the steps do to the vector and to the kernel's table.              *)
(***************************************************************************)

Polled == {clients[k].fd : k \in 2 .. Len(clients)}

\* The vector and the table while the server runs.
LEMMA RunningTables ==
  ASSUME TypeOK, PollsEverySession, ListenerFirst, Running
  PROVE  /\ DOMAIN clients = 1 .. Len(clients) /\ Len(clients) \in Nat \ {0}
         /\ clients[1].fd = ListenFd /\ Polled = OpenFds
         /\ \A k \in 2 .. Len(clients) : /\ clients[k].fd \in OpenFds
                                         /\ owner[clients[k].fd] \in Clients
                                         /\ owner[clients[k].fd] \in Sessions
         /\ \A j, k \in 2 .. Len(clients) :
              owner[clients[j].fd] = owner[clients[k].fd] => j = k
         /\ \A j, k \in DOMAIN clients : clients[j].fd = clients[k].fd => j = k
         /\ \A f, g \in OpenFds : owner[f] = owner[g] => f = g
<1>1. DOMAIN clients = 1 .. Len(clients) /\ Len(clients) \in Nat \ {0}
  BY DEF TypeOK, ListenerFirst
<1>2. /\ clients[1].fd = ListenFd /\ Polled = OpenFds
      /\ \A j, k \in DOMAIN clients : clients[j].fd = clients[k].fd => j = k
      /\ \A f, g \in OpenFds : owner[f] = owner[g] => f = g
  BY DEF PollsEverySession, Polled
<1>3. ASSUME NEW k \in 2 .. Len(clients)
      PROVE  /\ clients[k].fd \in OpenFds
             /\ owner[clients[k].fd] \in Clients
             /\ owner[clients[k].fd] \in Sessions
  <2>1. clients[k].fd \in OpenFds
    BY <1>2 DEF Polled
  <2> QED
    BY <2>1 DEF OpenFds, Sessions, TypeOK
<1>4. ASSUME NEW j \in 2 .. Len(clients), NEW k \in 2 .. Len(clients),
             owner[clients[j].fd] = owner[clients[k].fd]
      PROVE  j = k
  <2>1. clients[j].fd = clients[k].fd
    BY <1>2, <1>3, <1>4
  <2>2. j \in DOMAIN clients /\ k \in DOMAIN clients
    BY <1>1
  <2> QED
    BY <1>2, <2>1, <2>2
<1> QED
  BY <1>1, <1>2, <1>3, <1>4

\* The loop is at a session, and never at the listening socket.
LEMMA LoopFd ==
  ASSUME TypeOK, PollsEverySession, ListenerFirst, ReportHolds, InLoop \/ InBody
  PROVE  /\ i \in 2 .. Len(clients)
         /\ sockfd \in OpenFds
         /\ owner[sockfd] \in Clients \cap Sessions
         /\ Running
<1>1. Running
  BY DEF Running, InLoop, InBody
<1>2. i \in 2 .. Len(clients)
  BY DEF TypeOK, ListenerFirst, ReportHolds, InLoop
<1> QED
  BY <1>1, <1>2, RunningTables DEF sockfd

\* Every step but these leaves the vector and the table alone.
LEMMA QuietStep ==
  ASSUME \/ NothingToAccept \/ NotReady \/ Handle \/ ReadStop \/ ReadLine
         \/ Write \/ EndOfRound
  PROVE  /\ UNCHANGED <<owner, clients, nready, cli, backlog>>
         /\ Running /\ Running'
BY DEF NothingToAccept, NotReady, Handle, ReadStop, ReadLine, Write, EndOfRound, InLoop,
       Running, cliVars, TakeData, PutData

LEMMA DieEffect ==
  ASSUME Die
  PROVE  /\ CloseAll(Sessions) /\ ~Running' /\ pc' = "dead"
         /\ OpenFds' = {} /\ Sessions' = {}
BY DEF Die, Running, OpenFds, Sessions

\* poll() writes the revents of every entry and nothing else.
LEMMA PollEffect ==
  ASSUME TypeOK, PollClients
  PROVE  /\ clients' \in Seq(Pollfd) /\ Len(clients') = Len(clients)
         /\ \A k \in 1 .. Len(clients) : /\ clients'[k].fd = clients[k].fd
                                         /\ clients'[k].revents = Poll(clients[k].fd)
         /\ nready' \in Nat
<1>1. clients \in Seq(Pollfd) /\ DOMAIN clients = 1 .. Len(clients) /\ Len(clients) \in Nat
  BY DEF TypeOK
<1> DEFINE polled == [k \in DOMAIN clients |->
                        [fd |-> clients[k].fd, revents |-> Poll(clients[k].fd)]]
           ready == {k \in DOMAIN clients : polled[k].revents # "none"}
<1>2. clients' = polled /\ nready' = Cardinality(ready)
  BY DEF PollClients
<1>3. \A f : Poll(f) \in Revents
  BY DEF Poll, Revents
<1>4. \A k \in 1 .. Len(clients) : polled[k] \in Pollfd
  BY <1>1, <1>3, ElementOfSeq DEF Pollfd
<1>5. polled \in [1 .. Len(clients) -> Pollfd]
  BY <1>1, <1>4
<1>6. polled \in Seq(Pollfd) /\ Len(polled) = Len(clients)
  <2> HIDE DEF polled
  <2> QED
    BY <1>1, <1>5
<1>7. Cardinality(ready) \in Nat
  <2>1. IsFiniteSet(1 .. Len(clients))
    BY <1>1, FS_Interval
  <2>2. ready \in SUBSET (1 .. Len(clients))
    BY <1>1
  <2> HIDE DEF ready
  <2>3. IsFiniteSet(ready)
    BY <2>1, <2>2, FS_Subset
  <2> QED
    BY <2>3, FS_CardinalityType
<1> QED
  BY <1>1, <1>2, <1>6, <1>7

\* Accept opens one descriptor that was free, for the oldest connection, and
\* puts it at the end of the vector.
LEMMA AcceptEffect ==
  ASSUME TypeOK, PollsEverySession, ListenerFirst, Accept
  PROVE  \E f \in Fds :
           /\ f \notin OpenFds /\ f # ListenFd
           /\ Head(backlog) \in Clients
           /\ owner' = [owner EXCEPT ![f] = Head(backlog)]
           /\ OpenFds' = OpenFds \cup {f}
           /\ \A g \in OpenFds : owner'[g] = owner[g]
           /\ owner'[f] = Head(backlog)
           /\ Sessions' = Sessions \cup {Head(backlog)}
           /\ clients' \in Seq(Pollfd) /\ Len(clients') = Len(clients) + 1
           /\ \A k \in 1 .. Len(clients) : clients'[k] = clients[k]
           /\ clients'[Len(clients) + 1].fd = f
<1>1. PICK f \in Fds, garbage \in Revents :
        /\ LowestFree(f)
        /\ owner' = [owner EXCEPT ![f] = Head(backlog)]
        /\ clients' = Append(clients, [fd |-> f, revents |-> garbage])
  BY DEF Accept
<1>2. Head(backlog) \in Clients
  BY HeadTailProperties DEF Accept, TakeConnection, TypeOK, CliTypeOK
<1>3. owner[f] = NoClient /\ f \notin OpenFds
  BY <1>1 DEF LowestFree, OpenFds
<1>4. OpenFds' = OpenFds \cup {f}
  BY <1>1, <1>2, <1>3, FdAssumption DEF OpenFds, TypeOK
<1>5. \A g \in OpenFds : owner'[g] = owner[g]
  BY <1>1, <1>3 DEF OpenFds, TypeOK
<1>6. owner'[f] = Head(backlog)
  BY <1>1 DEF TypeOK
<1>7. Sessions' = Sessions \cup {Head(backlog)}
  BY <1>4, <1>5, <1>6 DEF Sessions
<1>8. f # ListenFd
  BY FdAssumption DEF Fds
<1>9. /\ clients' \in Seq(Pollfd) /\ Len(clients') = Len(clients) + 1
      /\ \A k \in 1 .. Len(clients) : clients'[k] = clients[k]
      /\ clients'[Len(clients) + 1] = [fd |-> f, revents |-> garbage]
  <2>1. clients \in Seq(Pollfd) /\ [fd |-> f, revents |-> garbage] \in Pollfd
    BY DEF TypeOK, Pollfd
  <2> QED
    BY <1>1, <2>1, AppendProperties
<1>10. clients'[Len(clients) + 1].fd = f
  BY <1>9
<1>11. clients' \in Seq(Pollfd) /\ Len(clients') = Len(clients) + 1
  BY <1>9
<1>12. \A k \in 1 .. Len(clients) : clients'[k] = clients[k]
  BY <1>9
<1>13. owner' = [owner EXCEPT ![f] = Head(backlog)]
  BY <1>1
<1> QED
  BY ONLY <1>2, <1>3, <1>4, <1>5, <1>6, <1>7, <1>8, <1>10, <1>11, <1>12, <1>13

\* ReadEof closes the descriptor the loop is at and erases its entry, which
\* is the only one with that descriptor.
LEMMA ReadEofEffect ==
  ASSUME TypeOK, PollsEverySession, ListenerFirst, ReportHolds, ReadEof
  PROVE  /\ OpenFds' = OpenFds \ {sockfd}
         /\ \A f \in OpenFds' : owner'[f] = owner[f]
         /\ Sessions' = Sessions \ {owner[sockfd]}
         /\ clients' \in Seq(Pollfd) /\ Len(clients') = Len(clients) - 1
         /\ \A k \in 1 .. i - 1 : clients'[k] = clients[k]
         /\ \A k \in i .. Len(clients) - 1 : clients'[k] = clients[k + 1]
<1>1. /\ i \in 2 .. Len(clients) /\ sockfd \in OpenFds /\ Running
  BY LoopFd DEF ReadEof, InBody
<1>2. /\ DOMAIN clients = 1 .. Len(clients) /\ Len(clients) \in Nat
      /\ \A j, k \in DOMAIN clients : clients[j].fd = clients[k].fd => j = k
      /\ \A f, g \in OpenFds : owner[f] = owner[g] => f = g
  BY <1>1, RunningTables
<1>3. clients' = RemoveAt(clients, i)
  <2>1. PICK k \in DOMAIN clients : clients[k].fd = sockfd /\ clients' = RemoveAt(clients, k)
    BY DEF ReadEof, Erase
  <2>2. i \in DOMAIN clients
    BY <1>1, <1>2
  <2>3. k = i
    BY <1>2, <2>1, <2>2 DEF sockfd
  <2> QED
    BY <2>1, <2>3
<1>4. /\ clients' \in Seq(Pollfd) /\ Len(clients') = Len(clients) - 1
      /\ \A k \in 1 .. i - 1 : clients'[k] = clients[k]
      /\ \A k \in i .. Len(clients) - 1 : clients'[k] = clients[k + 1]
  <2>1. clients \in Seq(Pollfd) /\ i \in 1 .. Len(clients)
    BY <1>1 DEF TypeOK
  <2>2. /\ RemoveAt(clients, i) \in Seq(Pollfd)
        /\ Len(RemoveAt(clients, i)) = Len(clients) - 1
        /\ \A k \in 1 .. i - 1 : RemoveAt(clients, i)[k] = clients[k]
        /\ \A k \in i .. Len(clients) - 1 : RemoveAt(clients, i)[k] = clients[k + 1]
    BY <2>1, RemoveAtProperties
  <2> QED
    BY <1>3, <2>2
<1>5. OpenFds' = OpenFds \ {sockfd}
  BY <1>1 DEF ReadEof, OpenFds, TypeOK
<1>6. \A f \in OpenFds' : owner'[f] = owner[f]
  BY <1>1, <1>5 DEF ReadEof, OpenFds, TypeOK
<1>7. Sessions' = Sessions \ {owner[sockfd]}
  BY <1>1, <1>2, <1>5, <1>6 DEF Sessions
<1> QED
  BY <1>4, <1>5, <1>6, <1>7

\* CloseOpeningFileDescriptors() leaves nothing open.
LEMMA StopEffect ==
  ASSUME TypeOK, PollsEverySession, ListenerFirst, Stop
  PROVE  CloseAll(Sessions) /\ OpenFds' = {} /\ Sessions' = {}
<1>1. Running /\ Polled = OpenFds
  BY DEF Stop, Running, PollsEverySession, Polled
<1>2. {owner[clients[k].fd] : k \in 2 .. Len(clients)} = Sessions
  BY <1>1 DEF Polled, Sessions
<1>3. ASSUME NEW f \in OpenFds PROVE owner'[f] = NoClient
  <2>1. PICK k \in 2 .. Len(clients) : clients[k].fd = f
    BY <1>1 DEF Polled
  <2>2. k \in DOMAIN clients
    BY DEF TypeOK
  <2> QED
    BY <2>1, <2>2 DEF Stop, OpenFds
<1>4. OpenFds' = {}
  BY <1>3 DEF Stop, OpenFds
<1> QED
  BY <1>2, <1>4 DEF Stop, Sessions

-----------------------------------------------------------------------------
(***************************************************************************)
(* Typing.                                                                 *)
(***************************************************************************)

LEMMA NextTyped ==
  ASSUME TypeOK, PollsEverySession, ListenerFirst, ReportHolds, [Next]_vars
  PROVE  TypeOK'
<1> USE FdAssumption DEF SrvState, Fds
<1>1. CASE UNCHANGED vars
  BY <1>1 DEF vars, cliVars, srvVars, TypeOK, CliTypeOK
<1>2. CASE EnvStep
  <2>1. CliTypeOK'
    BY <1>2, ClientStepTyped DEF EnvStep, TypeOK
  <2> QED
    BY <1>2, <2>1 DEF EnvStep, srvVars, TypeOK
<1>3. ASSUME Die PROVE TypeOK'
  <2>1. CliTypeOK'
    BY <1>3, CallsTyped DEF Die, TypeOK
  <2>2. owner' \in [Fds -> Clients \cup {NoClient}]
    BY <1>3 DEF Die
  <2> QED
    BY <1>3, <2>1, <2>2 DEF Die, TypeOK
<1>4. ASSUME UNCHANGED cliVars PROVE CliTypeOK'
  BY <1>4 DEF cliVars, TypeOK, CliTypeOK
<1>5. CASE PollClients
  <2>1. clients' \in Seq(Pollfd) /\ nready' \in Nat
    BY <1>5, PollEffect
  <2> QED
    BY <1>4, <1>5, <2>1 DEF PollClients, TypeOK
<1>6. CASE Accept
  <2>1. CliTypeOK'
    BY <1>6, CallsTyped DEF Accept, TypeOK
  <2>2. /\ clients' \in Seq(Pollfd)
        /\ owner' \in [Fds -> Clients \cup {NoClient}]
    BY <1>6, AcceptEffect DEF TypeOK
  <2> QED
    BY <1>6, <2>1, <2>2 DEF Accept, TypeOK
<1>7. CASE AcceptFails \/ RequestFails
  BY <1>3, <1>7 DEF AcceptFails, RequestFails
<1>8. CASE NothingToAccept
  BY <1>4, <1>8 DEF NothingToAccept, TypeOK
<1>9. CASE NotReady
  BY <1>4, <1>9 DEF NotReady, TypeOK
<1>10. CASE Handle
  BY <1>4, <1>10 DEF Handle, TypeOK
<1>11. CASE ReadEof
  <2>1. CliTypeOK'
    BY <1>11, CallsTyped DEF ReadEof, TypeOK
  <2>2. clients' \in Seq(Pollfd)
    BY <1>11, ReadEofEffect
  <2>3. owner' \in [Fds -> Clients \cup {NoClient}]
    BY <1>11 DEF ReadEof, TypeOK
  <2> QED
    BY <1>11, <2>1, <2>2, <2>3 DEF ReadEof, TypeOK
<1>12. CASE ReadStop
  <2>1. CliTypeOK'
    BY <1>12, CallsTyped DEF ReadStop, TypeOK
  <2>2. isRunning' \in BOOLEAN
    BY <1>12, Zenon DEF ReadStop
  <2> QED
    BY <1>12, <2>1, <2>2 DEF ReadStop, TypeOK
<1>13. CASE ReadLine
  <2>1. CliTypeOK'
    BY <1>13, CallsTyped DEF ReadLine, TypeOK
  <2>2. owner[sockfd] \in Clients
    BY <1>13, LoopFd DEF ReadLine, InBody
  <2>3. buff' \in Seq(Lines)
    BY <1>13, <2>2 DEF ReadLine, TypeOK, CliTypeOK
  <2> QED
    BY <1>13, <2>1, <2>3 DEF ReadLine, TypeOK
<1>14. CASE Write
  <2>1. CliTypeOK'
    BY <1>14, CallsTyped DEF Write, TypeOK
  <2>2. buff' \in Seq(Lines)
    BY <1>14, EmptySeq DEF Write
  <2> QED
    BY <1>14, <2>1, <2>2 DEF Write, TypeOK
<1>15. CASE EndOfRound
  BY <1>4, <1>15 DEF EndOfRound, TypeOK
<1>16. CASE Stop
  <2>1. CliTypeOK'
    BY <1>16, CallsTyped DEF Stop, TypeOK
  <2>2. owner' \in [Fds -> Clients \cup {NoClient}] /\ clients' \in Seq(Pollfd)
    BY <1>16, EmptySeq DEF Stop, TypeOK
  <2> QED
    BY <1>16, <2>1, <2>2 DEF Stop, TypeOK
<1>17. CASE Exit
  <2>1. CliTypeOK'
    BY <1>17, CallsTyped DEF Exit, TypeOK
  <2>2. owner' \in [Fds -> Clients \cup {NoClient}]
    BY <1>17 DEF Exit
  <2> QED
    BY <1>17, <2>1, <2>2 DEF Exit, TypeOK
<1> QED
  BY <1>1, <1>2, <1>5, <1>6, <1>7, <1>8, <1>9, <1>10, <1>11, <1>12, <1>13, <1>14,
     <1>15, <1>16, <1>17 DEF Next, ServerStep

-----------------------------------------------------------------------------
(***************************************************************************)
(* The table of sessions.                                                  *)
(***************************************************************************)

LEMMA NextTables ==
  ASSUME TypeOK, PollsEverySession, ListenerFirst, Connected(Sessions), ReportHolds,
         [Next]_vars
  PROVE  PollsEverySession'
<1>1. ASSUME UNCHANGED <<owner, clients>>, Running' => Running, pc' = "closed" => pc = "closed"
      PROVE  PollsEverySession'
  BY <1>1 DEF PollsEverySession, OpenFds
<1>2. CASE EnvStep \/ UNCHANGED vars
  BY <1>1, <1>2 DEF EnvStep, vars, srvVars, Running
<1>3. CASE \/ NothingToAccept \/ NotReady \/ Handle \/ ReadStop \/ ReadLine
           \/ Write \/ EndOfRound
  BY <1>1, <1>3, QuietStep DEF Running
<1>4. CASE AcceptFails \/ RequestFails \/ Exit
  BY <1>4, DieEffect DEF AcceptFails, RequestFails, Exit, Running, PollsEverySession
<1>5. CASE Stop
  BY <1>5, StopEffect DEF Stop, Running, PollsEverySession
<1>6. ASSUME Running', pc' # "closed", clients' \in Seq(Pollfd), Len(clients') \in Nat \ {0},
             clients'[1].fd = ListenFd, Polled' = OpenFds',
             \A j, k \in 1 .. Len(clients') : clients'[j].fd = clients'[k].fd => j = k,
             \A f, g \in OpenFds' : owner'[f] = owner'[g] => f = g
      PROVE  PollsEverySession'
  <2>1. DOMAIN clients' = 1 .. Len(clients')
    BY <1>6
  <2> QED
    BY <1>6, <2>1 DEF PollsEverySession, Polled
<1>7. ASSUME Running
      PROVE  /\ DOMAIN clients = 1 .. Len(clients) /\ Len(clients) \in Nat \ {0}
             /\ clients[1].fd = ListenFd /\ Polled = OpenFds
             /\ \A j, k \in DOMAIN clients : clients[j].fd = clients[k].fd => j = k
             /\ \A f, g \in OpenFds : owner[f] = owner[g] => f = g
  BY <1>7, RunningTables
<1>8. CASE PollClients
  <2>1. /\ clients' \in Seq(Pollfd) /\ Len(clients') = Len(clients)
        /\ \A k \in 1 .. Len(clients) : clients'[k].fd = clients[k].fd
    BY <1>8, PollEffect
  <2>2. Running /\ Running' /\ pc' # "closed" /\ UNCHANGED owner
    BY <1>8 DEF PollClients, Running
  <2>3. Polled' = OpenFds'
    BY <1>7, <2>1, <2>2 DEF Polled, OpenFds
  <2>4. clients'[1].fd = ListenFd
    BY <1>7, <2>1, <2>2
  <2>5. \A j, k \in 1 .. Len(clients') : clients'[j].fd = clients'[k].fd => j = k
    BY <1>7, <2>1, <2>2
  <2>6. \A f, g \in OpenFds' : owner'[f] = owner'[g] => f = g
    BY <1>7, <2>2 DEF OpenFds
  <2> QED
    BY <1>6, <1>7, <2>1, <2>2, <2>3, <2>4, <2>5, <2>6
<1>9. CASE Accept
  <2>1. PICK f \in Fds :
          /\ f \notin OpenFds /\ f # ListenFd
          /\ OpenFds' = OpenFds \cup {f}
          /\ \A g \in OpenFds : owner'[g] = owner[g]
          /\ owner'[f] = Head(backlog)
          /\ clients' \in Seq(Pollfd) /\ Len(clients') = Len(clients) + 1
          /\ \A k \in 1 .. Len(clients) : clients'[k] = clients[k]
          /\ clients'[Len(clients) + 1].fd = f
    BY <1>9, AcceptEffect
  <2>2. Running /\ Running' /\ pc' # "closed"
    BY <1>9 DEF Accept, Running
  <2>3. Polled' = OpenFds'
    <3>1. ASSUME NEW g \in OpenFds' PROVE g \in Polled'
      <4>1. CASE g = f
        BY <1>7, <2>1, <2>2, <4>1 DEF Polled
      <4>2. CASE g # f
        <5>1. PICK k \in 2 .. Len(clients) : clients[k].fd = g
          BY <1>7, <2>1, <2>2, <4>2 DEF Polled
        <5>2. k \in 2 .. Len(clients') /\ clients'[k].fd = g
          BY <1>7, <2>1, <2>2, <5>1
        <5> QED
          BY <5>2 DEF Polled
      <4> QED
        BY <4>1, <4>2
    <3>2. ASSUME NEW k \in 2 .. Len(clients') PROVE clients'[k].fd \in OpenFds'
      <4>1. CASE k = Len(clients) + 1
        BY <2>1, <4>1
      <4>2. CASE k # Len(clients) + 1
        <5>1. k \in 2 .. Len(clients) /\ clients'[k] = clients[k]
          BY <1>7, <2>1, <2>2, <4>2
        <5> QED
          BY <1>7, <2>1, <2>2, <5>1 DEF Polled
      <4> QED
        BY <4>1, <4>2
    <3> QED
      BY <3>1, <3>2 DEF Polled
  <2>4. \A j, k \in 1 .. Len(clients') : clients'[j].fd = clients'[k].fd => j = k
    <3>1. \A k \in 1 .. Len(clients) : clients[k].fd # f
      BY <1>7, <2>1, <2>2 DEF Polled
    <3> QED
      BY <1>7, <2>1, <2>2, <3>1
  <2>5. \A g, h \in OpenFds' : owner'[g] = owner'[h] => g = h
    <3>1. Head(backlog) \in Clients /\ InBacklog(Head(backlog))
      BY <1>9, QueueShrinks DEF Accept, TakeConnection, TypeOK, Connected
    <3>2. Head(backlog) \notin Sessions
      BY <3>1 DEF Connected, Connection, QueuedConnection
    <3>3. \A g \in OpenFds : owner[g] # Head(backlog)
      BY <3>2 DEF Sessions
    <3> QED
      BY <1>7, <2>1, <2>2, <3>3
  <2>6. clients'[1].fd = ListenFd /\ Len(clients') \in Nat \ {0}
    BY <1>7, <2>1, <2>2
  <2> QED
    BY <1>6, <2>1, <2>2, <2>3, <2>4, <2>5, <2>6
<1>10. CASE ReadEof
  <2>1. i \in 2 .. Len(clients) /\ sockfd \in OpenFds /\ Running
    BY <1>10, LoopFd DEF ReadEof, InBody
  <2>2. /\ OpenFds' = OpenFds \ {sockfd}
        /\ \A f \in OpenFds' : owner'[f] = owner[f]
        /\ clients' \in Seq(Pollfd) /\ Len(clients') = Len(clients) - 1
        /\ \A k \in 1 .. i - 1 : clients'[k] = clients[k]
        /\ \A k \in i .. Len(clients) - 1 : clients'[k] = clients[k + 1]
    BY <1>10, ReadEofEffect
  <2> DEFINE old(k) == IF k < i THEN k ELSE k + 1
  <2>3. ASSUME NEW k \in 1 .. Len(clients')
        PROVE  /\ old(k) \in 1 .. Len(clients) /\ clients'[k] = clients[old(k)]
               /\ old(k) # i /\ (k >= 2 => old(k) \in 2 .. Len(clients))
    BY <1>7, <2>1, <2>2
  <2>4. \A j, k \in 1 .. Len(clients') : old(j) = old(k) => j = k
    BY <1>7, <2>1, <2>2
  <2>5. ASSUME NEW k \in 2 .. Len(clients), k # i
        PROVE  \E j \in 2 .. Len(clients') : old(j) = k
    <3>1. CASE k < i
      <4>1. k \in 2 .. Len(clients') /\ old(k) = k
        BY <1>7, <2>1, <2>2, <3>1
      <4> QED
        BY <4>1
    <3>2. CASE k > i
      <4>1. k - 1 \in 2 .. Len(clients') /\ old(k - 1) = k
        BY <1>7, <2>1, <2>2, <3>2
      <4> QED
        BY <4>1
    <3> QED
      BY <2>1, <2>5, <3>1, <3>2
  <2> HIDE DEF old
  <2>6. \A j, k \in 1 .. Len(clients') : clients'[j].fd = clients'[k].fd => j = k
    <3>1. ASSUME NEW j \in 1 .. Len(clients'), NEW k \in 1 .. Len(clients'),
                 clients'[j].fd = clients'[k].fd
          PROVE  j = k
      <4>1. /\ clients[old(j)].fd = clients[old(k)].fd
            /\ old(j) \in DOMAIN clients /\ old(k) \in DOMAIN clients
        BY <1>7, <2>1, <2>3, <3>1
      <4>2. old(j) = old(k)
        BY <1>7, <2>1, <4>1
      <4> QED
        BY <2>4, <4>2
    <3> QED
      BY <3>1
  <2>7. Polled' = OpenFds'
    <3>1. ASSUME NEW k \in 2 .. Len(clients') PROVE clients'[k].fd \in OpenFds'
      <4>1. k \in 1 .. Len(clients') /\ k >= 2
        OBVIOUS
      <4>2. old(k) \in 2 .. Len(clients) /\ old(k) # i /\ clients'[k] = clients[old(k)]
        BY <2>3, <4>1
      <4>3. old(k) \in DOMAIN clients /\ i \in DOMAIN clients
        BY <1>7, <2>1, <4>2
      <4>4. clients[old(k)].fd \in OpenFds /\ clients[old(k)].fd # sockfd
        BY <1>7, <2>1, <4>2, <4>3 DEF Polled, sockfd
      <4> QED
        BY <2>2, <4>2, <4>4
    <3>2. ASSUME NEW f \in OpenFds' PROVE f \in Polled'
      <4>1. PICK k \in 2 .. Len(clients) : clients[k].fd = f
        BY <1>7, <2>1, <2>2 DEF Polled
      <4>2. k # i
        BY <2>2, <4>1 DEF sockfd
      <4>3. PICK j \in 2 .. Len(clients') : old(j) = k
        BY <2>5, <4>1, <4>2
      <4>4. clients'[j] = clients[k]
        <5>1. j \in 1 .. Len(clients')
          OBVIOUS
        <5> QED
          BY <2>3, <4>3, <5>1
      <4> QED
        BY <4>1, <4>3, <4>4 DEF Polled
    <3> QED
      BY <3>1, <3>2 DEF Polled
  <2>8. \A f, g \in OpenFds' : owner'[f] = owner'[g] => f = g
    BY <1>7, <2>1, <2>2
  <2>9. clients'[1].fd = ListenFd /\ Len(clients') \in Nat \ {0}
    BY <1>7, <2>1, <2>2
  <2>10. Running' /\ pc' # "closed"
    BY <1>10 DEF ReadEof, Running
  <2> QED
    BY <1>6, <2>2, <2>6, <2>7, <2>8, <2>9, <2>10
<1> QED
  BY <1>2, <1>3, <1>4, <1>5, <1>8, <1>9, <1>10 DEF Next, ServerStep

LEMMA NextListenerFirst ==
  ASSUME TypeOK, PollsEverySession, ListenerFirst, ReportHolds, [Next]_vars
  PROVE  ListenerFirst'
<1>1. ASSUME UNCHANGED clients, Running' => Running, i' = i \/ i' = i + 1 \/ i' = 2
      PROVE  ListenerFirst'
  BY <1>1 DEF ListenerFirst, TypeOK
<1>2. CASE EnvStep \/ UNCHANGED vars
  BY <1>1, <1>2 DEF EnvStep, vars, srvVars, Running
<1>3. CASE \/ NothingToAccept \/ NotReady \/ Handle \/ ReadStop \/ ReadLine
           \/ Write \/ EndOfRound
  <2>1. i' = i \/ i' = i + 1 \/ i' = 2
    BY <1>3 DEF NothingToAccept, NotReady, Handle, ReadStop, ReadLine, Write, EndOfRound
  <2> QED
    BY <1>1, <1>3, <2>1, QuietStep
<1>4. CASE AcceptFails \/ RequestFails \/ Stop \/ Exit
  BY <1>4 DEF AcceptFails, RequestFails, Die, Stop, Exit, Running, ListenerFirst
<1>5. \A s \in Seq(Pollfd) : Len(s) # 0 => s # <<>>
  OBVIOUS
<1>6. Running => Len(clients) \in Nat \ {0}
  BY RunningTables
<1>7. CASE PollClients
  BY <1>5, <1>6, <1>7, PollEffect DEF PollClients, ListenerFirst, Running
<1>8. CASE Accept
  <2>1. clients' \in Seq(Pollfd) /\ Len(clients') = Len(clients) + 1
    BY <1>8, AcceptEffect
  <2>2. Len(clients') # 0 /\ i' = 2
    BY <1>6, <1>8, <2>1 DEF Accept, Running
  <2> QED
    BY <1>5, <2>1, <2>2 DEF ListenerFirst
<1>9. CASE ReadEof
  <2>1. clients' \in Seq(Pollfd) /\ Len(clients') = Len(clients) - 1
    BY <1>9, ReadEofEffect
  <2>2. i \in 2 .. Len(clients) /\ i' = i + 1
    BY <1>9, LoopFd DEF ReadEof, InBody
  <2>3. Len(clients') # 0 /\ i' >= 2
    BY <2>1, <2>2 DEF TypeOK
  <2> QED
    BY <1>5, <2>1, <2>3 DEF ListenerFirst
<1> QED
  BY <1>2, <1>3, <1>4, <1>7, <1>8, <1>9 DEF Next, ServerStep

-----------------------------------------------------------------------------
(***************************************************************************)
(* The connections.                                                        *)
(***************************************************************************)

LEMMA NextConnected ==
  ASSUME TypeOK, PollsEverySession, ListenerFirst, Connected(Sessions), ReportHolds,
         [Next]_vars
  PROVE  Connected(Sessions)'
<1>1. PICK S : S = Sessions
  OBVIOUS
<1>2. PICK T : T = Sessions'
  OBVIOUS
<1>3. CliTypeOK /\ Connected(S)
  BY <1>1 DEF TypeOK
<1> SUFFICES Connected(T)'
  BY <1>2 DEF Connected
<1>4. T = S /\ UNCHANGED cliVars => Connected(T)'
  BY <1>3, ConnectedCalls
<1>5. UNCHANGED owner => T = S
  BY <1>1, <1>2 DEF Sessions, OpenFds
<1>6. CASE UNCHANGED vars
  BY <1>4, <1>5, <1>6 DEF vars, srvVars
<1>7. CASE EnvStep
  <2>1. T = S
    BY <1>5, <1>7 DEF EnvStep, srvVars
  <2>2. Connected(S)'
    BY <1>3, <1>7, ConnectedClientStep DEF EnvStep
  <2> QED
    BY <2>1, <2>2
<1>8. CASE PollClients \/ NothingToAccept \/ NotReady \/ Handle \/ EndOfRound
  BY <1>4, <1>5, <1>8 DEF PollClients, NothingToAccept, NotReady, Handle, EndOfRound
<1>9. CASE Accept
  <2>1. T = S \cup {Head(backlog)}
    BY <1>1, <1>2, <1>9, AcceptEffect
  <2> QED
    BY <1>3, <1>9, <2>1, ConnectedCalls DEF Accept
<1>10. CASE AcceptFails \/ RequestFails \/ Stop
  <2>1. CloseAll(S) /\ T = S \ S
    BY <1>1, <1>2, <1>10, DieEffect, StopEffect DEF AcceptFails, RequestFails
  <2> QED
    BY <1>3, <2>1, ConnectedCalls
<1>11. CASE Exit
  <2>1. CloseAll(S) /\ T = S \ S
    BY <1>1, <1>2, <1>11 DEF Exit, Sessions, OpenFds
  <2> QED
    BY <1>3, <2>1, ConnectedCalls
<1>12. CASE ReadEof
  <2>1. owner[sockfd] \in S /\ T = S \ {owner[sockfd]}
    BY <1>1, <1>2, <1>12, LoopFd, ReadEofEffect DEF ReadEof, InBody
  <2> QED
    BY <1>3, <1>12, <2>1, ConnectedCalls DEF ReadEof
<1>13. CASE ReadStop \/ ReadLine \/ Write
  <2>1. owner[sockfd] \in S \cap Clients /\ T = S
    BY <1>1, <1>5, <1>13, LoopFd DEF ReadStop, ReadLine, Write, InBody
  <2>2. TakeData(owner[sockfd]) \/ PutData(owner[sockfd], buff)
    BY <1>13 DEF ReadStop, ReadLine, Write
  <2> QED
    BY <1>3, <2>1, <2>2, ConnectedCalls
<1> QED
  BY <1>6, <1>7, <1>8, <1>9, <1>10, <1>11, <1>12, <1>13 DEF Next, ServerStep

-----------------------------------------------------------------------------
(***************************************************************************)
(* What poll() reported.                                                   *)
(***************************************************************************)

LEMMA NextReport ==
  ASSUME TypeOK, PollsEverySession, ListenerFirst, Connected(Sessions), ReportHolds,
         [Next]_vars
  PROVE  ReportHolds'
<1>1. ASSUME pc' \notin {"accept", "scan", "read", "write"} PROVE ReportHolds'
  BY <1>1 DEF ReportHolds, InBody
<1>2. ASSUME Running
      PROVE  /\ DOMAIN clients = 1 .. Len(clients) /\ Len(clients) \in Nat \ {0}
             /\ \A k \in 2 .. Len(clients) : /\ clients[k].fd \in OpenFds
                                             /\ owner[clients[k].fd] \in Clients
             /\ \A j, k \in 2 .. Len(clients) :
                  owner[clients[j].fd] = owner[clients[k].fd] => j = k
  BY <1>2, RunningTables
<1>3. i \in Nat /\ i >= 2 /\ nready \in Nat
  BY DEF TypeOK, ListenerFirst
<1>4. ASSUME NEW k, UNCHANGED <<owner, clients>>, EntryHolds(k),
             LET d == owner[clients[k].fd]
             IN  (Answerable(d) => Answerable(d)') /\ (Unanswered(d) => Unanswered(d)')
      PROVE  EntryHolds(k)'
  BY <1>4 DEF EntryHolds, Newcomer, Answerable, Ended, Unanswered
<1>5. CASE UNCHANGED vars
  BY <1>5 DEF vars, cliVars, srvVars, ReportHolds, StillReady, EntryHolds, Newcomer,
              Answerable, Ended, Unanswered, InBody
<1>6. CASE EnvStep
  <2>1. PICK c \in Clients : ClientStep(c)
    BY <1>6 DEF EnvStep
  <2>2. UNCHANGED <<pc, owner, clients, nready, i>>
    BY <1>6 DEF EnvStep, srvVars
  <2>3. ASSUME NEW d \in Clients
        PROVE  (Answerable(d) => Answerable(d)') /\ (Unanswered(d) => Unanswered(d)')
    <3>1. CliTypeOK /\ LeftConnection(d)
      BY DEF TypeOK, Connected, Connection
    <3> QED
      BY <2>1, <3>1, ClientKeepsReadable
  <2>4. CASE pc \in {"accept", "scan", "read", "write"}
    <3>1. Running
      BY <2>4 DEF Running
    <3>2. ASSUME NEW first \in Nat, first >= 2, StillReady(first)
          PROVE  \A k \in first .. Len(clients) : EntryHolds(k)'
      BY <1>2, <1>4, <2>2, <2>3, <3>1, <3>2 DEF StillReady
    <3>3. CASE pc = "accept"
      <4>1. ASSUME NEW k \in 2 .. Len(clients), clients[k].revents = "rdnorm"
            PROVE  Answerable(owner[clients[k].fd])'
        BY <1>2, <2>2, <2>3, <3>1, <3>3, <4>1 DEF ReportHolds, Answerable, Ended
      <4> QED
        BY <2>2, <3>3, <4>1 DEF ReportHolds, InBody
    <3>4. CASE pc = "scan" \/ pc = "read"
      <4>1. StillReady(i)
        BY <3>4 DEF ReportHolds
      <4>2. \A k \in i .. Len(clients) : EntryHolds(k)'
        BY <1>3, <3>2, <4>1
      <4> QED
        BY <2>2, <3>4, <4>2 DEF ReportHolds, StillReady, InBody
    <3>5. CASE pc = "write"
      <4>1. StillReady(i + 1) /\ i + 1 \in Nat /\ i + 1 >= 2
        BY <1>3, <3>5 DEF ReportHolds
      <4>2. \A k \in i + 1 .. Len(clients) : EntryHolds(k)'
        BY <3>2, <4>1
      <4> QED
        BY <2>2, <3>5, <4>2 DEF ReportHolds, StillReady, InBody
    <3> QED
      BY <2>4, <3>3, <3>4, <3>5
  <2> QED
    BY <1>1, <2>2, <2>4
<1>7. CASE PollClients
  <2>1. /\ pc' = "accept" /\ Running /\ UNCHANGED <<cliVars, owner>>
        /\ Len(clients') = Len(clients)
        /\ \A k \in 1 .. Len(clients) : /\ clients'[k].fd = clients[k].fd
                                        /\ clients'[k].revents = Poll(clients[k].fd)
    BY <1>7, PollEffect DEF PollClients, Running
  <2>2. ASSUME NEW k \in 2 .. Len(clients'), clients'[k].revents = "rdnorm"
        PROVE  Answerable(owner[clients[k].fd])'
    <3>1. /\ k \in 1 .. Len(clients) /\ k \in 2 .. Len(clients)
          /\ clients[k].fd \in Fds
      BY <1>2, <2>1 DEF OpenFds
    <3>2. clients[k].fd # ListenFd
      BY <3>1, FdAssumption DEF Fds
    <3>3. Poll(clients[k].fd) = "rdnorm"
      BY <2>1, <2>2, <3>1
    <3>4. PICK d \in Clients : d = owner[clients[k].fd]
      BY <1>2, <2>1, <3>1
    <3>5. peer[d] \notin {"rst", "finrst"} /\ Readable(d)
      BY <3>2, <3>3, <3>4 DEF Poll
    <3>6. Answerable(d)
      BY <3>5 DEF Readable, Answerable, Ended, TypeOK, CliTypeOK, PeerState
    <3>7. owner'[clients'[k].fd] = d
      BY <2>1, <3>1, <3>4
    <3> QED
      BY <2>1, <3>6, <3>7 DEF Answerable, Ended, cliVars
  <2> QED
    BY <2>1, <2>2 DEF ReportHolds, InBody
<1>8. CASE Accept
  <2>1. PICK f \in Fds :
          /\ f \notin OpenFds
          /\ Head(backlog) \in Clients
          /\ \A g \in OpenFds : owner'[g] = owner[g]
          /\ owner'[f] = Head(backlog)
          /\ Len(clients') = Len(clients) + 1
          /\ \A k \in 1 .. Len(clients) : clients'[k] = clients[k]
          /\ clients'[Len(clients) + 1].fd = f
    BY <1>8, AcceptEffect
  <2>2. /\ pc = "accept" /\ Running /\ clients[1].revents = "rdnorm" /\ i' = 2
        /\ UNCHANGED <<inbox, outbox, peer, nready>>
        /\ pc' = IF nready < 2 THEN "poll" ELSE "scan"
    BY <1>8 DEF Accept, TakeConnection, Running
  <2>3. clients'[1].revents = "rdnorm"
    BY <1>2, <2>1, <2>2
  <2>4. ASSUME NEW k \in 2 .. Len(clients') PROVE EntryHolds(k)'
    <3>1. CASE k = Len(clients) + 1
      <4>1. InBacklog(Head(backlog))
        BY <1>8, QueueShrinks DEF Accept, TakeConnection, TypeOK, Connected
      <4>2. Unanswered(Head(backlog))
        BY <2>1, <4>1 DEF Connected, Connection, QueuedConnection, Unanswered
      <4>3. owner'[clients'[k].fd] = Head(backlog)
        BY <2>1, <3>1
      <4>4. Newcomer(k)'
        BY <2>1, <2>3, <3>1 DEF Newcomer
      <4>5. PICK d : d = Head(backlog)
        OBVIOUS
      <4>6. owner'[clients'[k].fd] = d /\ outbox'[d] = <<>> /\ peer'[d] \in {"up", "fin"}
        BY <2>2, <4>2, <4>3, <4>5 DEF Unanswered
      <4> QED
        BY <4>4, <4>6 DEF EntryHolds, Unanswered
    <3>2. CASE k # Len(clients) + 1
      <4>1. k \in 2 .. Len(clients) /\ clients'[k] = clients[k] /\ ~Newcomer(k)'
        BY <1>2, <2>1, <2>2, <3>2 DEF Newcomer
      <4>2. owner'[clients'[k].fd] = owner[clients[k].fd]
        BY <1>2, <2>1, <2>2, <4>1
      <4>3. clients[k].revents = "rdnorm" => Answerable(owner[clients[k].fd])
        BY <2>2, <4>1 DEF ReportHolds
      <4> QED
        BY <2>2, <4>1, <4>2, <4>3 DEF EntryHolds, Answerable, Ended
    <3> QED
      BY <3>1, <3>2
  <2>5. pc' = "scan" => nready' > 1
    BY <1>3, <2>2
  <2> QED
    BY <1>1, <2>2, <2>4, <2>5 DEF ReportHolds, StillReady, InBody
<1>9. CASE NothingToAccept
  <2>1. /\ pc = "accept" /\ pc' = "scan" /\ i' = 2 /\ clients[1].revents # "rdnorm"
        /\ UNCHANGED <<cliVars, owner, clients>>
    BY <1>9 DEF NothingToAccept
  <2>2. ASSUME NEW k \in 2 .. Len(clients) PROVE EntryHolds(k)'
    BY <2>1 DEF ReportHolds, EntryHolds, Newcomer, Answerable, Ended, cliVars
  <2> QED
    BY <2>1, <2>2 DEF ReportHolds, StillReady, InBody
<1>10. CASE NotReady \/ Handle
  <2>1. /\ pc = "scan" /\ i <= Len(clients) /\ UNCHANGED <<cliVars, owner, clients, nready>>
        /\ \/ pc' = "scan" /\ i' = i + 1
           \/ pc' = "read" /\ i' = i /\ clients[i].revents = "rdnorm"
    BY <1>10 DEF NotReady, Handle, InLoop
  <2>2. Running
    BY <2>1 DEF Running
  <2>3. ASSUME NEW k \in i .. Len(clients) PROVE EntryHolds(k)'
    BY <2>1, <2>3 DEF ReportHolds, StillReady, EntryHolds, Newcomer, Answerable, Ended, Unanswered,
                      cliVars
  <2>4. \A k \in i' .. Len(clients) : k \in i .. Len(clients)
    BY <1>2, <1>3, <2>1, <2>2
  <2> QED
    BY <2>1, <2>3, <2>4 DEF ReportHolds, StillReady, InBody
<1>11. ASSUME InBody, UNCHANGED <<owner, clients>>,
              \A d \in Clients : d # owner[sockfd] =>
                inbox'[d] = inbox[d] /\ outbox'[d] = outbox[d] /\ peer'[d] = peer[d]
       PROVE  \A k \in i + 1 .. Len(clients) : EntryHolds(k)'
  <2>1. i \in 2 .. Len(clients) /\ Running
    BY <1>11, LoopFd
  <2>2. \A k \in i + 1 .. Len(clients) : EntryHolds(k)
    BY <1>3, <1>11 DEF InBody, ReportHolds, StillReady
  <2>3. ASSUME NEW k \in i + 1 .. Len(clients) PROVE EntryHolds(k)'
    <3>1. k \in 2 .. Len(clients) /\ k # i
      BY <2>1
    <3>2. owner[clients[k].fd] # owner[sockfd] /\ owner[clients[k].fd] \in Clients
      BY <1>2, <2>1, <3>1 DEF sockfd
    <3> QED
      BY <1>4, <1>11, <2>2, <3>2 DEF Answerable, Ended, Unanswered
  <2> QED
    BY <2>3
<1>12. CASE ReadStop \/ ReadLine \/ Write
  <2>1. /\ InBody /\ UNCHANGED <<owner, clients, nready>>
        /\ \/ pc' = "scan" /\ i' = i + 1
           \/ pc' = "write" /\ i' = i
    BY <1>12 DEF ReadStop, ReadLine, Write, InBody
  <2>2. TakeData(owner[sockfd]) \/ PutData(owner[sockfd], buff)
    BY <1>12 DEF ReadStop, ReadLine, Write
  <2>3. \A d \in Clients : d # owner[sockfd] =>
          inbox'[d] = inbox[d] /\ outbox'[d] = outbox[d] /\ peer'[d] = peer[d]
    BY <2>2 DEF TakeData, PutData, TypeOK, CliTypeOK
  <2>4. \A k \in i + 1 .. Len(clients) : EntryHolds(k)'
    BY <1>11, <2>1, <2>3
  <2> QED
    BY <2>1, <2>4 DEF ReportHolds, StillReady, InBody
<1>13. CASE ReadEof
  <2>1. /\ pc = "read" /\ pc' = "scan" /\ i' = i + 1 /\ UNCHANGED nready
        /\ CloseEnds({owner[sockfd]})
    BY <1>13 DEF ReadEof
  <2>2. /\ OpenFds' = OpenFds \ {sockfd}
        /\ \A f \in OpenFds' : owner'[f] = owner[f]
        /\ Len(clients') = Len(clients) - 1
        /\ \A k \in 1 .. i - 1 : clients'[k] = clients[k]
        /\ \A k \in i .. Len(clients) - 1 : clients'[k] = clients[k + 1]
    BY <1>13, ReadEofEffect
  <2>3. i \in 2 .. Len(clients) /\ Running
    BY <2>1, LoopFd DEF InBody
  <2>4. clients'[1] = clients[1]
    BY <2>2, <2>3
  <2>5. ASSUME NEW k \in i + 1 .. Len(clients') PROVE EntryHolds(k)'
    <3>1. /\ k \in i .. Len(clients) - 1 /\ k + 1 \in i .. Len(clients)
          /\ k + 1 \in 2 .. Len(clients) /\ k + 1 # i
      BY <1>2, <2>2, <2>3
    <3>2. clients'[k] = clients[k + 1] /\ (Newcomer(k)' <=> Newcomer(k + 1))
      BY <1>2, <2>2, <2>3, <2>4, <3>1 DEF Newcomer
    <3>3. EntryHolds(k + 1)
      BY <2>1, <3>1 DEF ReportHolds, StillReady
    <3>4. PICK d \in Clients : d = owner[clients[k + 1].fd]
      BY <1>2, <2>3, <3>1
    <3>5. d # owner[sockfd] /\ clients[k + 1].fd \in OpenFds
      BY <1>2, <2>3, <3>1, <3>4 DEF sockfd
    <3>6. owner'[clients'[k].fd] = d
      BY <2>2, <3>2, <3>4, <3>5
    <3>7. inbox'[d] = inbox[d] /\ UNCHANGED <<outbox, peer>>
      BY <2>1, <3>5 DEF CloseEnds
    <3> QED
      BY <3>2, <3>3, <3>4, <3>6, <3>7 DEF EntryHolds, Answerable, Ended, Unanswered
  <2>6. clients'[1].revents = "rdnorm" => nready' > 1
    BY <2>1, <2>4 DEF ReportHolds, InBody
  <2> QED
    BY <2>1, <2>5, <2>6 DEF ReportHolds, StillReady, InBody
<1>14. CASE AcceptFails \/ RequestFails \/ EndOfRound \/ Stop \/ Exit
  BY <1>1, <1>14 DEF AcceptFails, RequestFails, Die, EndOfRound, Stop, Exit
<1> QED
  BY <1>5, <1>6, <1>7, <1>8, <1>9, <1>10, <1>12, <1>13, <1>14 DEF Next, ServerStep

-----------------------------------------------------------------------------
(***************************************************************************)
(* The lines under way.                                                    *)
(***************************************************************************)

LEMMA NextInHand ==
  ASSUME InHand, [Next]_vars
  PROVE  InHand'
<1>1. CASE EnvStep \/ UNCHANGED vars
  BY <1>1 DEF EnvStep, vars, srvVars, InHand
<1>2. CASE ReadLine
  BY <1>2 DEF ReadLine, TakeData, InHand
<1>3. CASE ServerStep /\ ~ReadLine
  <2>1. pc' # "write"
    BY <1>3 DEF ServerStep, PollClients, Accept, AcceptFails, NothingToAccept, NotReady,
                Handle, ReadEof, ReadStop, Write, RequestFails, EndOfRound, Stop, Exit,
                Die, InLoop
  <2> QED
    BY <2>1 DEF InHand
<1> QED
  BY <1>1, <1>2, <1>3 DEF Next

LEMMA NextOneAtATime ==
  ASSUME TypeOK, PollsEverySession, ListenerFirst, Connected(Sessions), InHand,
         OneAtATime, [Next]_vars
  PROVE  OneAtATime'
<1> SUFFICES ASSUME NEW c \in Clients \ Eager
             PROVE  Waiting(c, InService(c))'
  BY DEF OneAtATime
<1>1. PICK held : held = InService(c)
  OBVIOUS
<1>2. PICK new : new = InService(c)'
  OBVIOUS
<1> SUFFICES Waiting(c, new)'
  BY <1>2 DEF Waiting, OneLineUnderWay
<1>3. CliTypeOK /\ Waiting(c, held)
  BY <1>1 DEF TypeOK, OneAtATime
<1>4. pc # "write" => held = <<>>
  BY <1>1 DEF InService
<1>5. pc' # "write" => new = <<>>
  BY <1>2 DEF InService
<1>6. TakeConnection \/ UNCHANGED cliVars => Waiting(c, held)'
  BY <1>3, WaitingCalls
<1>7. CASE UNCHANGED vars
  <2>1. new = held
    BY <1>1, <1>2, <1>7 DEF vars, srvVars, InService, sockfd
  <2> QED
    BY <1>6, <1>7, <2>1 DEF vars
<1>8. CASE EnvStep
  <2>1. new = held
    BY <1>1, <1>2, <1>8 DEF EnvStep, srvVars, InService, sockfd
  <2>2. LeftConnection(c)
    BY DEF Connected, Connection
  <2> QED
    BY <1>3, <1>8, <2>1, <2>2, WaitingClientStep DEF EnvStep
<1>9. CASE PollClients \/ NothingToAccept \/ NotReady \/ Handle \/ EndOfRound
  <2>1. held = <<>> /\ new = <<>> /\ UNCHANGED cliVars
    BY <1>4, <1>5, <1>9 DEF PollClients, NothingToAccept, NotReady, Handle, EndOfRound, InLoop
  <2> QED
    BY <1>6, <2>1
<1>10. CASE Accept
  <2>1. held = <<>> /\ new = <<>> /\ TakeConnection
    BY <1>4, <1>5, <1>10 DEF Accept
  <2> QED
    BY <1>6, <2>1
<1>11. CASE AcceptFails \/ RequestFails \/ Stop \/ Exit
  <2>1. new = <<>> /\ \E cs : CloseAll(cs)
    BY <1>5, <1>11 DEF AcceptFails, RequestFails, Stop, Exit, Die
  <2> QED
    BY <1>3, <2>1, WaitingCalls
<1>12. CASE ReadEof
  <2>1. new = <<>> /\ CloseEnds({owner[sockfd]})
    BY <1>5, <1>12 DEF ReadEof
  <2> QED
    BY <1>3, <2>1, WaitingCalls
<1>13. CASE ReadStop
  <2>1. held = <<>> /\ new = <<>> /\ TakeData(owner[sockfd])
    BY <1>4, <1>5, <1>13 DEF ReadStop
  <2> QED
    BY <1>3, <2>1, WaitingCalls
<1>14. CASE ReadLine
  <2>1. held = <<>> /\ TakeData(owner[sockfd])
    BY <1>4, <1>14 DEF ReadLine
  <2>2. new = IF owner[sockfd] = c THEN inbox[c] ELSE <<>>
    BY <1>2, <1>14 DEF ReadLine, InService, sockfd
  <2>3. CASE owner[sockfd] = c
    BY <1>3, <2>1, <2>2, <2>3, WaitingCalls
  <2>4. CASE owner[sockfd] # c
    BY <1>3, <2>1, <2>2, <2>4, WaitingCalls
  <2> QED
    BY <2>3, <2>4
<1>15. CASE Write
  <2>1. new = <<>> /\ PutData(owner[sockfd], buff)
    BY <1>5, <1>15 DEF Write
  <2>2. held = IF owner[sockfd] = c THEN buff ELSE <<>>
    BY <1>1, <1>15 DEF Write, InService
  <2>3. CASE owner[sockfd] = c
    <3>1. held # <<>> /\ PutData(c, held)
      BY <1>15, <2>1, <2>2, <2>3 DEF InHand, Write
    <3> QED
      BY <1>3, <2>1, <3>1, WaitingCalls
  <2>4. CASE owner[sockfd] # c
    BY <1>3, <2>1, <2>2, <2>4, WaitingCalls
  <2> QED
    BY <2>3, <2>4
<1> QED
  BY <1>7, <1>8, <1>9, <1>10, <1>11, <1>12, <1>13, <1>14, <1>15 DEF Next, ServerStep

-----------------------------------------------------------------------------
(***************************************************************************)
(* The theorems.                                                           *)
(***************************************************************************)

LEMMA InitIInv == Init => IInv
<1> SUFFICES ASSUME Init PROVE IInv
  OBVIOUS
<1> USE FdAssumption DEF Init, CliInit
<1>1. OpenFds = {} /\ Sessions = {}
  BY DEF OpenFds, Sessions
<1>2. CliTypeOK /\ Connected({}) /\ \A c \in Clients : Waiting(c, <<>>)
  BY InitConnections DEF Init
<1>3. /\ clients \in Seq(Pollfd) /\ Len(clients) = 1 /\ DOMAIN clients = 1 .. 1
      /\ clients[1].fd = ListenFd
  <2>1. [fd |-> ListenFd, revents |-> "none"] \in Pollfd
    BY DEF Pollfd, Revents
  <2> QED
    BY <2>1
<1>4. TypeOK
  BY <1>2, <1>3, EmptySeq DEF TypeOK, SrvState
<1>5. PollsEverySession
  BY <1>1, <1>3 DEF PollsEverySession
<1>6. ListenerFirst
  BY <1>3 DEF ListenerFirst
<1>7. Connected(Sessions)
  BY <1>1, <1>2
<1>8. ReportHolds
  BY DEF ReportHolds, InBody
<1>9. InHand /\ OneAtATime
  BY <1>2 DEF InHand, OneAtATime, InService
<1> QED
  BY <1>4, <1>5, <1>6, <1>7, <1>8, <1>9 DEF IInv

LEMMA NextIInv == IInv /\ [Next]_vars => IInv'
<1> SUFFICES ASSUME IInv, [Next]_vars PROVE IInv'
  OBVIOUS
<1>1. TypeOK'
  BY NextTyped DEF IInv
<1>2. PollsEverySession'
  BY NextTables DEF IInv
<1>3. ListenerFirst'
  BY NextListenerFirst DEF IInv
<1>4. Connected(Sessions)'
  BY NextConnected DEF IInv
<1>5. ReportHolds'
  BY NextReport DEF IInv
<1>6. InHand'
  BY NextInHand DEF IInv
<1>7. OneAtATime'
  BY NextOneAtATime DEF IInv
<1> QED
  BY <1>1, <1>2, <1>3, <1>4, <1>5, <1>6, <1>7 DEF IInv

\* The inductive invariant holds in every state the server and its clients
\* reach; the theorems below are read off it.
THEOREM IInvHolds == Spec => []IInv
BY InitIInv, NextIInv, PTL DEF Spec

\* Every variable of the server and of its connections keeps its type: the
\* loop index and the entries of the vector stay in range, whatever is
\* accepted and erased during a round.
THEOREM TypeCorrect == Spec => []TypeOK
<1>1. IInv => TypeOK
  BY DEF IInv
<1> QED
  BY <1>1, IInvHolds, PTL

\* poll() is asked about the listening socket and about every open session,
\* each once, whatever the order of accept(), closes and erases; and after
\* CloseOpeningFileDescriptors() no session is open.
THEOREM VectorIsWhole == Spec => []PollsEverySession
<1>1. IInv => PollsEverySession
  BY DEF IInv
<1> QED
  BY <1>1, IInvHolds, PTL

\* read() blocks in one case only: on the session of this round's accept(),
\* whose revents nobody has set, and not before another session was ready.
\* Everything poll() did report is still readable when the loop gets to it.
THEOREM BlocksOnNewcomers == Spec => []BlocksOnNewcomerOnly
<1>1. IInv => BlocksOnNewcomerOnly
  <2> SUFFICES ASSUME IInv, Blocked
               PROVE  i = Len(clients) /\ clients[1].revents = "rdnorm" /\ nready > 1
    BY DEF BlocksOnNewcomerOnly
  <2>1. /\ pc = "read" /\ i \in 2 .. Len(clients)
        /\ clients[i].revents = "rdnorm" /\ StillReady(i)
    BY LoopFd DEF Blocked, IInv, InBody, ReportHolds
  <2>2. EntryHolds(i) /\ ~Answerable(owner[sockfd])
    BY <2>1 DEF StillReady, Blocked, Readable, Answerable, Ended
  <2>3. Newcomer(i)
    BY <2>1, <2>2 DEF EntryHolds, sockfd
  <2> QED
    BY <2>1, <2>3 DEF Newcomer, IInv, ReportHolds, InBody
<1> QED
  BY <1>1, IInvHolds, PTL

\* No client that waits for its answers ends the server by dying.  A reset
\* is never taken to read(), since poll() reports it with other bits and the
\* newcomer was not written to; and an answer in hand is the client's only
\* line, so nothing was written to it since it left, if it has.
THEOREM ServerSurvives == Spec => OnlyEagerPeersKill
<1>1. IInv /\ [Next]_vars =>
        (pc # "dead" /\ pc' = "dead" =>
           \/ pc = "accept" /\ OpenFds = Fds
           \/ pc = "write" /\ owner[sockfd] \in Eager)
  <2> SUFFICES ASSUME IInv, [Next]_vars, pc # "dead", pc' = "dead"
               PROVE  \/ pc = "accept" /\ OpenFds = Fds
                      \/ pc = "write" /\ owner[sockfd] \in Eager
    OBVIOUS
  <2>1. AcceptFails \/ RequestFails
    BY DEF Next, ServerStep, EnvStep, vars, srvVars, PollClients, Accept, NothingToAccept,
           NotReady, Handle, ReadEof, ReadStop, ReadLine, Write, EndOfRound, Stop, Exit, InLoop
  <2>2. CASE AcceptFails
    BY <2>2 DEF AcceptFails
  <2>3. CASE pc = "read" /\ AtReset(owner[sockfd])
    <3>1. i \in 2 .. Len(clients) /\ clients[i].revents = "rdnorm" /\ StillReady(i)
      BY <2>3, LoopFd DEF IInv, InBody, ReportHolds
    <3>2. EntryHolds(i)
      BY <3>1 DEF StillReady
    <3>3. Unanswered(owner[sockfd]) \/ Answerable(owner[sockfd])
      BY <3>1, <3>2 DEF EntryHolds, sockfd
    <3> QED
      BY <2>3, <3>3 DEF AtReset, Unanswered, Answerable, Ended
  <2>4. CASE pc = "write" /\ ~CanWrite(owner[sockfd])
    <3>1. PICK c \in Clients : c = owner[sockfd]
      BY <2>4, LoopFd DEF IInv, InBody
    <3>2. InService(c) # <<>>
      BY <2>4, <3>1 DEF IInv, InHand, InService
    <3>3. c \notin Eager => Waiting(c, InService(c))
      BY <3>1 DEF IInv, OneAtATime
    <3>4. c \notin Eager => peer[c] \in PeerState \ {"finwr", "finrst", "rst"}
      BY <3>2, <3>3 DEF Waiting, IInv, TypeOK, CliTypeOK
    <3> QED
      BY <2>4, <3>1, <3>4 DEF CanWrite, PeerState
  <2> QED
    BY <2>1, <2>2, <2>3, <2>4 DEF RequestFails, CallFails
<1> QED
  BY <1>1, IInvHolds, PTL DEF Spec, OnlyEagerPeersKill

-----------------------------------------------------------------------------
(***************************************************************************)
(* The refinement of EchoService.                                          *)
(***************************************************************************)

InHands == [c \in Clients |-> InService(c)]

Asked == [c \in Clients |-> InService(c) \o inbox[c]]

LEMMA InitServed == Init => Echo!Init
<1> SUFFICES ASSUME Init PROVE Echo!Init
  OBVIOUS
<1>1. [c \in Clients |-> Place(c)] = [c \in Clients |-> "out"]
  BY DEF Init, CliInit, Place
<1>2. [c \in Clients |-> InService(c) \o inbox[c]] = [c \in Clients |-> <<>>]
  <2>1. <<>> \o <<>> = <<>>
    OBVIOUS
  <2> QED
    BY <2>1 DEF Init, CliInit, InService
<1> QED
  BY <1>1, <1>2 DEF Init, CliInit, Running, Echo!Init

LEMMA NextServed ==
  ASSUME TypeOK, PollsEverySession, ListenerFirst, Connected(Sessions), ReportHolds, InHand,
         [Next]_vars
  PROVE  [Echo!Next]_(Echo!vars)
<1>1. PICK held : held = InHands
  OBVIOUS
<1>2. PICK new : new = InHands'
  OBVIOUS
<1>3. PICK S : S = Sessions
  OBVIOUS
<1>4. Asked = UnderWay(held, inbox) /\ Asked' = UnderWay(new, inbox')
  BY <1>1, <1>2 DEF Asked, InHands, UnderWay
<1>5. /\ CliTypeOK /\ S \in SUBSET Clients /\ Connected(S)
      /\ held \in [Clients -> Seq(Lines)]
  <2>1. Sessions \in SUBSET Clients
    BY DEF Sessions, OpenFds, TypeOK
  <2> QED
    BY <1>1, <1>3, <2>1, EmptySeq DEF TypeOK, InHands, InService
<1>6. ASSUME ClientServed(held), new = held, UNCHANGED Running
      PROVE  [Echo!Next]_(Echo!vars)
  <2> USE <1>4, <1>6 DEF Appends, Empties, Asked, Places
  <2>1. ASSUME NEW c \in Clients, Places[c] = "out",
               Places' = [Places EXCEPT ![c] = "in"], Asked' = Asked, UNCHANGED outbox
        PROVE  Echo!Join(c)
    BY <2>1 DEF Echo!Join
  <2>2. ASSUME NEW c \in Clients, NEW l \in Lines, Places[c] = "in",
               Appends(Asked, Asked', c, l), UNCHANGED Places, UNCHANGED outbox
        PROVE  Echo!Ask(c, l)
    BY <2>2 DEF Echo!Ask
  <2>3. ASSUME NEW c \in Clients, Places[c] \in {"in", "cut"},
               Empties(outbox, outbox', c), Asked' = Asked, UNCHANGED Places
        PROVE  Echo!Collect(c)
    BY <2>3 DEF Echo!Collect
  <2>4. ASSUME NEW c \in Clients, Places' = [Places EXCEPT ![c] = "left"],
               Empties(outbox, outbox', c), Asked' = Asked
        PROVE  Echo!Leave(c)
    BY <2>4 DEF Echo!Leave
  <2>5. Asked' = Asked /\ UNCHANGED <<Places, outbox>> => UNCHANGED Echo!vars
    BY DEF Echo!vars
  <2> QED
    BY <2>1, <2>2, <2>3, <2>4, <2>5 DEF ClientServed, Echo!Next
<1>7. ASSUME ServerServed(StopLine, held, new), Running, Running'
      PROVE  [Echo!Next]_(Echo!vars)
  <2>1. ASSUME NEW c \in Clients, held[c] # <<StopLine>>,
               Consumes(Asked, Asked', c, held[c]), UNCHANGED Places,
               outbox' = IF Places[c] = "in" THEN [outbox EXCEPT ![c] = @ \o held[c]]
                         ELSE outbox
        PROVE  Echo!Next
    <3>1. Echo!Answer(c, Len(held[c]))
      BY <1>7, <2>1 DEF Echo!Answer, Consumes, Asked, Places
    <3> QED
      BY <2>1, <3>1 DEF Echo!Next, Consumes, Asked
  <2>2. ASSUME NEW c \in Clients, Asked[c] = <<StopLine>>, Empties(Asked, Asked', c),
               UNCHANGED outbox, UNCHANGED Places
        PROVE  Echo!HearStop(c)
    BY <1>7, <2>2 DEF Echo!HearStop, Empties, Asked, Places
  <2>3. Asked' = Asked /\ UNCHANGED outbox /\ UNCHANGED Places => UNCHANGED Echo!vars
    BY <1>7 DEF Echo!vars, Asked, Places
  <2> QED
    BY <1>4, <1>7, <2>1, <2>2, <2>3 DEF ServerServed, Echo!Next
<1>8. ASSUME NEW cs, EndServed(cs, held, new), ~Running'
      PROVE  [Echo!Next]_(Echo!vars)
  <2>1. /\ cs \in SUBSET Clients /\ Places' = Cut(cs)
        /\ Asked' = Cleared(Asked, cs) /\ UNCHANGED outbox
    BY <1>4, <1>8 DEF EndServed
  <2>2. Echo!End(cs)
    BY <1>8, <2>1 DEF Echo!End, Cut, Cleared, Asked, Places
  <2> QED
    BY <2>1, <2>2 DEF Echo!Next
<1>9. /\ pc # "write" => held = [c \in Clients |-> <<>>]
      /\ pc' # "write" => new = [c \in Clients |-> <<>>]
  BY <1>1, <1>2 DEF InHands, InService
<1>10. CASE UNCHANGED vars \/ EnvStep
  <2>1. new = held /\ UNCHANGED Running
    BY <1>1, <1>2, <1>10 DEF EnvStep, vars, srvVars, InHands, InService, sockfd, Running
  <2>2. UNCHANGED cliVars \/ \E c \in Clients : ClientStep(c)
    BY <1>10 DEF EnvStep, vars
  <2> QED
    BY <1>5, <1>6, <2>1, <2>2, ClientServes
<1>11. CASE PollClients \/ NothingToAccept \/ NotReady \/ Handle \/ EndOfRound \/ Accept
  <2>1. pc # "write" /\ pc' # "write" /\ Running /\ Running'
    BY <1>11 DEF PollClients, NothingToAccept, NotReady, Handle, EndOfRound, Accept, InLoop,
                 Running
  <2>2. UNCHANGED cliVars \/ TakeConnection
    BY <1>11 DEF PollClients, NothingToAccept, NotReady, Handle, EndOfRound, Accept
  <2> QED
    BY <1>5, <1>7, <1>9, <2>1, <2>2, CallsServe
<1>12. ASSUME InBody
       PROVE  Running /\ owner[sockfd] \in S \cap Clients
  BY <1>3, <1>12, LoopFd
<1>13. CASE ReadEof
  <2>1. new = held /\ Running' /\ InBody
    BY <1>9, <1>13 DEF ReadEof, Running, InBody
  <2>2. AtEof(owner[sockfd]) /\ CloseEnds({owner[sockfd]})
    BY <1>13 DEF ReadEof
  <2> QED
    BY <1>5, <1>7, <1>12, <2>1, <2>2, CallsServe
<1>14. CASE ReadStop
  <2>1. new = held /\ Running' /\ InBody /\ held = [c \in Clients |-> <<>>]
    BY <1>9, <1>14 DEF ReadStop, Running, InBody
  <2>2. TakeData(owner[sockfd]) /\ inbox[owner[sockfd]] = <<StopLine>>
    BY <1>14 DEF ReadStop
  <2>3. held[owner[sockfd]] = <<>>
    BY <1>12, <2>1
  <2> QED
    BY <1>5, <1>7, <1>12, <2>1, <2>2, <2>3, CallsServe
<1>15. CASE ReadLine
  <2>1. PICK c \in Clients : c = owner[sockfd]
    BY <1>12, <1>15 DEF ReadLine, InBody
  <2>2. TakeData(c) /\ held[c] = <<>> /\ InBody /\ Running'
    BY <1>9, <1>15, <2>1 DEF ReadLine, InBody, Running
  <2>3. Takes(held, new, c, inbox[c])
    <3>1. owner'[sockfd'] = c /\ pc' = "write" /\ buff' = inbox[c] /\ pc # "write"
      BY <1>15, <2>1 DEF ReadLine, sockfd
    <3>2. new = [d \in Clients |-> IF d = c THEN inbox[c] ELSE <<>>]
      BY <1>2, <3>1 DEF InHands, InService
    <3> QED
      BY <1>9, <3>1, <3>2 DEF Takes
  <2> QED
    BY <1>5, <1>7, <1>12, <2>2, <2>3, CallsServe
<1>16. CASE Write
  <2>1. PICK c \in S : c = owner[sockfd]
    BY <1>12, <1>16 DEF Write, InBody
  <2>2. held = [d \in Clients |-> IF d = c THEN buff ELSE <<>>]
    BY <1>1, <1>16, <2>1 DEF Write, InHands, InService
  <2>3. /\ PutData(c, held[c]) /\ held[c] # <<StopLine>> /\ Running /\ Running'
        /\ Empties(held, new, c)
    BY <1>5, <1>9, <1>16, <2>1, <2>2 DEF Write, Running, InHand, Empties
  <2> QED
    BY <1>5, <1>7, <2>3, CallsServe
<1>17. CASE AcceptFails \/ RequestFails \/ Stop \/ Exit
  <2>1. CloseAll(S) /\ ~Running' /\ pc' # "write"
    <3>1. CASE AcceptFails \/ RequestFails
      BY <1>3, <1>17, <3>1, DieEffect DEF AcceptFails, RequestFails
    <3>2. CASE Stop
      BY <1>3, <3>2, StopEffect DEF Stop, Running
    <3>3. CASE Exit
      BY <1>3, <3>3 DEF Exit, Running
    <3> QED
      BY <1>17, <3>1, <3>2, <3>3
  <2>2. new = Cleared(held, S \cup Queued)
    <3>1. CASE pc # "write"
      BY <1>9, <2>1, <3>1 DEF Cleared
    <3>2. CASE pc = "write"
      <4>1. owner[sockfd] \in S
        BY <1>12, <3>2 DEF InBody
      <4>2. held = [d \in Clients |-> IF d = owner[sockfd] THEN buff ELSE <<>>]
        BY <1>1, <3>2 DEF InHands, InService
      <4> QED
        BY <1>9, <2>1, <4>1, <4>2 DEF Cleared
    <3> QED
      BY <3>1, <3>2
  <2> QED
    BY <1>5, <1>8, <2>1, <2>2, CallsServe
<1> QED
  BY <1>10, <1>11, <1>13, <1>14, <1>15, <1>16, <1>17 DEF Next, ServerStep

\* The server keeps the promise of the echo service in every behaviour: each
\* answer is a client's own lines, in order, none twice; a client that stays
\* is cut off only when the service ends, and nobody is answered after that.
THEOREM Implements == Spec => ImplementsEchoService
<1>1. IInv /\ [Next]_vars => [Echo!Next]_(Echo!vars)
  BY NextServed DEF IInv
<1> QED
  BY <1>1, InitServed, IInvHolds, PTL DEF Spec, ImplementsEchoService, Echo!Spec
=============================================================================
