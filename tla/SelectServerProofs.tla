------------------------- MODULE SelectServerProofs -------------------------
(***************************************************************************)
(* Proofs about SelectServer, for every number of clients, descriptors and *)
(* lines, eager peers included.                                            *)
(***************************************************************************)
EXTENDS SelectServer, TcpClientsProofs

(***************************************************************************)
(* The inductive invariant.                                                *)
(***************************************************************************)

\* The bound for select() holds between any two calls.
MaxfdCovers == Running => \A f \in OpenFds \cup {ListenFd} : f <= maxfd

StillReady(first) ==
  \A j \in first .. Len(clients) : clients[j] \in readset => Readable(owner[clients[j]])

\* What select() reported stays true until the loop has been there.
ReportHolds ==
  /\ pc = "accept" => /\ ListenFd \in readset => backlog # <<>>
                      /\ \A f \in readset \ {ListenFd} : f \in OpenFds /\ Readable(owner[f])
  /\ pc = "scan" => StillReady(i)
  /\ pc = "write" => i <= Len(clients) /\ StillReady(i + 1)

\* An answer has text, and StopLine is not answered.
InHand == pc = "write" => buff \notin {<<>>, <<StopLine>>}

\* A client that waits for each answer has one line under way at most.
OneAtATime == \A c \in Clients \ Eager : Waiting(c, InService(c))

IInv ==
  /\ TypeOK
  /\ SessionTablesAgree
  /\ Connected(Sessions)
  /\ MaxfdCovers
  /\ ReportHolds
  /\ InHand
  /\ OneAtATime

-----------------------------------------------------------------------------
(***************************************************************************)
(* Typing.                                                                 *)
(***************************************************************************)

\* The session the loop looks at is an open one.
LEMMA LoopFd ==
  ASSUME TypeOK, SessionTablesAgree, ReportHolds, InLoop \/ pc = "write"
  PROVE  /\ i \in 1 .. Len(clients)
         /\ connfd \in OpenFds
         /\ owner[connfd] \in Clients
<1>1. i \in 1 .. Len(clients)
  BY DEF TypeOK, ReportHolds, InLoop
<1>2. Members(clients) = OpenFds
  BY DEF SessionTablesAgree, Running, InLoop
<1>3. connfd \in Members(clients)
  BY <1>1 DEF connfd, Members, TypeOK
<1> QED
  BY <1>1, <1>2, <1>3 DEF OpenFds, TypeOK

\* Erase takes fd, and nothing else, out of a vector that holds it once.
LEMMA EraseProperties ==
  ASSUME TypeOK, NEW k \in 1 .. Len(clients), Erase(clients[k]),
         \A j, l \in DOMAIN clients : clients[j] = clients[l] => j = l
  PROVE  /\ clients' \in Seq(Fds)
         /\ Len(clients') = Len(clients) - 1
         /\ \A j \in 1 .. k - 1 : clients'[j] = clients[j]
         /\ \A j \in k .. Len(clients) - 1 : clients'[j] = clients[j + 1]
         /\ Members(clients') = Members(clients) \ {clients[k]}
<1>1. clients \in Seq(Fds) /\ DOMAIN clients = 1 .. Len(clients)
  BY DEF TypeOK
<1>2. clients' = RemoveAt(clients, k)
  BY <1>1 DEF Erase
<1>3. /\ clients' \in Seq(Fds)
      /\ Len(clients') = Len(clients) - 1
      /\ \A j \in 1 .. k - 1 : clients'[j] = clients[j]
      /\ \A j \in k .. Len(clients) - 1 : clients'[j] = clients[j + 1]
  <2>1. /\ RemoveAt(clients, k) \in Seq(Fds)
        /\ Len(RemoveAt(clients, k)) = Len(clients) - 1
        /\ \A j \in 1 .. k - 1 : RemoveAt(clients, k)[j] = clients[j]
        /\ \A j \in k .. Len(clients) - 1 : RemoveAt(clients, k)[j] = clients[j + 1]
    BY <1>1, RemoveAtProperties
  <2> QED
    BY <1>2, <2>1
<1>4. DOMAIN clients' = 1 .. Len(clients) - 1
  BY <1>3, <1>1
<1>5. ASSUME NEW f \in Members(clients')
      PROVE  f \in Members(clients) /\ f # clients[k]
  <2>1. PICK j \in 1 .. Len(clients) - 1 : f = clients'[j]
    BY <1>4, <1>5 DEF Members
  <2>2. CASE j < k
    <3>1. f = clients[j] /\ j \in 1 .. Len(clients) /\ j # k
      BY <1>1, <1>3, <2>1, <2>2
    <3> QED
      BY <1>1, <3>1 DEF Members
  <2>3. CASE ~(j < k)
    <3>1. f = clients[j + 1] /\ j + 1 \in 1 .. Len(clients) /\ j + 1 # k
      BY <1>1, <1>3, <2>1, <2>3
    <3> QED
      BY <1>1, <3>1 DEF Members
  <2> QED
    BY <2>2, <2>3
<1>6. ASSUME NEW f \in Members(clients), f # clients[k]
      PROVE  f \in Members(clients')
  <2>1. PICK j \in 1 .. Len(clients) : f = clients[j]
    BY <1>1 DEF Members
  <2>2. CASE j < k
    <3>1. j \in 1 .. k - 1 /\ j \in 1 .. Len(clients) - 1 /\ clients'[j] = f
      BY <1>1, <1>3, <2>1, <2>2
    <3> QED
      BY <1>4, <3>1 DEF Members
  <2>3. CASE ~(j < k)
    <3>1. j # k
      BY <1>6, <2>1
    <3>2. j - 1 \in k .. Len(clients) - 1 /\ (j - 1) + 1 = j
      BY <1>1, <2>1, <2>3, <3>1
    <3>3. clients'[j - 1] = f
      BY <1>3, <2>1, <3>2
    <3> QED
      BY <1>4, <3>2, <3>3 DEF Members
  <2> QED
    BY <2>2, <2>3
<1> QED
  BY <1>3, <1>5, <1>6

LEMMA NextTyped ==
  ASSUME TypeOK, SessionTablesAgree, ReportHolds, [Next]_vars
  PROVE  TypeOK'
<1> USE FdAssumption DEF SrvState, Fds
<1>1. CASE UNCHANGED vars
  BY <1>1 DEF vars, cliVars, srvVars, TypeOK, CliTypeOK
<1>2. CASE EnvStep
  <2>1. CliTypeOK'
    BY <1>2, ClientStepTyped DEF EnvStep, TypeOK
  <2> QED
    BY <1>2, <2>1 DEF EnvStep, srvVars, TypeOK
<1>3. ASSUME Die PROVE TypeOK'
  <2>1. CliTypeOK'
    BY <1>3, CallsTyped DEF Die, TypeOK
  <2>2. owner' \in [Fds -> Clients \cup {NoClient}]
    BY <1>3 DEF Die
  <2> QED
    BY <1>3, <2>1, <2>2 DEF Die, TypeOK
<1>4. ASSUME UNCHANGED cliVars PROVE CliTypeOK'
  BY <1>4 DEF cliVars, TypeOK, CliTypeOK
<1>5. CASE Select
  BY <1>4, <1>5 DEF Select, TypeOK
<1>6. CASE Accept
  <2>1. CliTypeOK'
    BY <1>6, CallsTyped DEF Accept, TypeOK
  <2>2. Head(backlog) \in Clients
    BY <1>6, HeadTailProperties DEF Accept, TakeConnection, TypeOK, CliTypeOK
  <2>3. PICK f \in Fds : /\ owner' = [owner EXCEPT ![f] = Head(backlog)]
                         /\ clients' = Append(clients, f)
                         /\ allset' = allset \cup {f}
    BY <1>6 DEF Accept
  <2>4. clients' \in Seq(Fds)
    BY <2>3, AppendProperties DEF TypeOK
  <2>5. maxfd' \in Fds
    BY <1>6, <2>4, ElementOfSeq DEF Accept, Members
  <2>6. owner' \in [Fds -> Clients \cup {NoClient}] /\ allset' \in SUBSET (Fds \cup {ListenFd})
    BY <2>2, <2>3 DEF TypeOK
  <2> QED
    BY <1>6, <2>1, <2>4, <2>5, <2>6 DEF Accept, TypeOK
<1>7. CASE AcceptFails
  BY <1>3, <1>7 DEF AcceptFails
<1>8. CASE NothingToAccept
  BY <1>4, <1>8 DEF NothingToAccept, TypeOK
<1>9. CASE NotReady
  BY <1>4, <1>9 DEF NotReady, TypeOK
<1>10. CASE ReadEof
  <2>1. i \in 1 .. Len(clients) /\ connfd \in OpenFds
    BY <1>10, LoopFd DEF ReadEof
  <2>2. \A j, l \in DOMAIN clients : clients[j] = clients[l] => j = l
    BY <1>10 DEF ReadEof, InLoop, SessionTablesAgree, Running
  <2>3. clients' \in Seq(Fds)
    BY <1>10, <2>1, <2>2, EraseProperties DEF ReadEof, connfd
  <2>4. CliTypeOK'
    BY <1>10, CallsTyped DEF ReadEof, TypeOK
  <2>5. maxfd' \in Fds \cup {ListenFd}
    <3>1. CASE clients' = <<>>
      BY <1>10, <2>1, <3>1 DEF ReadEof, MaxfdAfterErase, OpenFds
    <3>2. CASE clients' # <<>>
      <4>1. maxfd' \in Members(clients')
        BY <1>10, <3>2 DEF ReadEof, MaxfdAfterErase
      <4> QED
        BY <2>3, <4>1, ElementOfSeq DEF Members
    <3> QED
      BY <3>1, <3>2
  <2>6. owner' \in [Fds -> Clients \cup {NoClient}]
    BY <1>10 DEF ReadEof, TypeOK
  <2>7. allset' \in SUBSET (Fds \cup {ListenFd})
    BY <1>10 DEF ReadEof, TypeOK
  <2>8. i' \in Nat \ {0} /\ UNCHANGED <<pc, readset, isRunning, buff>>
    BY <1>10 DEF ReadEof, TypeOK
  <2> QED
    BY <2>3, <2>4, <2>5, <2>6, <2>7, <2>8 DEF TypeOK
<1>11. CASE ReadError
  BY <1>3, <1>11 DEF ReadError
<1>12. CASE ReadStop
  <2>1. CliTypeOK'
    BY <1>12, CallsTyped DEF ReadStop, TypeOK
  <2>2. i' = i + 1 /\ UNCHANGED <<pc, owner, clients, allset, readset, maxfd, buff>>
    BY <1>12 DEF ReadStop
  <2>3. isRunning' \in BOOLEAN
    BY <1>12, Zenon DEF ReadStop
  <2> QED
    BY <2>1, <2>2, <2>3 DEF TypeOK
<1>13. CASE ReadLine
  <2>1. CliTypeOK'
    BY <1>13, CallsTyped DEF ReadLine, TypeOK
  <2>2. owner[connfd] \in Clients
    BY <1>13, LoopFd DEF ReadLine
  <2>3. buff' \in Seq(Lines)
    BY <1>13, <2>2 DEF ReadLine, TypeOK, CliTypeOK
  <2> QED
    BY <1>13, <2>1, <2>3 DEF ReadLine, TypeOK
<1>14. CASE Write
  <2>1. CliTypeOK'
    BY <1>14, CallsTyped DEF Write, TypeOK
  <2>2. buff' \in Seq(Lines)
    BY <1>14, EmptySeq DEF Write
  <2> QED
    BY <1>14, <2>1, <2>2 DEF Write, TypeOK
<1>15. CASE WriteError
  BY <1>3, <1>15 DEF WriteError
<1>16. CASE EndOfRound
  BY <1>4, <1>16 DEF EndOfRound, TypeOK
<1>17. CASE CloseConnections
  <2>1. CliTypeOK'
    BY <1>17, CallsTyped DEF CloseConnections, TypeOK
  <2>2. owner' \in [Fds -> Clients \cup {NoClient}]
    BY <1>17 DEF CloseConnections, TypeOK
  <2>3. clients' \in Seq(Fds)
    BY <1>17, EmptySeq DEF CloseConnections
  <2> QED
    BY <1>17, <2>1, <2>2, <2>3 DEF CloseConnections, TypeOK
<1>18. CASE CloseListener
  <2>1. CliTypeOK'
    BY <1>18, CallsTyped DEF CloseListener, TypeOK
  <2>2. owner' \in [Fds -> Clients \cup {NoClient}]
    BY <1>18 DEF CloseListener
  <2> QED
    BY <1>18, <2>1, <2>2 DEF CloseListener, TypeOK
<1> QED
  BY <1>1, <1>2, <1>5, <1>6, <1>7, <1>8, <1>9, <1>10, <1>11, <1>12, <1>13, <1>14,
     <1>15, <1>16, <1>17, <1>18 DEF Next, ServerStep

-----------------------------------------------------------------------------
(***************************************************************************)
(* What the steps do to the tables.                                        *)
(***************************************************************************)

\* Every server step but these leaves the tables and the queue alone.
LEMMA QuietStep ==
  ASSUME \/ Select \/ NothingToAccept \/ NotReady \/ ReadStop \/ ReadLine
         \/ Write \/ EndOfRound
  PROVE  /\ UNCHANGED <<owner, clients, allset, maxfd, cli, backlog>>
         /\ Running /\ Running'
BY DEF Select, NothingToAccept, NotReady, ReadStop, ReadLine, Write, EndOfRound, InLoop,
       Running, cliVars, TakeData, PutData

LEMMA DieEffect ==
  ASSUME Die
  PROVE  /\ ~Running' /\ pc' = "dead"
         /\ OpenFds' = {} /\ Sessions' = {}
         /\ cli' = cli /\ backlog' = <<>>
BY DEF Die, Running, OpenFds, Sessions, CloseAll

\* Accept opens one descriptor that was free, for the oldest connection.
LEMMA AcceptEffect ==
  ASSUME TypeOK, Accept
  PROVE  \E f \in Fds :
           /\ f \notin OpenFds /\ f # ListenFd
           /\ Head(backlog) \in Clients
           /\ owner' = [owner EXCEPT ![f] = Head(backlog)]
           /\ OpenFds' = OpenFds \cup {f}
           /\ Sessions' = Sessions \cup {Head(backlog)}
           /\ clients' = Append(clients, f)
           /\ Members(clients') = Members(clients) \cup {f}
           /\ allset' = allset \cup {f}
<1>1. PICK f \in Fds : /\ LowestFree(f)
                       /\ owner' = [owner EXCEPT ![f] = Head(backlog)]
                       /\ clients' = Append(clients, f)
                       /\ allset' = allset \cup {f}
  BY DEF Accept
<1>2. Head(backlog) \in Clients
  BY HeadTailProperties DEF Accept, TakeConnection, TypeOK, CliTypeOK
<1>3. owner[f] = NoClient /\ f \notin OpenFds
  BY <1>1 DEF LowestFree, OpenFds
<1>4. OpenFds' = OpenFds \cup {f}
  BY <1>1, <1>2, <1>3, FdAssumption DEF OpenFds, TypeOK
<1>5. \A g \in OpenFds : owner'[g] = owner[g]
  BY <1>1, <1>3 DEF OpenFds, TypeOK
<1>6. owner'[f] = Head(backlog)
  BY <1>1 DEF TypeOK
<1>7. Sessions' = Sessions \cup {Head(backlog)}
  BY <1>4, <1>5, <1>6 DEF Sessions
<1>8. f # ListenFd
  BY FdAssumption DEF Fds
<1>9. Members(clients') = Members(clients) \cup {f}
  <2>1. clients \in Seq(Fds)
    BY DEF TypeOK
  <2>2. /\ DOMAIN clients = 1 .. Len(clients)
        /\ DOMAIN clients' = 1 .. Len(clients) + 1
        /\ \A j \in 1 .. Len(clients) : clients'[j] = clients[j]
        /\ clients'[Len(clients) + 1] = f
    BY <1>1, <2>1, AppendProperties
  <2>3. Len(clients) \in Nat
    BY <2>1
  <2> QED
    BY <2>2, <2>3 DEF Members
<1> QED
  BY <1>1, <1>2, <1>3, <1>4, <1>7, <1>8, <1>9

\* ReadEof closes the descriptor the loop looks at and erases it.
LEMMA ReadEofEffect ==
  ASSUME TypeOK, SessionTablesAgree, ReportHolds, ReadEof
  PROVE  /\ i \in 1 .. Len(clients)
         /\ connfd \in OpenFds
         /\ OpenFds' = OpenFds \ {connfd}
         /\ Sessions' \subseteq Sessions
         /\ \A f \in OpenFds' : owner'[f] = owner[f]
         /\ clients' \in Seq(Fds) /\ Len(clients') = Len(clients) - 1
         /\ \A j \in 1 .. i - 1 : clients'[j] = clients[j]
         /\ \A j \in i .. Len(clients) - 1 : clients'[j] = clients[j + 1]
         /\ Members(clients') = Members(clients) \ {connfd}
         /\ allset' = allset \ {connfd}
<1>1. i \in 1 .. Len(clients) /\ connfd \in OpenFds
  BY LoopFd DEF ReadEof
<1>2. \A j, l \in DOMAIN clients : clients[j] = clients[l] => j = l
  BY DEF ReadEof, InLoop, SessionTablesAgree, Running
<1>3. Erase(clients[i])
  BY DEF ReadEof, connfd
<1>4. OpenFds' = OpenFds \ {connfd}
  BY <1>1 DEF ReadEof, OpenFds, TypeOK
<1>5. \A f \in OpenFds' : owner'[f] = owner[f]
  BY <1>1, <1>4 DEF ReadEof, OpenFds, TypeOK
<1>6. Sessions' \subseteq Sessions
  BY <1>4, <1>5 DEF Sessions
<1>7. /\ clients' \in Seq(Fds) /\ Len(clients') = Len(clients) - 1
      /\ \A j \in 1 .. i - 1 : clients'[j] = clients[j]
      /\ \A j \in i .. Len(clients) - 1 : clients'[j] = clients[j + 1]
      /\ Members(clients') = Members(clients) \ {connfd}
  BY <1>1, <1>2, <1>3, EraseProperties DEF connfd
<1> QED
  BY <1>1, <1>4, <1>5, <1>6, <1>7 DEF ReadEof

-----------------------------------------------------------------------------
(***************************************************************************)
(* The tables of sessions.                                                 *)
(***************************************************************************)

LEMMA NextTables ==
  ASSUME TypeOK, SessionTablesAgree, Connected(Sessions), ReportHolds, [Next]_vars
  PROVE  SessionTablesAgree'
<1>1. ASSUME UNCHANGED <<owner, clients, allset>>, Running' => Running
      PROVE  SessionTablesAgree'
  BY <1>1 DEF SessionTablesAgree, OpenFds, Members
<1>2. ASSUME ~Running' PROVE SessionTablesAgree'
  BY <1>2 DEF SessionTablesAgree
<1>3. CASE EnvStep \/ UNCHANGED vars
  BY <1>1, <1>3 DEF EnvStep, vars, srvVars, Running
<1>4. CASE \/ Select \/ NothingToAccept \/ NotReady \/ ReadStop \/ ReadLine
           \/ Write \/ EndOfRound
  BY <1>1, <1>4, QuietStep
<1>5. CASE AcceptFails \/ ReadError \/ WriteError
  BY <1>2, <1>5, DieEffect DEF AcceptFails, ReadError, WriteError
<1>6. CASE CloseConnections \/ CloseListener
  BY <1>2, <1>6 DEF CloseConnections, CloseListener, Running
<1>7. CASE Accept
  <2>1. PICK f \in Fds :
          /\ f \notin OpenFds /\ f # ListenFd
          /\ owner' = [owner EXCEPT ![f] = Head(backlog)]
          /\ OpenFds' = OpenFds \cup {f}
          /\ clients' = Append(clients, f)
          /\ Members(clients') = Members(clients) \cup {f}
          /\ allset' = allset \cup {f}
    BY <1>7, AcceptEffect
  <2>2. /\ Members(clients) = OpenFds
        /\ \A j, k \in DOMAIN clients : clients[j] = clients[k] => j = k
        /\ allset = OpenFds \cup {ListenFd}
        /\ \A g, h \in OpenFds : owner[g] = owner[h] => g = h
    BY <1>7 DEF SessionTablesAgree, Running, Accept
  <2>3. \A j, k \in DOMAIN clients' : clients'[j] = clients'[k] => j = k
    <3>1. clients \in Seq(Fds)
      BY DEF TypeOK
    <3>2. /\ DOMAIN clients = 1 .. Len(clients) /\ Len(clients) \in Nat
          /\ DOMAIN clients' = 1 .. Len(clients) + 1
          /\ \A j \in 1 .. Len(clients) : clients'[j] = clients[j]
          /\ clients'[Len(clients) + 1] = f
      BY <2>1, <3>1, AppendProperties
    <3>3. \A j \in 1 .. Len(clients) : clients[j] # f
      BY <2>1, <2>2, <3>2 DEF Members
    <3> QED
      BY <2>2, <3>2, <3>3
  <2>4. \A g \in OpenFds : owner[g] # Head(backlog)
    <3>1. Head(backlog) \in Clients /\ InBacklog(Head(backlog))
      BY <1>7, QueueShrinks DEF Accept, TakeConnection, TypeOK, Connected
    <3>2. Head(backlog) \notin Sessions
      BY <3>1 DEF Connected, Connection, QueuedConnection
    <3> QED
      BY <3>2 DEF Sessions
  <2>5. \A g, h \in OpenFds' : owner'[g] = owner'[h] => g = h
    BY <2>1, <2>2, <2>4 DEF OpenFds, TypeOK
  <2> QED
    BY <2>1, <2>2, <2>3, <2>5 DEF SessionTablesAgree
<1>8. CASE ReadEof
  <2>1. /\ Members(clients) = OpenFds
        /\ \A j, k \in DOMAIN clients : clients[j] = clients[k] => j = k
        /\ allset = OpenFds \cup {ListenFd}
        /\ \A g, h \in OpenFds : owner[g] = owner[h] => g = h
    BY <1>8 DEF SessionTablesAgree, Running, ReadEof, InLoop
  <2>2. /\ i \in 1 .. Len(clients)
        /\ connfd \in OpenFds
        /\ OpenFds' = OpenFds \ {connfd}
        /\ \A f \in OpenFds' : owner'[f] = owner[f]
        /\ clients' \in Seq(Fds) /\ Len(clients') = Len(clients) - 1
        /\ \A j \in 1 .. i - 1 : clients'[j] = clients[j]
        /\ \A j \in i .. Len(clients) - 1 : clients'[j] = clients[j + 1]
        /\ Members(clients') = Members(clients) \ {connfd}
        /\ allset' = allset \ {connfd}
    BY <1>8, ReadEofEffect
  <2>3. connfd # ListenFd
    BY <2>2, FdAssumption DEF OpenFds, Fds
  <2>4. \A j, k \in DOMAIN clients' : clients'[j] = clients'[k] => j = k
    <3> DEFINE old(j) == IF j < i THEN j ELSE j + 1
    <3>1. DOMAIN clients = 1 .. Len(clients) /\ Len(clients) \in Nat
      BY DEF TypeOK
    <3>2. DOMAIN clients' = 1 .. Len(clients) - 1
      BY <2>2, <3>1
    <3>3. ASSUME NEW j \in DOMAIN clients'
          PROVE  old(j) \in DOMAIN clients /\ clients'[j] = clients[old(j)]
      BY <2>2, <3>1, <3>2
    <3>4. ASSUME NEW j \in DOMAIN clients', NEW k \in DOMAIN clients', old(j) = old(k)
          PROVE  j = k
      BY <2>2, <3>1, <3>2, <3>4
    <3> HIDE DEF old
    <3> QED
      BY <2>1, <3>3, <3>4
  <2>5. \A g, h \in OpenFds' : owner'[g] = owner'[h] => g = h
    BY <2>1, <2>2
  <2> QED
    BY <2>1, <2>2, <2>3, <2>4, <2>5 DEF SessionTablesAgree
<1> QED
  BY <1>3, <1>4, <1>5, <1>6, <1>7, <1>8 DEF Next, ServerStep

-----------------------------------------------------------------------------
(***************************************************************************)
(* The connections.                                                        *)
(***************************************************************************)

\* The session the loop reads or answers.
LEMMA LoopSession ==
  ASSUME TypeOK, SessionTablesAgree, ReportHolds, InLoop \/ pc = "write"
  PROVE  owner[connfd] \in Sessions \cap Clients
BY LoopFd DEF Sessions

LEMMA NextConnected ==
  ASSUME TypeOK, SessionTablesAgree, Connected(Sessions), ReportHolds, [Next]_vars
  PROVE  Connected(Sessions)'
<1>1. PICK S : S = Sessions
  OBVIOUS
<1>2. PICK T : T = Sessions'
  OBVIOUS
<1>3. CliTypeOK /\ Connected(S)
  BY <1>1 DEF TypeOK
<1> SUFFICES Connected(T)'
  BY <1>2 DEF Connected
<1>4. T = S /\ UNCHANGED cliVars => Connected(T)'
  BY <1>3, ConnectedCalls
<1>5. UNCHANGED owner => T = S
  BY <1>1, <1>2 DEF Sessions, OpenFds
<1>6. Sessions \subseteq Clients
  BY DEF Sessions, OpenFds, TypeOK
<1>7. CASE UNCHANGED vars
  BY <1>4, <1>5, <1>7 DEF vars, srvVars
<1>8. CASE EnvStep
  <2>1. T = S
    BY <1>5, <1>8 DEF EnvStep, srvVars
  <2>2. Connected(S)'
    BY <1>3, <1>8, ConnectedClientStep DEF EnvStep
  <2> QED
    BY <2>1, <2>2
<1>9. CASE Select \/ NothingToAccept \/ NotReady \/ EndOfRound
  BY <1>4, <1>5, <1>9 DEF Select, NothingToAccept, NotReady, EndOfRound
<1>10. CASE Accept
  <2>1. T = S \cup {Head(backlog)}
    BY <1>1, <1>2, <1>10, AcceptEffect
  <2> QED
    BY <1>3, <1>10, <2>1, ConnectedCalls DEF Accept
<1>11. CASE AcceptFails \/ ReadError \/ WriteError
  <2>1. CloseAll(S) /\ T = S \ S
    BY <1>1, <1>2, <1>11, DieEffect DEF AcceptFails, ReadError, WriteError, Die
  <2> QED
    BY <1>3, <2>1, ConnectedCalls
<1>12. CASE ReadEof
  <2>1. owner[connfd] \in S
    BY <1>1, <1>12, LoopSession DEF ReadEof
  <2>2. T = S \ {owner[connfd]}
    <3>1. /\ connfd \in OpenFds /\ OpenFds' = OpenFds \ {connfd}
          /\ \A f \in OpenFds' : owner'[f] = owner[f]
      BY <1>12, ReadEofEffect
    <3>2. \A f, g \in OpenFds : owner[f] = owner[g] => f = g
      BY <1>12 DEF ReadEof, InLoop, SessionTablesAgree, Running
    <3> QED
      BY <1>1, <1>2, <3>1, <3>2 DEF Sessions
  <2> QED
    BY <1>3, <1>12, <2>1, <2>2, ConnectedCalls DEF ReadEof
<1>13. CASE ReadStop \/ ReadLine
  <2>1. owner[connfd] \in S \cap Clients /\ T = S
    BY <1>1, <1>5, <1>13, LoopSession DEF ReadStop, ReadLine
  <2> QED
    BY <1>3, <1>13, <2>1, ConnectedCalls DEF ReadStop, ReadLine
<1>14. CASE Write
  <2>1. owner[connfd] \in S \cap Clients /\ T = S
    BY <1>1, <1>5, <1>14, LoopSession DEF Write
  <2> QED
    BY <1>3, <1>14, <2>1, ConnectedCalls DEF Write
<1>15. CASE CloseConnections
  <2>1. {owner[f] : f \in Members(clients)} \ {NoClient} = S
    <3>1. Members(clients) = OpenFds
      BY <1>15 DEF CloseConnections, SessionTablesAgree, Running
    <3>2. NoClient \notin Sessions
      BY DEF Sessions, OpenFds
    <3> QED
      BY <1>1, <3>1, <3>2 DEF Sessions
  <2>2. T = S \ S
    <3>1. Members(clients) = OpenFds
      BY <1>15 DEF CloseConnections, SessionTablesAgree, Running
    <3>2. OpenFds' = {}
      BY <1>15, <3>1 DEF CloseConnections, OpenFds
    <3> QED
      BY <1>2, <3>2 DEF Sessions
  <2>3. CloseEnds(S)
    BY <1>15, <2>1 DEF CloseConnections
  <2> QED
    BY <1>3, <2>2, <2>3, ConnectedCalls
<1>16. CASE CloseListener
  <2>1. CloseAll(S) /\ T = S \ S
    BY <1>1, <1>2, <1>16 DEF CloseListener, Sessions, OpenFds
  <2> QED
    BY <1>3, <2>1, ConnectedCalls
<1> QED
  BY <1>7, <1>8, <1>9, <1>10, <1>11, <1>12, <1>13, <1>14, <1>15, <1>16
     DEF Next, ServerStep

-----------------------------------------------------------------------------
(***************************************************************************)
(* The bound for select().                                                 *)
(***************************************************************************)

LEMMA NextMaxfd ==
  ASSUME TypeOK, SessionTablesAgree, MaxfdCovers, ReportHolds, [Next]_vars,
         SessionTablesAgree', TypeOK'
  PROVE  MaxfdCovers'
<1>1. ASSUME UNCHANGED <<owner, maxfd>>, Running' => Running
      PROVE  MaxfdCovers'
  BY <1>1 DEF MaxfdCovers, OpenFds
<1>2. ASSUME ~Running' PROVE MaxfdCovers'
  BY <1>2 DEF MaxfdCovers
<1>3. \A f \in Fds : ListenFd <= f
  BY FdAssumption DEF Fds
<1>4. CASE EnvStep \/ UNCHANGED vars
  BY <1>1, <1>4 DEF EnvStep, vars, srvVars, Running
<1>5. CASE \/ Select \/ NothingToAccept \/ NotReady \/ ReadStop \/ ReadLine
           \/ Write \/ EndOfRound
  BY <1>1, <1>5, QuietStep
<1>6. CASE AcceptFails \/ ReadError \/ WriteError
  BY <1>2, <1>6, DieEffect DEF AcceptFails, ReadError, WriteError
<1>7. CASE CloseConnections \/ CloseListener
  BY <1>2, <1>7 DEF CloseConnections, CloseListener, Running
<1>8. ASSUME Running', IsMaxOf(maxfd', Members(clients')) PROVE MaxfdCovers'
  <2>1. Members(clients') = OpenFds'
    BY <1>8 DEF SessionTablesAgree
  <2>2. maxfd' \in OpenFds' /\ \A f \in OpenFds' : f <= maxfd'
    BY <1>8, <2>1 DEF IsMaxOf
  <2>3. ListenFd <= maxfd'
    BY <1>3, <2>2 DEF OpenFds
  <2> QED
    BY <2>2, <2>3 DEF MaxfdCovers
<1>9. CASE Accept
  <2>1. IsMaxOf(maxfd', Members(clients'))
    BY <1>9 DEF Accept
  <2>2. Running'
    BY <1>9 DEF Accept, Running
  <2> QED
    BY <1>8, <2>1, <2>2
<1>10. CASE ReadEof
  <2>1. Running' /\ connfd \in OpenFds
    BY <1>10, ReadEofEffect DEF ReadEof, InLoop, Running
  <2>2. CASE clients' = <<>>
    <3>1. maxfd' = connfd
      BY <1>10, <2>2 DEF ReadEof, MaxfdAfterErase
    <3>2. OpenFds' = {}
      BY <2>1, <2>2 DEF SessionTablesAgree, Members
    <3>3. ListenFd <= maxfd'
      BY <1>3, <2>1, <3>1 DEF OpenFds
    <3> QED
      BY <3>2, <3>3 DEF MaxfdCovers
  <2>3. CASE clients' # <<>>
    <3>1. IsMaxOf(maxfd', Members(clients'))
      BY <1>10, <2>3 DEF ReadEof, MaxfdAfterErase
    <3> QED
      BY <1>8, <2>1, <3>1
  <2> QED
    BY <2>2, <2>3
<1> QED
  BY <1>4, <1>5, <1>6, <1>7, <1>9, <1>10 DEF Next, ServerStep

-----------------------------------------------------------------------------
(***************************************************************************)
(* What select() reported.                                                 *)
(***************************************************************************)

LEMMA NextReport ==
  ASSUME TypeOK, SessionTablesAgree, ReportHolds, [Next]_vars
  PROVE  ReportHolds'
<1>1. ASSUME pc' \notin {"accept", "scan", "write"} PROVE ReportHolds'
  BY <1>1 DEF ReportHolds
<1>2. CASE UNCHANGED vars
  BY <1>2 DEF vars, cliVars, srvVars, ReportHolds, StillReady, OpenFds, Readable
<1>3. CASE EnvStep
  <2>1. PICK c \in Clients : ClientStep(c)
    BY <1>3 DEF EnvStep
  <2>2. UNCHANGED <<pc, owner, clients, readset, i>> /\ OpenFds' = OpenFds
    BY <1>3 DEF EnvStep, srvVars, OpenFds
  <2>3. \A d \in Clients : Readable(d) => Readable(d)'
    BY <2>1, ClientStepEffect DEF TypeOK
  <2>4. backlog # <<>> => backlog' # <<>>
    <3>1. backlog \in Seq(Clients)
      BY DEF TypeOK, CliTypeOK
    <3>2. Append(backlog, c) # <<>>
      BY <3>1, AppendProperties
    <3> QED
      BY <2>1, <3>2, ClientStepEffect DEF TypeOK
  <2>5. CASE pc = "accept"
    <3>1. \A f \in OpenFds : owner[f] \in Clients /\ owner'[f] = owner[f]
      BY <2>2 DEF OpenFds, TypeOK
    <3>2. \A f \in OpenFds : Readable(owner[f]) => Readable(owner[f])'
      BY <2>2, <2>3, <3>1 DEF Readable
    <3> QED
      BY <2>2, <2>4, <2>5, <3>2 DEF ReportHolds
  <2>6. CASE pc \in {"scan", "write"}
    <3>1. Members(clients) = OpenFds
      BY <2>6 DEF SessionTablesAgree, Running
    <3>2. \A j \in 1 .. Len(clients) : owner[clients[j]] \in Clients
      BY <3>1 DEF Members, OpenFds, TypeOK
    <3>3. \A j \in 1 .. Len(clients) :
            Readable(owner[clients[j]]) => Readable(owner[clients[j]])'
      BY <2>2, <2>3, <3>2 DEF Readable
    <3>4. i \in Nat \ {0} /\ Len(clients) \in Nat
      BY DEF TypeOK
    <3>5. ASSUME NEW first \in Nat \ {0}, StillReady(first) PROVE StillReady(first)'
      BY <2>2, <3>3, <3>4, <3>5 DEF StillReady
    <3> QED
      BY <2>2, <2>6, <3>4, <3>5 DEF ReportHolds
  <2> QED
    BY <1>1, <2>2, <2>5, <2>6
<1>4. CASE Select
  <2>1. readset' = {f \in allset : f <= maxfd /\ FdReady(f)} /\ pc' = "accept"
        /\ UNCHANGED <<owner, inbox, peer, backlog>>
    BY <1>4 DEF Select, cliVars
  <2>2. allset = OpenFds \cup {ListenFd}
    BY <1>4 DEF Select, SessionTablesAgree, Running
  <2>3. OpenFds' = OpenFds
    BY <2>1 DEF OpenFds
  <2>4. ListenFd \in readset' => backlog' # <<>>
    BY <2>1 DEF FdReady
  <2>5. ASSUME NEW f \in readset' \ {ListenFd}
        PROVE  f \in OpenFds' /\ Readable(owner[f])'
    <3>1. f \in OpenFds /\ Readable(owner[f])
      BY <2>1, <2>2, <2>5 DEF FdReady
    <3> QED
      BY <2>1, <2>3, <3>1 DEF Readable
  <2> QED
    BY <2>1, <2>4, <2>5 DEF ReportHolds
<1>5. CASE Accept
  <2>1. PICK f \in Fds :
          /\ f \notin OpenFds /\ f # ListenFd
          /\ owner' = [owner EXCEPT ![f] = Head(backlog)]
          /\ clients' = Append(clients, f)
    BY <1>5, AcceptEffect
  <2>2. pc = "accept" /\ pc' = "scan" /\ i' = 1 /\ UNCHANGED <<readset, inbox, peer>>
    BY <1>5 DEF Accept, TakeConnection
  <2>3. \A g \in readset \ {ListenFd} : g \in OpenFds /\ Readable(owner[g])
    BY <2>2 DEF ReportHolds
  <2>4. Members(clients) = OpenFds
    BY <2>2 DEF SessionTablesAgree, Running
  <2>5. clients \in Seq(Fds)
    BY DEF TypeOK
  <2>6. /\ Len(clients') = Len(clients) + 1 /\ Len(clients) \in Nat
        /\ \A j \in 1 .. Len(clients) : clients'[j] = clients[j]
        /\ clients'[Len(clients) + 1] = f
    BY <2>1, <2>5, AppendProperties
  <2>7. ASSUME NEW j \in 1 .. Len(clients'), clients'[j] \in readset'
        PROVE  Readable(owner[clients[j]])'
    <3>1. clients'[j] # f
      BY <2>1, <2>2, <2>3, <2>7
    <3>2. j \in 1 .. Len(clients) /\ clients'[j] = clients[j]
      BY <2>6, <3>1
    <3>3. clients[j] \in OpenFds
      BY <2>4, <2>5, <3>2 DEF Members
    <3>4. clients[j] # ListenFd
      BY <3>3, FdAssumption DEF OpenFds, Fds
    <3>5. Readable(owner[clients[j]])
      BY <2>2, <2>3, <2>7, <3>2, <3>4
    <3>6. owner'[clients'[j]] = owner[clients[j]]
      BY <2>1, <3>2, <3>3 DEF OpenFds, TypeOK
    <3> QED
      BY <2>2, <3>5, <3>6 DEF Readable
  <2> QED
    BY <2>2, <2>7 DEF ReportHolds, StillReady
<1>6. CASE NothingToAccept
  <2>1. /\ pc = "accept" /\ pc' = "scan" /\ i' = 1
        /\ UNCHANGED <<owner, clients, readset, inbox, peer>>
    BY <1>6 DEF NothingToAccept, cliVars
  <2>2. \A g \in readset \ {ListenFd} : Readable(owner[g])
    BY <2>1 DEF ReportHolds
  <2>3. \A j \in 1 .. Len(clients) : clients[j] \in Fds /\ clients[j] # ListenFd
    BY FdAssumption DEF TypeOK, Fds
  <2> QED
    BY <2>1, <2>2, <2>3 DEF ReportHolds, StillReady, Readable
<1>7. CASE NotReady
  <2>1. /\ pc = "scan" /\ pc' = "scan" /\ i' = i + 1
        /\ UNCHANGED <<owner, clients, readset, inbox, peer>>
    BY <1>7 DEF NotReady, InLoop, cliVars
  <2>2. StillReady(i) /\ i \in Nat \ {0} /\ Len(clients) \in Nat
    BY <2>1 DEF ReportHolds, TypeOK
  <2> QED
    BY <2>1, <2>2 DEF ReportHolds, StillReady, Readable
<1>8. ASSUME InLoop \/ pc = "write",
             UNCHANGED <<owner, clients, readset>>,
             \A d \in Clients : d # owner[connfd] /\ Readable(d) => Readable(d)',
             StillReady(i + 1)
      PROVE  /\ i \in Nat \ {0} /\ i <= Len(clients)
             /\ \A j \in i + 1 .. Len(clients) :
                  clients'[j] \in readset' => Readable(owner[clients[j]])'
  <2>1. /\ i \in 1 .. Len(clients) /\ connfd \in OpenFds
        /\ DOMAIN clients = 1 .. Len(clients) /\ Len(clients) \in Nat
    BY <1>8, LoopFd DEF TypeOK
  <2>2. /\ Members(clients) = OpenFds
        /\ \A j, k \in DOMAIN clients : clients[j] = clients[k] => j = k
        /\ \A f, g \in OpenFds : owner[f] = owner[g] => f = g
    BY <1>8 DEF SessionTablesAgree, Running, InLoop
  <2>3. ASSUME NEW j \in i + 1 .. Len(clients), clients'[j] \in readset'
        PROVE  Readable(owner[clients[j]])'
    <3>1. j \in DOMAIN clients /\ j # i /\ i \in DOMAIN clients
      BY <2>1
    <3>2. clients[j] \in OpenFds /\ clients[j] # connfd
      BY <2>1, <2>2, <3>1 DEF Members, connfd
    <3>3. owner[clients[j]] # owner[connfd] /\ owner[clients[j]] \in Clients
      BY <2>1, <2>2, <3>2 DEF OpenFds, TypeOK
    <3>4. Readable(owner[clients[j]])
      BY <1>8, <2>3 DEF StillReady
    <3> QED
      BY <1>8, <3>3, <3>4 DEF Readable
  <2> QED
    BY <2>1, <2>3
<1>9. CASE ReadStop \/ ReadLine
  <2>1. /\ InLoop /\ UNCHANGED <<owner, clients, readset>>
        /\ \/ pc' = "scan" /\ i' = i + 1
           \/ pc' = "write" /\ i' = i
    BY <1>9 DEF ReadStop, ReadLine, InLoop
  <2>2. inbox' = [inbox EXCEPT ![owner[connfd]] = <<>>] /\ peer' = peer
    BY <1>9 DEF ReadStop, ReadLine, TakeData
  <2>3. \A d \in Clients : d # owner[connfd] /\ Readable(d) => Readable(d)'
    BY <2>2 DEF Readable, TypeOK, CliTypeOK
  <2>4. StillReady(i + 1)
    BY <2>1 DEF ReportHolds, InLoop, StillReady, TypeOK
  <2>5. /\ i \in Nat \ {0} /\ i <= Len(clients)
        /\ \A j \in i + 1 .. Len(clients) :
             clients'[j] \in readset' => Readable(owner[clients[j]])'
    BY <1>8, <2>1, <2>3, <2>4
  <2> QED
    BY <2>1, <2>5 DEF ReportHolds, StillReady
<1>10. CASE Write
  <2>1. /\ pc = "write" /\ pc' = "scan" /\ i' = i + 1
        /\ UNCHANGED <<owner, clients, readset>>
    BY <1>10 DEF Write
  <2>2. \A d \in Clients : Readable(d) => Readable(d)'
    BY <1>10 DEF Write, PutData, Readable, TypeOK, CliTypeOK, PeerState
  <2>3. StillReady(i + 1)
    BY <2>1 DEF ReportHolds
  <2>4. \A j \in i + 1 .. Len(clients) :
          clients'[j] \in readset' => Readable(owner[clients[j]])'
    BY <1>8, <2>1, <2>2, <2>3
  <2> QED
    BY <2>1, <2>4 DEF ReportHolds, StillReady
<1>11. CASE ReadEof
  <2>1. pc' = "scan" /\ i' = i + 1 /\ readset' = readset /\ StillReady(i)
    BY <1>11 DEF ReadEof, InLoop, ReportHolds
  <2>2. /\ i \in 1 .. Len(clients)
        /\ connfd \in OpenFds
        /\ OpenFds' = OpenFds \ {connfd}
        /\ \A f \in OpenFds' : owner'[f] = owner[f]
        /\ Len(clients') = Len(clients) - 1
        /\ \A j \in i .. Len(clients) - 1 : clients'[j] = clients[j + 1]
        /\ Members(clients') = Members(clients) \ {connfd}
        /\ clients' \in Seq(Fds)
    BY <1>11, ReadEofEffect
  <2>3. /\ Members(clients) = OpenFds
        /\ \A f, g \in OpenFds : owner[f] = owner[g] => f = g
    BY <1>11 DEF ReadEof, InLoop, SessionTablesAgree, Running
  <2>4. /\ peer' = peer
        /\ \A d \in Clients : d # owner[connfd] => inbox'[d] = inbox[d]
    BY <1>11 DEF ReadEof, CloseEnds
  <2>5. ASSUME NEW j \in i + 1 .. Len(clients'), clients'[j] \in readset'
        PROVE  Readable(owner[clients[j]])'
    <3>1. j \in i .. Len(clients) - 1 /\ j + 1 \in i .. Len(clients) /\ j \in DOMAIN clients'
      BY <2>2
    <3>2. clients'[j] = clients[j + 1] /\ clients'[j] \in OpenFds'
      BY <2>2, <2>3, <3>1 DEF Members
    <3>3. Readable(owner[clients[j + 1]])
      BY <2>1, <2>5, <3>1, <3>2 DEF StillReady
    <3>4. /\ owner'[clients'[j]] = owner[clients[j + 1]]
          /\ owner[clients[j + 1]] \in Clients
          /\ owner[clients[j + 1]] # owner[connfd]
      BY <2>2, <2>3, <3>2 DEF OpenFds, TypeOK
    <3> QED
      BY <2>4, <3>3, <3>4 DEF Readable
  <2> QED
    BY <2>1, <2>5 DEF ReportHolds, StillReady
<1>12. CASE AcceptFails \/ ReadError \/ WriteError
  BY <1>1, <1>12, DieEffect DEF AcceptFails, ReadError, WriteError
<1>13. CASE EndOfRound \/ CloseConnections \/ CloseListener
  BY <1>1, <1>13 DEF EndOfRound, CloseConnections, CloseListener
<1> QED
  BY <1>2, <1>3, <1>4, <1>5, <1>6, <1>7, <1>9, <1>10, <1>11, <1>12, <1>13 DEF Next, ServerStep

-----------------------------------------------------------------------------
(***************************************************************************)
(* The line in the server's hands.                                         *)
(***************************************************************************)

LEMMA NextInHand ==
  ASSUME InHand, [Next]_vars
  PROVE  InHand'
<1>1. CASE EnvStep \/ UNCHANGED vars
  BY <1>1 DEF EnvStep, vars, srvVars, InHand
<1>2. CASE ReadLine
  BY <1>2 DEF ReadLine, TakeData, InHand
<1>3. CASE ServerStep /\ ~ReadLine
  <2>1. pc' # "write"
    BY <1>3 DEF ServerStep, Select, Accept, AcceptFails, NothingToAccept, NotReady,
                ReadEof, ReadError, ReadStop, Write, WriteError, EndOfRound,
                CloseConnections, CloseListener, Die, InLoop
  <2> QED
    BY <2>1 DEF InHand
<1> QED
  BY <1>1, <1>2, <1>3 DEF Next

LEMMA NextOneAtATime ==
  ASSUME TypeOK, SessionTablesAgree, Connected(Sessions), ReportHolds, InHand,
         OneAtATime, [Next]_vars
  PROVE  OneAtATime'
<1> SUFFICES ASSUME NEW c \in Clients \ Eager
             PROVE  Waiting(c, InService(c))'
  BY DEF OneAtATime
<1>1. PICK held : held = InService(c)
  OBVIOUS
<1>2. PICK new : new = InService(c)'
  OBVIOUS
<1> SUFFICES Waiting(c, new)'
  BY <1>2 DEF Waiting, OneLineUnderWay
<1>3. CliTypeOK /\ Waiting(c, held)
  BY <1>1 DEF TypeOK, OneAtATime
<1>4. pc # "write" => held = <<>>
  BY <1>1 DEF InService
<1>5. pc' # "write" => new = <<>>
  BY <1>2 DEF InService
<1>6. TakeConnection \/ UNCHANGED cliVars => Waiting(c, held)'
  BY <1>3, WaitingCalls
<1>7. CASE UNCHANGED vars
  <2>1. new = held
    BY <1>1, <1>2, <1>7 DEF vars, srvVars, InService, connfd
  <2> QED
    BY <1>6, <1>7, <2>1 DEF vars
<1>8. CASE EnvStep
  <2>1. new = held
    BY <1>1, <1>2, <1>8 DEF EnvStep, srvVars, InService, connfd
  <2>2. LeftConnection(c)
    BY DEF Connected, Connection
  <2> QED
    BY <1>3, <1>8, <2>1, <2>2, WaitingClientStep DEF EnvStep
<1>9. CASE Select \/ NothingToAccept \/ NotReady \/ EndOfRound
  <2>1. held = <<>> /\ new = <<>> /\ UNCHANGED cliVars
    BY <1>4, <1>5, <1>9 DEF Select, NothingToAccept, NotReady, EndOfRound, InLoop
  <2> QED
    BY <1>6, <2>1
<1>10. CASE Accept
  <2>1. held = <<>> /\ new = <<>> /\ TakeConnection
    BY <1>4, <1>5, <1>10 DEF Accept
  <2> QED
    BY <1>6, <2>1
<1>11. CASE AcceptFails \/ ReadError \/ WriteError \/ CloseListener
  <2>1. new = <<>> /\ CloseAll(Sessions)
    BY <1>5, <1>11 DEF AcceptFails, ReadError, WriteError, CloseListener, Die
  <2> QED
    BY <1>3, <2>1, WaitingCalls
<1>12. CASE ReadEof
  <2>1. new = <<>> /\ CloseEnds({owner[connfd]})
    BY <1>5, <1>12 DEF ReadEof, InLoop
  <2> QED
    BY <1>3, <2>1, WaitingCalls
<1>13. CASE CloseConnections
  <2>1. new = <<>> /\ \E cs : CloseEnds(cs)
    BY <1>5, <1>13 DEF CloseConnections
  <2> QED
    BY <1>3, <2>1, WaitingCalls
<1>14. CASE ReadStop
  <2>1. held = <<>> /\ new = <<>> /\ TakeData(owner[connfd])
    BY <1>4, <1>5, <1>14 DEF ReadStop, InLoop
  <2> QED
    BY <1>3, <2>1, WaitingCalls
<1>15. CASE ReadLine
  <2>1. held = <<>> /\ TakeData(owner[connfd])
    BY <1>4, <1>15 DEF ReadLine, InLoop
  <2>2. new = IF owner[connfd] = c THEN inbox[c] ELSE <<>>
    BY <1>2, <1>15 DEF ReadLine, InService, connfd
  <2>3. CASE owner[connfd] = c
    BY <1>3, <2>1, <2>2, <2>3, WaitingCalls
  <2>4. CASE owner[connfd] # c
    BY <1>3, <2>1, <2>2, <2>4, WaitingCalls
  <2> QED
    BY <2>3, <2>4
<1>16. CASE Write
  <2>1. new = <<>> /\ PutData(owner[connfd], buff)
    BY <1>5, <1>16 DEF Write
  <2>2. held = IF owner[connfd] = c THEN buff ELSE <<>>
    BY <1>1, <1>16 DEF Write, InService
  <2>3. CASE owner[connfd] = c
    <3>1. held # <<>> /\ PutData(c, held)
      BY <1>16, <2>1, <2>2, <2>3 DEF InHand, Write
    <3> QED
      BY <1>3, <2>1, <3>1, WaitingCalls
  <2>4. CASE owner[connfd] # c
    BY <1>3, <2>1, <2>2, <2>4, WaitingCalls
  <2> QED
    BY <2>3, <2>4
<1> QED
  BY <1>7, <1>8, <1>9, <1>10, <1>11, <1>12, <1>13, <1>14, <1>15, <1>16
     DEF Next, ServerStep

-----------------------------------------------------------------------------
(***************************************************************************)
(* The theorems.                                                           *)
(***************************************************************************)

LEMMA InitIInv == Init => IInv
<1> SUFFICES ASSUME Init PROVE IInv
  OBVIOUS
<1> USE FdAssumption DEF Init, CliInit
<1>1. OpenFds = {} /\ Sessions = {}
  BY DEF OpenFds, Sessions
<1>2. CliTypeOK /\ Connected({}) /\ \A c \in Clients : Waiting(c, <<>>)
  BY InitConnections DEF Init
<1>3. clients \in Seq(Fds) /\ buff \in Seq(Lines)
  BY EmptySeq
<1>4. TypeOK
  BY <1>2, <1>3 DEF TypeOK, SrvState
<1>5. SessionTablesAgree
  BY <1>1 DEF SessionTablesAgree, Members
<1>6. Connected(Sessions)
  BY <1>1, <1>2
<1>7. MaxfdCovers
  BY <1>1 DEF MaxfdCovers
<1>8. ReportHolds
  BY DEF ReportHolds
<1>9. InHand /\ OneAtATime
  BY <1>2 DEF InHand, OneAtATime, InService
<1> QED
  BY <1>4, <1>5, <1>6, <1>7, <1>8, <1>9 DEF IInv

LEMMA NextIInv == IInv /\ [Next]_vars => IInv'
<1> SUFFICES ASSUME IInv, [Next]_vars PROVE IInv'
  OBVIOUS
<1>1. TypeOK'
  BY NextTyped DEF IInv
<1>2. SessionTablesAgree'
  BY NextTables DEF IInv
<1>3. Connected(Sessions)'
  BY NextConnected DEF IInv
<1>4. MaxfdCovers'
  BY <1>1, <1>2, NextMaxfd DEF IInv
<1>5. ReportHolds'
  BY NextReport DEF IInv
<1>6. InHand'
  BY NextInHand DEF IInv
<1>7. OneAtATime'
  BY NextOneAtATime DEF IInv
<1> QED
  BY <1>1, <1>2, <1>3, <1>4, <1>5, <1>6, <1>7 DEF IInv

\* The inductive invariant holds in every state the server and its clients
\* reach; the theorems below are read off it.
THEOREM IInvHolds == Spec => []IInv
BY InitIInv, NextIInv, PTL DEF Spec

\* Every variable of the server and of its connections keeps its type: no
\* index of the loop, no descriptor and no maxfd that the program computes
\* leaves the range the C++ type and the descriptor limit allow.
THEOREM TypeCorrect == Spec => []TypeOK
<1>1. IInv => TypeOK
  BY DEF IInv
<1> QED
  BY <1>1, IInvHolds, PTL

\* The vector clients, the fd_set allset and the kernel's table name the same
\* sessions, each once, whatever the order of accept(), closes and erases.
THEOREM TablesAgree == Spec => []SessionTablesAgree
<1>1. IInv => SessionTablesAgree
  BY DEF IInv
<1> QED
  BY <1>1, IInvHolds, PTL

\* Each call of select() looks at every open session and at the listening
\* socket: updateMaxfd() never leaves one above maxfd.
THEOREM SelectCovers == Spec => []SelectCoversEverySession
<1>1. IInv => SelectCoversEverySession
  BY DEF IInv, MaxfdCovers, SessionTablesAgree, SelectCoversEverySession, Running
<1> QED
  BY <1>1, IInvHolds, PTL

\* The server's one thread never blocks in accept() or in read(): what
\* select() reported still holds when the loop comes to act on it.
THEOREM NeverBlocks == Spec => []NeverBlocksOutsideSelect
<1>1. IInv => NeverBlocksOutsideSelect
  <2> SUFFICES ASSUME IInv PROVE NeverBlocksOutsideSelect
    OBVIOUS
  <2>1. pc = "accept" /\ ListenFd \in readset => backlog # <<>>
    BY DEF IInv, ReportHolds
  <2>2. ASSUME InLoop, connfd \in readset
        PROVE  owner[connfd] # NoClient /\ Readable(owner[connfd])
    <3>1. /\ i \in 1 .. Len(clients)
          /\ connfd \in OpenFds
      BY <2>2, LoopFd DEF IInv
    <3>2. StillReady(i)
      BY <2>2 DEF IInv, ReportHolds, InLoop
    <3>3. Readable(owner[connfd])
      BY <2>2, <3>1, <3>2 DEF StillReady, connfd
    <3> QED
      BY <3>1, <3>3 DEF OpenFds
  <2> QED
    BY <2>1, <2>2 DEF NeverBlocksOutsideSelect
<1> QED
  BY <1>1, IInvHolds, PTL

\* The write() of an answer never fails as long as the client waits for each
\* answer: the server has the client's only line in its hands, so it has not
\* written to that client since the client left, if it has.
THEOREM AnswersSucceed == Spec => []AnswerNeverFails
<1>1. IInv => AnswerNeverFails
  <2> SUFFICES ASSUME IInv, pc = "write", owner[connfd] \notin Eager
               PROVE  CanWrite(owner[connfd])
    BY DEF AnswerNeverFails
  <2> DEFINE c == owner[connfd]
  <2>1. c \in Clients \ Eager
    BY LoopFd DEF IInv
  <2>2. InService(c) # <<>>
    BY DEF IInv, InHand, InService
  <2>3. Waiting(c, InService(c))
    BY <2>1 DEF IInv, OneAtATime
  <2>4. peer[c] \in PeerState \ {"finwr", "finrst", "rst"}
    BY <2>1, <2>2, <2>3 DEF Waiting, IInv, TypeOK, CliTypeOK
  <2> QED
    BY <2>4 DEF CanWrite, PeerState
<1> QED
  BY <1>1, IInvHolds, PTL

-----------------------------------------------------------------------------
(***************************************************************************)
(* The refinement of EchoService.                                          *)
(***************************************************************************)

InHands == [c \in Clients |-> InService(c)]

Asked == [c \in Clients |-> InService(c) \o inbox[c]]

LEMMA InitServed == Init => Echo!Init
<1> SUFFICES ASSUME Init PROVE Echo!Init
  OBVIOUS
<1>1. [c \in Clients |-> Place(c)] = [c \in Clients |-> "out"]
  BY DEF Init, CliInit, Place
<1>2. [c \in Clients |-> InService(c) \o inbox[c]] = [c \in Clients |-> <<>>]
  <2>1. <<>> \o <<>> = <<>>
    OBVIOUS
  <2> QED
    BY <2>1 DEF Init, CliInit, InService
<1> QED
  BY <1>1, <1>2 DEF Init, CliInit, Running, Echo!Init

LEMMA NextServed ==
  ASSUME TypeOK, SessionTablesAgree, Connected(Sessions), ReportHolds, InHand,
         [Next]_vars
  PROVE  [Echo!Next]_(Echo!vars)
<1>1. PICK held : held = InHands
  OBVIOUS
<1>2. PICK new : new = InHands'
  OBVIOUS
<1>3. PICK S : S = Sessions
  OBVIOUS
<1>4. Asked = UnderWay(held, inbox) /\ Asked' = UnderWay(new, inbox')
  BY <1>1, <1>2 DEF Asked, InHands, UnderWay
<1>5. /\ CliTypeOK /\ S \in SUBSET Clients /\ Connected(S)
      /\ held \in [Clients -> Seq(Lines)]
  <2>1. Sessions \in SUBSET Clients
    BY DEF Sessions, OpenFds, TypeOK
  <2> QED
    BY <1>1, <1>3, <2>1, EmptySeq DEF TypeOK, InHands, InService
<1>6. ASSUME ClientServed(held), new = held, UNCHANGED Running
      PROVE  [Echo!Next]_(Echo!vars)
  <2> USE <1>4, <1>6 DEF Appends, Empties, Asked, Places
  <2>1. ASSUME NEW c \in Clients, Places[c] = "out",
               Places' = [Places EXCEPT ![c] = "in"], Asked' = Asked, UNCHANGED outbox
        PROVE  Echo!Join(c)
    BY <2>1 DEF Echo!Join
  <2>2. ASSUME NEW c \in Clients, NEW l \in Lines, Places[c] = "in",
               Appends(Asked, Asked', c, l), UNCHANGED Places, UNCHANGED outbox
        PROVE  Echo!Ask(c, l)
    BY <2>2 DEF Echo!Ask
  <2>3. ASSUME NEW c \in Clients, Places[c] \in {"in", "cut"},
               Empties(outbox, outbox', c), Asked' = Asked, UNCHANGED Places
        PROVE  Echo!Collect(c)
    BY <2>3 DEF Echo!Collect
  <2>4. ASSUME NEW c \in Clients, Places' = [Places EXCEPT ![c] = "left"],
               Empties(outbox, outbox', c), Asked' = Asked
        PROVE  Echo!Leave(c)
    BY <2>4 DEF Echo!Leave
  <2>5. Asked' = Asked /\ UNCHANGED <<Places, outbox>> => UNCHANGED Echo!vars
    BY DEF Echo!vars
  <2> QED
    BY <2>1, <2>2, <2>3, <2>4, <2>5 DEF ClientServed, Echo!Next
<1>7. ASSUME ServerServed(StopLine, held, new), Running, Running'
      PROVE  [Echo!Next]_(Echo!vars)
  <2>1. ASSUME NEW c \in Clients, held[c] # <<StopLine>>,
               Consumes(Asked, Asked', c, held[c]), UNCHANGED Places,
               outbox' = IF Places[c] = "in" THEN [outbox EXCEPT ![c] = @ \o held[c]]
                         ELSE outbox
        PROVE  Echo!Next
    <3>1. Echo!Answer(c, Len(held[c]))
      BY <1>7, <2>1 DEF Echo!Answer, Consumes, Asked, Places
    <3> QED
      BY <2>1, <3>1 DEF Echo!Next, Consumes, Asked
  <2>2. ASSUME NEW c \in Clients, Asked[c] = <<StopLine>>, Empties(Asked, Asked', c),
               UNCHANGED outbox, UNCHANGED Places
        PROVE  Echo!HearStop(c)
    BY <1>7, <2>2 DEF Echo!HearStop, Empties, Asked, Places
  <2>3. Asked' = Asked /\ UNCHANGED outbox /\ UNCHANGED Places => UNCHANGED Echo!vars
    BY <1>7 DEF Echo!vars, Asked, Places
  <2> QED
    BY <1>4, <1>7, <2>1, <2>2, <2>3 DEF ServerServed, Echo!Next
<1>8. ASSUME NEW cs, EndServed(cs, held, new), ~Running'
      PROVE  [Echo!Next]_(Echo!vars)
  <2>1. /\ cs \in SUBSET Clients /\ Places' = Cut(cs)
        /\ Asked' = Cleared(Asked, cs) /\ UNCHANGED outbox
    BY <1>4, <1>8 DEF EndServed
  <2>2. Echo!End(cs)
    BY <1>8, <2>1 DEF Echo!End, Cut, Cleared, Asked, Places
  <2> QED
    BY <2>1, <2>2 DEF Echo!Next
<1>9. /\ pc # "write" => held = [c \in Clients |-> <<>>]
      /\ pc' # "write" => new = [c \in Clients |-> <<>>]
  BY <1>1, <1>2 DEF InHands, InService
<1>10. CASE UNCHANGED vars \/ EnvStep
  <2>1. new = held /\ UNCHANGED Running
    BY <1>1, <1>2, <1>10 DEF EnvStep, vars, srvVars, InHands, InService, connfd, Running
  <2>2. UNCHANGED cliVars \/ \E c \in Clients : ClientStep(c)
    BY <1>10 DEF EnvStep, vars
  <2> QED
    BY <1>5, <1>6, <2>1, <2>2, ClientServes
<1>11. CASE \/ Select \/ NothingToAccept \/ NotReady \/ EndOfRound \/ Accept
  <2>1. new = held /\ Running /\ Running'
    BY <1>9, <1>11 DEF Select, NothingToAccept, NotReady, EndOfRound, Accept, InLoop,
                       Running
  <2>2. UNCHANGED cliVars \/ TakeConnection
    BY <1>11 DEF Select, NothingToAccept, NotReady, EndOfRound, Accept
  <2> QED
    BY <1>5, <1>7, <2>1, <2>2, CallsServe
<1>12. ASSUME InLoop \/ pc = "write"
       PROVE  Running /\ owner[connfd] \in S \cap Clients
  BY <1>3, <1>12, LoopSession DEF InLoop, Running
<1>13. CASE ReadEof
  <2>1. new = held /\ Running'
    BY <1>9, <1>13 DEF ReadEof, InLoop, Running
  <2>2. AtEof(owner[connfd]) /\ CloseEnds({owner[connfd]}) /\ InLoop
    BY <1>13 DEF ReadEof
  <2> QED
    BY <1>5, <1>7, <1>12, <2>1, <2>2, CallsServe
<1>14. CASE ReadStop
  <2>1. new = held /\ Running' /\ InLoop /\ held = [c \in Clients |-> <<>>]
    BY <1>9, <1>14 DEF ReadStop, InLoop, Running
  <2>2. TakeData(owner[connfd]) /\ inbox[owner[connfd]] = <<StopLine>>
    BY <1>14 DEF ReadStop
  <2>3. held[owner[connfd]] = <<>>
    BY <1>12, <2>1
  <2> QED
    BY <1>5, <1>7, <1>12, <2>1, <2>2, <2>3, CallsServe
<1>15. CASE ReadLine
  <2>1. PICK c \in Clients : c = owner[connfd]
    BY <1>12, <1>15 DEF ReadLine
  <2>2. TakeData(c) /\ held[c] = <<>> /\ InLoop /\ Running'
    BY <1>9, <1>15, <2>1 DEF ReadLine, InLoop, Running
  <2>3. Takes(held, new, c, inbox[c])
    <3>1. owner'[connfd'] = c /\ pc' = "write" /\ buff' = inbox[c] /\ pc # "write"
      BY <1>15, <2>1 DEF ReadLine, connfd, InLoop
    <3>2. new = [d \in Clients |-> IF d = c THEN inbox[c] ELSE <<>>]
      BY <1>2, <3>1 DEF InHands, InService
    <3> QED
      BY <1>9, <3>1, <3>2 DEF Takes
  <2> QED
    BY <1>5, <1>7, <1>12, <2>2, <2>3, CallsServe
<1>16. CASE Write
  <2>1. PICK c \in S : c = owner[connfd]
    BY <1>12, <1>16 DEF Write
  <2>2. held = [d \in Clients |-> IF d = c THEN buff ELSE <<>>]
    BY <1>1, <1>16, <2>1 DEF Write, InHands, InService
  <2>3. /\ PutData(c, held[c]) /\ held[c] # <<StopLine>> /\ Running /\ Running'
        /\ Empties(held, new, c)
    BY <1>5, <1>9, <1>16, <2>1, <2>2 DEF Write, Running, InHand, Empties
  <2> QED
    BY <1>5, <1>7, <2>3, CallsServe
<1>17. CASE AcceptFails \/ ReadError \/ WriteError \/ CloseListener
  <2>1. CloseAll(S) /\ ~Running' /\ pc' # "write"
    BY <1>3, <1>17 DEF AcceptFails, ReadError, WriteError, CloseListener, Die, Running
  <2>2. new = Cleared(held, S \cup Queued)
    BY <1>1, <1>9, <1>12, <2>1 DEF Cleared, InHands, InService
  <2> QED
    BY <1>5, <1>8, <2>1, <2>2, CallsServe
<1>18. CASE CloseConnections
  <2>1. PICK cs : cs = {owner[f] : f \in Members(clients)} \ {NoClient}
    OBVIOUS
  <2>2. CloseEnds(cs) /\ ~Running' /\ pc # "write" /\ pc' # "write"
    BY <1>18, <2>1 DEF CloseConnections, Running
  <2>3. cs \in SUBSET S
    BY <1>3, <1>18, <2>1 DEF CloseConnections, SessionTablesAgree, Running, Sessions
  <2>4. new = Cleared(held, cs)
    BY <1>9, <2>2 DEF Cleared
  <2> QED
    BY <1>5, <1>8, <2>2, <2>3, <2>4, CallsServe
<1> QED
  BY <1>10, <1>11, <1>13, <1>14, <1>15, <1>16, <1>17, <1>18 DEF Next, ServerStep

\* The server keeps the promise of the echo service in every behaviour: each
\* answer is a client's own lines, in order, none twice; a client that stays
\* is cut off only when the service ends, and nobody is answered after that.
THEOREM Implements == Spec => ImplementsEchoService
<1>1. IInv /\ [Next]_vars => [Echo!Next]_(Echo!vars)
  BY NextServed DEF IInv
<1> QED
  BY <1>1, InitServed, IInvHolds, PTL DEF Spec, ImplementsEchoService, Echo!Spec
=============================================================================
