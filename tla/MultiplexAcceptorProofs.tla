----------------------- MODULE MultiplexAcceptorProofs -----------------------
(***************************************************************************)
(* Proofs about MultiplexAcceptor with either handler, for every number of *)
(* clients, descriptors and lines, eager peers included.                   *)
(***************************************************************************)
EXTENDS MultiplexAcceptor, TcpClientsProofs, FiniteSetTheorems

(***************************************************************************)
(* The inductive invariant.                                                *)
(***************************************************************************)

Running == pc \notin {"stopped", "dead"}

InBody == pc \in {"read", "write"}

\* The listening socket is never removed, and no client has two sessions.
SessionsKept ==
  Running => /\ tcpSessions # <<>>
             /\ \A f, g \in OpenFds : owner[f] = owner[g] => f = g

\* What poll() reported is there until the loop has been at the session.
EntryHolds(k) ==
  clientPollFdSet[k].revents = "rdnorm" =>
    IF k = 1 THEN backlog # <<>> ELSE Answerable(owner[tcpSessions[k]])

StillReady(first) == \A k \in first .. Len(tcpSessions) : EntryHolds(k)

\* The loop is inside a handler, called for a session poll() reported.  An
\* answer of zeros goes to a client that has closed in order.
AtSession ==
  /\ i \in 2 .. Len(tcpSessions) /\ readyCount > 0
  /\ pc = "read" => clientPollFdSet[i].revents = "rdnorm"
  /\ pc = "write" => buffer # <<>> \/ Ended(client)

ReportHolds ==
  /\ pc \in {"loop", "read"} => StillReady(i)
  /\ pc = "write" => StillReady(i + 1)
  /\ InBody => AtSession

\* Each handler does its own part only.
HandlersApart ==
  /\ handler = "receiver" => pc # "write"
  /\ handler = "echo" => pc # "print" /\ messages = <<>>

\* The receiver writes nothing, so that no client leaves by a reset.
NeverAnswered == handler = "receiver" => \A c \in Clients : Unanswered(c)

\* A client that waits for each answer writes one line to the receiver.
OneAtATime == handler = "receiver" => \A c \in Clients \ Eager : Waiting(c, <<>>)

\* A message came from a session the server has.  A client that waits for the
\* answer to its line will not write another.
MessageHolds(m) ==
  /\ m.from \in Sessions
  /\ \/ m.data = <<>> /\ peer[m.from] = "fin"
     \/ m.data # <<>> /\ m.from \in Eager
     \/ /\ m.data = <<line[m.from]>> /\ inbox[m.from] = <<>>
        /\ cli[m.from] \in {"reading", "done"}

OneLineEach ==
  \A j, k \in DOMAIN messages :
    /\ messages[j].from = messages[k].from /\ messages[j].from \notin Eager
    /\ messages[j].data # <<>> /\ messages[k].data # <<>>
    => j = k

MessagesHold ==
  /\ Running => OneLineEach /\ \A k \in DOMAIN messages : MessageHolds(messages[k])
  /\ pc = "stopped" => messages = <<>>

IInv ==
  /\ TypeOK
  /\ VectorsRunInParallel
  /\ SessionsKept
  /\ Connected(Sessions)
  /\ ReportHolds
  /\ HandlersApart
  /\ NeverAnswered
  /\ OneAtATime
  /\ MessagesHold

-----------------------------------------------------------------------------
(***************************************************************************)
(* What the steps do to the vectors and to the kernel's table.             *)
(***************************************************************************)

Members == {tcpSessions[k] : k \in 2 .. Len(tcpSessions)}

\* The vectors and the table while the server runs.
LEMMA RunningVectors ==
  ASSUME TypeOK, VectorsRunInParallel, SessionsKept, Running
  PROVE  /\ DOMAIN tcpSessions = 1 .. Len(tcpSessions) /\ Len(tcpSessions) \in Nat \ {0}
         /\ DOMAIN clientPollFdSet = 1 .. Len(tcpSessions)
         /\ Len(clientPollFdSet) = Len(tcpSessions)
         /\ \A k \in 1 .. Len(tcpSessions) : clientPollFdSet[k].fd = tcpSessions[k]
         /\ tcpSessions[1] = ListenFd /\ Members = OpenFds
         /\ \A j, k \in 1 .. Len(tcpSessions) : tcpSessions[j] = tcpSessions[k] => j = k
         /\ \A f, g \in OpenFds : owner[f] = owner[g] => f = g
         /\ \A k \in 2 .. Len(tcpSessions) :
              /\ tcpSessions[k] \in OpenFds /\ tcpSessions[k] # ListenFd
              /\ owner[tcpSessions[k]] \in Clients
              /\ owner[tcpSessions[k]] \in Sessions
         /\ \A j, k \in 2 .. Len(tcpSessions) :
              owner[tcpSessions[j]] = owner[tcpSessions[k]] => j = k
<1>1. DOMAIN tcpSessions = 1 .. Len(tcpSessions) /\ Len(tcpSessions) \in Nat \ {0}
  BY DEF TypeOK, SessionsKept
<1>2. /\ DOMAIN clientPollFdSet = 1 .. Len(clientPollFdSet)
      /\ Len(clientPollFdSet) \in Nat
  BY DEF TypeOK
<1>3. /\ tcpSessions = [k \in DOMAIN clientPollFdSet |-> clientPollFdSet[k].fd]
      /\ tcpSessions[1] = ListenFd /\ Members = OpenFds
      /\ \A j, k \in DOMAIN tcpSessions : tcpSessions[j] = tcpSessions[k] => j = k
      /\ \A f, g \in OpenFds : owner[f] = owner[g] => f = g
  BY DEF VectorsRunInParallel, Running, SessionsKept, Members
<1>4. DOMAIN clientPollFdSet = DOMAIN tcpSessions
  BY <1>3
<1>5. Len(clientPollFdSet) = Len(tcpSessions)
  <2>1. PICK m \in Nat \ {0} : m = Len(tcpSessions)
    BY <1>1
  <2>2. PICK n \in Nat : n = Len(clientPollFdSet)
    BY <1>2
  <2>3. 1 .. m = 1 .. n
    BY <1>1, <1>2, <1>4, <2>1, <2>2
  <2>4. m \in 1 .. n
    BY <2>1, <2>3
  <2>5. n \in 1 .. m
    BY <2>2, <2>3, <2>4
  <2>6. m = n
    BY <2>4, <2>5
  <2> QED
    BY <2>1, <2>2, <2>6
<1>6. \A k \in 1 .. Len(tcpSessions) : clientPollFdSet[k].fd = tcpSessions[k]
  BY <1>1, <1>3, <1>4
<1>7. ASSUME NEW k \in 2 .. Len(tcpSessions)
      PROVE  /\ tcpSessions[k] \in OpenFds /\ tcpSessions[k] # ListenFd
             /\ owner[tcpSessions[k]] \in Clients
             /\ owner[tcpSessions[k]] \in Sessions
  <2>1. tcpSessions[k] \in OpenFds
    BY <1>3 DEF Members
  <2> QED
    BY <2>1, FdAssumption DEF OpenFds, Sessions, TypeOK, Fds
<1>8. ASSUME NEW j \in 2 .. Len(tcpSessions), NEW k \in 2 .. Len(tcpSessions),
             owner[tcpSessions[j]] = owner[tcpSessions[k]]
      PROVE  j = k
  <2>1. tcpSessions[j] = tcpSessions[k]
    BY <1>3, <1>7, <1>8
  <2>2. j \in DOMAIN tcpSessions /\ k \in DOMAIN tcpSessions
    BY <1>1
  <2> QED
    BY <1>3, <2>1, <2>2
<1> QED
  BY <1>1, <1>3, <1>4, <1>5, <1>6, <1>7, <1>8

\* The handler of the listening socket is called at the first place only, and
\* the other handlers are called for sessions.
LEMMA AtClient ==
  ASSUME TypeOK, VectorsRunInParallel, SessionsKept, ReportHolds
  PROVE  /\ Called /\ tcpSessions[i] = ListenFd => i = 1
         /\ Called /\ tcpSessions[i] # ListenFd => i \in 2 .. Len(tcpSessions)
         /\ InBody => /\ Running /\ i \in 2 .. Len(tcpSessions)
                      /\ client \in Clients \cap Sessions
<1>1. ASSUME Called
      PROVE  /\ Running /\ i \in 1 .. Len(tcpSessions)
  <2>1. Running /\ i <= Len(tcpSessions)
    BY <1>1 DEF Called, InLoop, Running
  <2>2. Len(tcpSessions) \in Nat
    BY <2>1, RunningVectors
  <2> QED
    BY <2>1, <2>2 DEF TypeOK
<1>2. ASSUME Called, tcpSessions[i] = ListenFd PROVE i = 1
  <2>1. 1 \in 1 .. Len(tcpSessions) /\ tcpSessions[1] = ListenFd
    BY <1>1, <1>2, RunningVectors
  <2> QED
    BY <1>1, <1>2, <2>1, RunningVectors
<1>3. ASSUME Called, tcpSessions[i] # ListenFd PROVE i \in 2 .. Len(tcpSessions)
  <2>1. tcpSessions[1] = ListenFd
    BY <1>1, <1>3, RunningVectors
  <2>2. i # 1
    BY <1>3, <2>1
  <2> QED
    BY <1>1, <1>3, <2>2
<1>4. ASSUME InBody
      PROVE  /\ Running /\ i \in 2 .. Len(tcpSessions)
             /\ client \in Clients \cap Sessions
  <2>1. Running /\ i \in 2 .. Len(tcpSessions)
    BY <1>4 DEF InBody, Running, ReportHolds, AtSession
  <2> QED
    BY <2>1, RunningVectors DEF client
<1> QED
  BY <1>2, <1>3, <1>4

LEMMA DieEffect ==
  ASSUME Die
  PROVE  /\ CloseAll(Sessions) /\ ~Running' /\ pc' = "dead"
         /\ OpenFds' = {} /\ Sessions' = {}
BY DEF Die, Running, OpenFds, Sessions

\* poll() writes the revents of every entry and nothing else.
LEMMA PollEffect ==
  ASSUME TypeOK, GetCountReadyTcpSessions
  PROVE  /\ clientPollFdSet' \in Seq(Pollfd)
         /\ Len(clientPollFdSet') = Len(clientPollFdSet)
         /\ \A k \in 1 .. Len(clientPollFdSet) :
              /\ clientPollFdSet'[k].fd = clientPollFdSet[k].fd
              /\ clientPollFdSet'[k].revents = Poll(clientPollFdSet[k].fd)
         /\ readyCount' \in Nat
<1> DEFINE old == clientPollFdSet
<1>1. old \in Seq(Pollfd) /\ DOMAIN old = 1 .. Len(old) /\ Len(old) \in Nat
  BY DEF TypeOK
<1> DEFINE polled == [k \in DOMAIN clientPollFdSet |->
                        [fd |-> clientPollFdSet[k].fd, revents |-> Poll(clientPollFdSet[k].fd)]]
           ready == {k \in DOMAIN polled : polled[k].revents # "none"}
<1>2. clientPollFdSet' = polled /\ readyCount' = Cardinality(ready)
  BY DEF GetCountReadyTcpSessions
<1>3. \A f : Poll(f) \in Revents
  BY DEF Poll, Revents
<1>4. \A k \in 1 .. Len(old) : polled[k] \in Pollfd
  BY <1>1, <1>3, ElementOfSeq DEF Pollfd
<1>5. polled \in [1 .. Len(old) -> Pollfd]
  BY <1>1, <1>4
<1>6. polled \in Seq(Pollfd) /\ Len(polled) = Len(old)
  <2> HIDE DEF polled
  <2> QED
    BY <1>1, <1>5
<1>7. Cardinality(ready) \in Nat
  <2>1. IsFiniteSet(1 .. Len(old))
    BY <1>1, FS_Interval
  <2>2. ready \in SUBSET (1 .. Len(old))
    BY <1>1
  <2> HIDE DEF ready
  <2>3. IsFiniteSet(ready)
    BY <2>1, <2>2, FS_Subset
  <2> QED
    BY <2>3, FS_CardinalityType
<1> QED
  BY <1>1, <1>2, <1>6, <1>7

\* Accept opens one descriptor that was free, for the oldest connection, and
\* puts it at the end of both vectors.
LEMMA AcceptEffect ==
  ASSUME TypeOK, VectorsRunInParallel, SessionsKept, Accept
  PROVE  \E f \in Fds :
           /\ f \notin OpenFds /\ f # ListenFd
           /\ Head(backlog) \in Clients
           /\ owner' = [owner EXCEPT ![f] = Head(backlog)]
           /\ OpenFds' = OpenFds \cup {f}
           /\ \A g \in OpenFds : owner'[g] = owner[g]
           /\ owner'[f] = Head(backlog)
           /\ Sessions' = Sessions \cup {Head(backlog)}
           /\ tcpSessions' \in Seq(Fds \cup {ListenFd})
           /\ Len(tcpSessions') = Len(tcpSessions) + 1
           /\ \A k \in 1 .. Len(tcpSessions) : tcpSessions'[k] = tcpSessions[k]
           /\ tcpSessions'[Len(tcpSessions) + 1] = f
           /\ clientPollFdSet' \in Seq(Pollfd)
           /\ Len(clientPollFdSet') = Len(tcpSessions) + 1
           /\ \A k \in 1 .. Len(tcpSessions) : clientPollFdSet'[k] = clientPollFdSet[k]
           /\ clientPollFdSet'[Len(tcpSessions) + 1] = [fd |-> f, revents |-> "none"]
<1>1. PICK f \in Fds :
        /\ NewSocket(f)
        /\ clientPollFdSet' = Append(clientPollFdSet, [fd |-> f, revents |-> "none"])
        /\ tcpSessions' = Append(tcpSessions, f)
  BY DEF Accept
<1>2. Head(backlog) \in Clients
  BY <1>1, HeadTailProperties DEF NewSocket, TakeConnection, TypeOK, CliTypeOK
<1>3. owner[f] = NoClient /\ f \notin OpenFds
  BY <1>1 DEF NewSocket, LowestFree, OpenFds
<1>4. owner' = [owner EXCEPT ![f] = Head(backlog)]
  BY <1>1 DEF NewSocket
<1>5. OpenFds' = OpenFds \cup {f}
  BY <1>2, <1>3, <1>4, FdAssumption DEF OpenFds, TypeOK
<1>6. \A g \in OpenFds : owner'[g] = owner[g]
  BY <1>3, <1>4 DEF OpenFds, TypeOK
<1>7. owner'[f] = Head(backlog)
  BY <1>4 DEF TypeOK
<1>8. Sessions' = Sessions \cup {Head(backlog)}
  BY <1>5, <1>6, <1>7 DEF Sessions
<1>9. f # ListenFd
  BY FdAssumption DEF Fds
<1>10. Len(clientPollFdSet) = Len(tcpSessions)
  BY RunningVectors DEF Running, Accept, Called, InLoop
<1>11. /\ tcpSessions' \in Seq(Fds \cup {ListenFd})
       /\ Len(tcpSessions') = Len(tcpSessions) + 1
       /\ \A k \in 1 .. Len(tcpSessions) : tcpSessions'[k] = tcpSessions[k]
       /\ tcpSessions'[Len(tcpSessions) + 1] = f
  <2>1. tcpSessions \in Seq(Fds \cup {ListenFd}) /\ f \in Fds \cup {ListenFd}
    BY DEF TypeOK
  <2> QED
    BY <1>1, <2>1, AppendProperties
<1>12. /\ clientPollFdSet' \in Seq(Pollfd)
       /\ Len(clientPollFdSet') = Len(tcpSessions) + 1
       /\ \A k \in 1 .. Len(tcpSessions) : clientPollFdSet'[k] = clientPollFdSet[k]
       /\ clientPollFdSet'[Len(tcpSessions) + 1] = [fd |-> f, revents |-> "none"]
  <2>1. clientPollFdSet \in Seq(Pollfd) /\ [fd |-> f, revents |-> "none"] \in Pollfd
    BY DEF TypeOK, Pollfd, Revents
  <2> QED
    BY <1>1, <1>10, <2>1, AppendProperties
<1> QED
  BY ONLY <1>2, <1>3, <1>4, <1>5, <1>6, <1>7, <1>8, <1>9, <1>11, <1>12

\* The destructor leaves nothing open.
LEMMA DestroyEffect ==
  ASSUME TypeOK, VectorsRunInParallel, SessionsKept, Destroy
  PROVE  CloseAll(Sessions) /\ OpenFds' = {} /\ Sessions' = {}
<1>1. Running
  BY DEF Destroy, Running
<1>2. Members = OpenFds /\ DOMAIN tcpSessions = 1 .. Len(tcpSessions)
  BY <1>1, RunningVectors
<1>3. {owner[tcpSessions[k]] : k \in 2 .. Len(tcpSessions)} = Sessions
  BY <1>2 DEF Members, Sessions
<1>4. ASSUME NEW f \in OpenFds PROVE owner'[f] = NoClient
  <2>1. PICK k \in 2 .. Len(tcpSessions) : tcpSessions[k] = f
    BY <1>2 DEF Members
  <2>2. k \in DOMAIN tcpSessions
    BY <1>2
  <2> QED
    BY <2>1, <2>2 DEF Destroy, OpenFds
<1>5. OpenFds' = {}
  BY <1>4 DEF Destroy, OpenFds
<1> QED
  BY <1>3, <1>5 DEF Destroy, Sessions

\* Every step but these leaves the vectors and the table alone.
LEMMA QuietStep ==
  ASSUME \/ NotReady \/ Handle \/ Read \/ Receive \/ Write \/ WriteUnnoticed \/ EndOfRound
  PROVE  /\ UNCHANGED <<handler, owner, clientPollFdSet, tcpSessions, cli, line, end, backlog>>
         /\ Running /\ Running'
BY DEF NotReady, Handle, Read, Receive, ReadFrom, Write, WriteUnnoticed, EndOfRound, Called,
       InLoop, Served, Running, cliVars, TakeData, PutData

-----------------------------------------------------------------------------
(***************************************************************************)
(* Typing.                                                                 *)
(***************************************************************************)

LEMMA NextTyped ==
  ASSUME TypeOK, VectorsRunInParallel, SessionsKept, ReportHolds, [Next]_vars
  PROVE  TypeOK'
<1> USE FdAssumption DEF SrvState, Fds
<1>1. CASE UNCHANGED vars
  BY <1>1 DEF vars, cliVars, srvVars, TypeOK, CliTypeOK
<1>2. CASE EnvStep
  <2>1. CliTypeOK'
    BY <1>2, ClientStepTyped DEF EnvStep, TypeOK
  <2> QED
    BY <1>2, <2>1 DEF EnvStep, srvVars, TypeOK
<1>3. CASE AcceptFails \/ WriteKills
  <2>1. Die
    BY <1>3 DEF AcceptFails, WriteKills
  <2>2. CliTypeOK'
    BY <2>1, CallsTyped DEF Die, TypeOK
  <2>3. owner' \in [Fds -> Clients \cup {NoClient}]
    BY <2>1 DEF Die
  <2> QED
    BY <2>1, <2>2, <2>3 DEF Die, TypeOK
<1>4. ASSUME UNCHANGED cliVars PROVE CliTypeOK'
  BY <1>4 DEF cliVars, TypeOK, CliTypeOK
<1>5. CASE GetCountReadyTcpSessions
  <2>1. clientPollFdSet' \in Seq(Pollfd) /\ readyCount' \in Nat
    BY <1>5, PollEffect
  <2> QED
    BY <1>4, <1>5, <2>1 DEF GetCountReadyTcpSessions, TypeOK
<1>6. ASSUME Served, readyCount > 0
      PROVE  pc' \in SrvState /\ i' \in Nat \ {0} /\ readyCount' \in Nat
  BY <1>6 DEF Served, TypeOK
<1>7. CASE Accept
  <2>1. CliTypeOK'
    BY <1>7, CallsTyped DEF Accept, NewSocket, TypeOK
  <2>2. /\ clientPollFdSet' \in Seq(Pollfd)
        /\ tcpSessions' \in Seq(Fds \cup {ListenFd})
        /\ owner' \in [Fds -> Clients \cup {NoClient}]
    BY <1>7, AcceptEffect DEF TypeOK
  <2>3. pc' \in SrvState /\ i' \in Nat \ {0} /\ readyCount' \in Nat
    BY <1>6, <1>7 DEF Accept, Called, InLoop
  <2> QED
    BY <1>7, <2>1, <2>2, <2>3 DEF Accept, TypeOK
<1>8. CASE NotReady
  BY <1>4, <1>8 DEF NotReady, TypeOK
<1>9. CASE Handle
  BY <1>4, <1>9 DEF Handle, TypeOK
<1>10. ReadFrom => CliTypeOK'
  BY <1>4, CallsTyped DEF ReadFrom, TypeOK
<1>11. InBody => client \in Clients /\ inbox[client] \in Seq(Lines) /\ readyCount > 0
  BY AtClient DEF TypeOK, CliTypeOK, ReportHolds, AtSession
<1>12. CASE Read
  <2>1. CliTypeOK' /\ buffer' \in Seq(Lines)
    BY <1>10, <1>11, <1>12 DEF Read, InBody
  <2> QED
    BY <1>12, <2>1 DEF Read, TypeOK
<1>13. CASE Receive
  <2>1. CliTypeOK' /\ pc' \in SrvState /\ i' \in Nat \ {0} /\ readyCount' \in Nat
    BY <1>6, <1>10, <1>11, <1>13 DEF Receive, InBody
  <2>2. [from |-> client, data |-> inbox[client]] \in Message
    BY <1>11, <1>13 DEF Receive, InBody, Message
  <2>3. messages' \in Seq(Message)
    BY <1>13, <2>2 DEF Receive, TypeOK
  <2> QED
    BY <1>13, <2>1, <2>3 DEF Receive, TypeOK
<1>14. CASE Write \/ WriteUnnoticed
  <2>1. CliTypeOK'
    BY <1>4, <1>14, CallsTyped DEF Write, WriteUnnoticed, TypeOK
  <2>2. pc' \in SrvState /\ i' \in Nat \ {0} /\ readyCount' \in Nat
    BY <1>6, <1>11, <1>14 DEF Write, WriteUnnoticed, InBody
  <2>3. buffer' \in Seq(Lines)
    BY <1>14, EmptySeq DEF Write, WriteUnnoticed
  <2> QED
    BY <1>14, <2>1, <2>2, <2>3 DEF Write, WriteUnnoticed, TypeOK
<1>15. CASE EndOfRound
  BY <1>4, <1>15 DEF EndOfRound, TypeOK
<1>16. CASE Destroy
  <2>1. CliTypeOK'
    BY <1>16, CallsTyped DEF Destroy, TypeOK
  <2>2. /\ clientPollFdSet' \in Seq(Pollfd) /\ tcpSessions' \in Seq(Fds \cup {ListenFd})
        /\ messages' \in Seq(Message)
        /\ owner' \in [Fds -> Clients \cup {NoClient}]
    BY <1>16, EmptySeq DEF Destroy, TypeOK
  <2> QED
    BY <1>16, <2>1, <2>2 DEF Destroy, TypeOK
<1> QED
  BY <1>1, <1>2, <1>3, <1>5, <1>7, <1>8, <1>9, <1>12, <1>13, <1>14, <1>15, <1>16
     DEF Next, ServerStep

-----------------------------------------------------------------------------
(***************************************************************************)
(* The vectors and the table of sessions.                                  *)
(***************************************************************************)

LEMMA NextVectors ==
  ASSUME TypeOK, VectorsRunInParallel, SessionsKept, Connected(Sessions), [Next]_vars
  PROVE  VectorsRunInParallel' /\ SessionsKept'
<1>1. ASSUME UNCHANGED <<owner, clientPollFdSet, tcpSessions>>, Running' => Running,
             pc' = "stopped" => pc = "stopped"
      PROVE  VectorsRunInParallel' /\ SessionsKept'
  BY <1>1 DEF VectorsRunInParallel, SessionsKept, OpenFds, Running
<1>2. CASE EnvStep \/ UNCHANGED vars
  BY <1>1, <1>2 DEF EnvStep, vars, srvVars, Running
<1>3. CASE \/ NotReady \/ Handle \/ Read \/ Receive \/ Write \/ WriteUnnoticed \/ EndOfRound
  BY <1>1, <1>3, QuietStep DEF Running
<1>4. CASE AcceptFails \/ WriteKills
  BY <1>4, DieEffect DEF AcceptFails, WriteKills, Running, VectorsRunInParallel, SessionsKept
<1>5. CASE Destroy
  BY <1>5, DestroyEffect DEF Destroy, Running, VectorsRunInParallel, SessionsKept
<1>6. ASSUME Running', tcpSessions' \in Seq(Fds \cup {ListenFd}),
             clientPollFdSet' \in Seq(Pollfd),
             Len(tcpSessions') \in Nat \ {0}, Len(clientPollFdSet') = Len(tcpSessions'),
             \A k \in 1 .. Len(tcpSessions') : clientPollFdSet'[k].fd = tcpSessions'[k],
             tcpSessions'[1] = ListenFd, Members' = OpenFds',
             \A j, k \in 1 .. Len(tcpSessions') : tcpSessions'[j] = tcpSessions'[k] => j = k,
             \A f, g \in OpenFds' : owner'[f] = owner'[g] => f = g
      PROVE  VectorsRunInParallel' /\ SessionsKept'
  <2>1. /\ DOMAIN tcpSessions' = 1 .. Len(tcpSessions')
        /\ DOMAIN clientPollFdSet' = 1 .. Len(tcpSessions')
        /\ tcpSessions' # <<>>
    BY <1>6
  <2>2. tcpSessions' = [k \in DOMAIN tcpSessions' |-> tcpSessions'[k]]
    BY <1>6
  <2>3. tcpSessions' = [k \in DOMAIN clientPollFdSet' |-> clientPollFdSet'[k].fd]
    BY <1>6, <2>1, <2>2
  <2>4. \A j, k \in DOMAIN tcpSessions' : tcpSessions'[j] = tcpSessions'[k] => j = k
    BY <1>6, <2>1
  <2>5. {tcpSessions'[k] : k \in 2 .. Len(tcpSessions')} = OpenFds'
    BY <1>6 DEF Members
  <2>6. pc' # "stopped" /\ tcpSessions'[1] = ListenFd
    BY <1>6 DEF Running
  <2>7. VectorsRunInParallel'
    BY ONLY <2>3, <2>4, <2>5, <2>6 DEF VectorsRunInParallel
  <2> QED
    BY <1>6, <2>1, <2>7 DEF SessionsKept
<1>7. CASE GetCountReadyTcpSessions
  <2>1. Running /\ Running' /\ UNCHANGED <<owner, tcpSessions>>
    BY <1>7 DEF GetCountReadyTcpSessions, Running
  <2>2. /\ clientPollFdSet' \in Seq(Pollfd)
        /\ Len(clientPollFdSet') = Len(clientPollFdSet)
        /\ \A k \in 1 .. Len(clientPollFdSet) :
             clientPollFdSet'[k].fd = clientPollFdSet[k].fd
    BY <1>7, PollEffect
  <2>3. /\ Len(tcpSessions) \in Nat \ {0} /\ Len(clientPollFdSet) = Len(tcpSessions)
        /\ \A k \in 1 .. Len(tcpSessions) : clientPollFdSet[k].fd = tcpSessions[k]
        /\ tcpSessions[1] = ListenFd /\ Members = OpenFds
        /\ \A j, k \in 1 .. Len(tcpSessions) : tcpSessions[j] = tcpSessions[k] => j = k
        /\ \A f, g \in OpenFds : owner[f] = owner[g] => f = g
    BY <2>1, RunningVectors
  <2>4. Members' = Members /\ OpenFds' = OpenFds
    BY <2>1 DEF Members, OpenFds
  <2>5. tcpSessions' \in Seq(Fds \cup {ListenFd})
    BY <2>1 DEF TypeOK
  <2>6. \A k \in 1 .. Len(tcpSessions') : clientPollFdSet'[k].fd = tcpSessions'[k]
    BY <2>1, <2>2, <2>3
  <2> QED
    BY <1>6, <2>1, <2>2, <2>3, <2>4, <2>5, <2>6
<1>8. CASE Accept
  <2>1. PICK f \in Fds :
          /\ f \notin OpenFds /\ f # ListenFd
          /\ OpenFds' = OpenFds \cup {f}
          /\ \A g \in OpenFds : owner'[g] = owner[g]
          /\ owner'[f] = Head(backlog)
          /\ tcpSessions' \in Seq(Fds \cup {ListenFd})
          /\ Len(tcpSessions') = Len(tcpSessions) + 1
          /\ \A k \in 1 .. Len(tcpSessions) : tcpSessions'[k] = tcpSessions[k]
          /\ tcpSessions'[Len(tcpSessions) + 1] = f
          /\ clientPollFdSet' \in Seq(Pollfd)
          /\ Len(clientPollFdSet') = Len(tcpSessions) + 1
          /\ \A k \in 1 .. Len(tcpSessions) : clientPollFdSet'[k] = clientPollFdSet[k]
          /\ clientPollFdSet'[Len(tcpSessions) + 1] = [fd |-> f, revents |-> "none"]
    BY <1>8, AcceptEffect
  <2>2. Running /\ Running'
    BY <1>8 DEF Accept, Called, InLoop, Served, Running
  <2>3. PICK n \in Nat \ {0} : n = Len(tcpSessions)
    BY <2>2, RunningVectors
  <2>4. /\ \A k \in 1 .. n : clientPollFdSet[k].fd = tcpSessions[k]
        /\ tcpSessions[1] = ListenFd /\ Members = OpenFds
        /\ \A j, k \in 1 .. n : tcpSessions[j] = tcpSessions[k] => j = k
        /\ \A g, h \in OpenFds : owner[g] = owner[h] => g = h
    BY <2>2, <2>3, RunningVectors
  <2>5. \A k \in 1 .. n + 1 : k \in 1 .. n \/ k = n + 1
    BY <2>3
  <2>6. /\ Len(tcpSessions') = n + 1 /\ Len(clientPollFdSet') = n + 1
        /\ \A k \in 1 .. n : tcpSessions'[k] = tcpSessions[k]
        /\ \A k \in 1 .. n : clientPollFdSet'[k] = clientPollFdSet[k]
        /\ tcpSessions'[n + 1] = f /\ clientPollFdSet'[n + 1].fd = f
    BY <2>1, <2>3
  <2>7. \A k \in 1 .. n + 1 : clientPollFdSet'[k].fd = tcpSessions'[k]
    BY <2>4, <2>5, <2>6
  <2>8. \A k \in 1 .. n : tcpSessions[k] # f
    <3>1. ASSUME NEW k \in 1 .. n PROVE tcpSessions[k] # f
      <4>1. k = 1 \/ k \in 2 .. n
        OBVIOUS
      <4> QED
        BY <2>1, <2>3, <2>4, <4>1 DEF Members
    <3> QED
      BY <3>1
  <2>9. \A j, k \in 1 .. n + 1 : tcpSessions'[j] = tcpSessions'[k] => j = k
    BY <2>4, <2>5, <2>6, <2>8
  <2>10. Members' = OpenFds'
    <3>1. \A k \in 2 .. n + 1 : k \in 2 .. n \/ k = n + 1
      BY <2>3
    <3>2. n + 1 \in 2 .. n + 1 /\ \A k \in 2 .. n : k \in 1 .. n /\ k \in 2 .. n + 1
      BY <2>3
    <3>3. Members' = {tcpSessions'[k] : k \in 2 .. n + 1}
      BY <2>6 DEF Members
    <3>4. Members = {tcpSessions[k] : k \in 2 .. n}
      BY <2>3 DEF Members
    <3>5. {tcpSessions'[k] : k \in 2 .. n + 1} = {tcpSessions[k] : k \in 2 .. n} \cup {f}
      BY <2>6, <3>1, <3>2
    <3> QED
      BY <2>1, <2>4, <3>3, <3>4, <3>5
  <2>11. \A g, h \in OpenFds' : owner'[g] = owner'[h] => g = h
    <3>1. Head(backlog) \in Clients /\ InBacklog(Head(backlog))
      BY <1>8, QueueShrinks DEF Accept, NewSocket, TakeConnection, TypeOK, Connected
    <3>2. Head(backlog) \notin Sessions
      BY <3>1 DEF Connected, Connection, QueuedConnection
    <3>3. \A g \in OpenFds : owner[g] # Head(backlog)
      BY <3>2 DEF Sessions
    <3> QED
      BY <2>1, <2>4, <3>3
  <2>12. tcpSessions'[1] = ListenFd /\ n + 1 \in Nat \ {0}
    BY <2>3, <2>4, <2>6
  <2> QED
    BY <1>6, <2>1, <2>2, <2>6, <2>7, <2>9, <2>10, <2>11, <2>12
<1> QED
  BY <1>2, <1>3, <1>4, <1>5, <1>7, <1>8 DEF Next, ServerStep

-----------------------------------------------------------------------------
(***************************************************************************)
(* The connections.                                                        *)
(***************************************************************************)

LEMMA NextConnected ==
  ASSUME TypeOK, VectorsRunInParallel, SessionsKept, Connected(Sessions), ReportHolds,
         [Next]_vars
  PROVE  Connected(Sessions)'
<1>1. PICK S : S = Sessions
  OBVIOUS
<1>2. PICK T : T = Sessions'
  OBVIOUS
<1>3. CliTypeOK /\ Connected(S)
  BY <1>1 DEF TypeOK
<1> SUFFICES Connected(T)'
  BY <1>2 DEF Connected
<1>4. T = S /\ UNCHANGED cliVars => Connected(T)'
  BY <1>3, ConnectedCalls
<1>5. UNCHANGED owner => T = S
  BY <1>1, <1>2 DEF Sessions, OpenFds
<1>6. CASE UNCHANGED vars
  BY <1>4, <1>5, <1>6 DEF vars, srvVars
<1>7. CASE EnvStep
  <2>1. T = S
    BY <1>5, <1>7 DEF EnvStep, srvVars
  <2>2. Connected(S)'
    BY <1>3, <1>7, ConnectedClientStep DEF EnvStep
  <2> QED
    BY <2>1, <2>2
<1>8. CASE GetCountReadyTcpSessions \/ NotReady \/ Handle \/ WriteUnnoticed \/ EndOfRound
  BY <1>4, <1>5, <1>8 DEF GetCountReadyTcpSessions, NotReady, Handle, WriteUnnoticed, EndOfRound
<1>9. CASE Accept
  <2>1. T = S \cup {Head(backlog)} /\ TakeConnection
    BY <1>1, <1>2, <1>9, AcceptEffect DEF Accept, NewSocket
  <2> QED
    BY <1>3, <2>1, ConnectedCalls
<1>10. CASE AcceptFails \/ WriteKills \/ Destroy
  <2>1. CloseAll(S) /\ T = S \ S
    BY <1>1, <1>2, <1>10, DieEffect, DestroyEffect DEF AcceptFails, WriteKills
  <2> QED
    BY <1>3, <2>1, ConnectedCalls
<1>11. CASE Read \/ Receive \/ Write
  <2>1. client \in S \cap Clients /\ T = S
    BY <1>1, <1>5, <1>11, AtClient DEF Read, Receive, Write, InBody
  <2>2. TakeData(client) \/ PutData(client, buffer) \/ UNCHANGED cliVars
    BY <1>11 DEF Read, Receive, ReadFrom, Write
  <2> QED
    BY <1>3, <1>4, <2>1, <2>2, ConnectedCalls
<1> QED
  BY <1>6, <1>7, <1>8, <1>9, <1>10, <1>11 DEF Next, ServerStep

-----------------------------------------------------------------------------
(***************************************************************************)
(* What poll() reported.                                                   *)
(***************************************************************************)

LEMMA NextReport ==
  ASSUME TypeOK, VectorsRunInParallel, SessionsKept, Connected(Sessions), ReportHolds,
         [Next]_vars
  PROVE  ReportHolds'
<1> DEFINE n == Len(tcpSessions)
<1>1. ASSUME pc' \notin {"loop", "read", "write"} PROVE ReportHolds'
  BY <1>1 DEF ReportHolds, InBody
<1>2. ASSUME Running
      PROVE  /\ n \in Nat \ {0} /\ Len(clientPollFdSet) = n
             /\ \A k \in 1 .. n : clientPollFdSet[k].fd = tcpSessions[k]
             /\ tcpSessions[1] = ListenFd
             /\ \A k \in 2 .. n : /\ tcpSessions[k] \in OpenFds
                                  /\ tcpSessions[k] # ListenFd
                                  /\ owner[tcpSessions[k]] \in Clients
             /\ \A j, k \in 2 .. n :
                  owner[tcpSessions[j]] = owner[tcpSessions[k]] => j = k
  BY <1>2, RunningVectors
<1>3. i \in Nat \ {0} /\ readyCount \in Nat
  BY DEF TypeOK
<1>4. CASE UNCHANGED vars
  BY <1>4 DEF vars, cliVars, srvVars, ReportHolds, StillReady, EntryHolds, AtSession,
              Answerable, Ended, InBody, client
<1>5. CASE EnvStep
  <2>1. PICK c \in Clients : ClientStep(c)
    BY <1>5 DEF EnvStep
  <2>2. UNCHANGED <<pc, owner, clientPollFdSet, tcpSessions, readyCount, i, buffer>>
    BY <1>5 DEF EnvStep, srvVars
  <2>3. ASSUME NEW d \in Clients
        PROVE  (Answerable(d) => Answerable(d)') /\ (Ended(d) => Ended(d)')
    <3>1. CliTypeOK /\ LeftConnection(d)
      BY DEF TypeOK, Connected, Connection
    <3> QED
      BY <2>1, <3>1, ClientKeepsReadable
  <2>4. backlog # <<>> => backlog' # <<>>
    <3>1. backlog' = backlog \/ backlog' = Append(backlog, c)
      BY <2>1, ClientStepEffect DEF TypeOK
    <3>2. backlog \in Seq(Clients)
      BY DEF TypeOK, CliTypeOK
    <3>3. Append(backlog, c) # <<>>
      BY ONLY <3>2, AppendProperties
    <3> QED
      BY <3>1, <3>3
  <2>5. CASE pc \in {"loop", "read", "write"}
    <3>1. Running
      BY <2>5 DEF Running
    <3>2. ASSUME NEW first \in Nat \ {0}, StillReady(first)
          PROVE  StillReady(first)'
      <4>1. ASSUME NEW k \in first .. n PROVE EntryHolds(k)'
        <5>1. EntryHolds(k) /\ (k # 1 => k \in 2 .. n)
          BY <1>2, <3>1, <3>2 DEF StillReady
        <5>2. CASE k = 1
          BY <2>2, <2>4, <5>1, <5>2 DEF EntryHolds
        <5>3. CASE k # 1
          <6>1. PICK d \in Clients : d = owner[tcpSessions[k]]
            BY <1>2, <3>1, <5>1, <5>3
          <6>2. Answerable(d) => Answerable(d)'
            BY <2>3
          <6> QED
            BY <2>2, <5>1, <5>3, <6>1, <6>2 DEF EntryHolds, Answerable, Ended
        <5> QED
          BY <5>2, <5>3
      <4> QED
        BY <2>2, <4>1 DEF StillReady
    <3>3. InBody => AtSession'
      <4>1. ASSUME InBody PROVE AtSession' 
        <5>1. AtSession /\ client \in Clients /\ client' = client
          BY <2>2, <4>1, AtClient DEF ReportHolds, client
        <5>2. PICK d \in Clients : d = client
          BY <5>1
        <5>3. Ended(d) => Ended(d)'
          BY <2>3
        <5> QED
          BY <2>2, <5>1, <5>2, <5>3 DEF AtSession, Ended
      <4> QED
        BY <4>1
    <3>4. CASE pc \in {"loop", "read"}
      <4>1. StillReady(i)
        BY <3>4 DEF ReportHolds
      <4> QED
        BY <1>3, <2>2, <3>2, <3>3, <3>4, <4>1 DEF ReportHolds, StillReady, InBody
    <3>5. CASE pc = "write"
      <4>1. StillReady(i + 1) /\ i + 1 \in Nat \ {0}
        BY <1>3, <3>5 DEF ReportHolds
      <4> QED
        BY <2>2, <3>2, <3>3, <3>5, <4>1 DEF ReportHolds, StillReady, InBody
    <3> QED
      BY <2>5, <3>4, <3>5
  <2> QED
    BY <1>1, <2>2, <2>5
<1>6. CASE GetCountReadyTcpSessions
  <2>1. /\ pc' = "loop" /\ i' = 1 /\ Running /\ UNCHANGED <<cliVars, owner, tcpSessions>>
        /\ \A k \in 1 .. n : clientPollFdSet'[k].revents = Poll(clientPollFdSet[k].fd)
    BY <1>2, <1>6, PollEffect DEF GetCountReadyTcpSessions, Running
  <2>2. ASSUME NEW k \in 1 .. n, clientPollFdSet'[k].revents = "rdnorm"
        PROVE  IF k = 1 THEN backlog # <<>> ELSE Answerable(owner[tcpSessions[k]])
    <3>1. Poll(tcpSessions[k]) = "rdnorm"
      BY <1>2, <2>1, <2>2
    <3>2. CASE k = 1
      BY <1>2, <2>1, <3>1, <3>2 DEF Poll
    <3>3. CASE k # 1
      <4>1. k \in 2 .. n
        BY <1>2, <2>1, <3>3
      <4>2. PICK d \in Clients : d = owner[tcpSessions[k]]
        BY <1>2, <2>1, <4>1
      <4>3. peer[d] \notin {"rst", "finrst"} /\ Readable(d)
        BY <1>2, <2>1, <3>1, <4>1, <4>2 DEF Poll
      <4>4. Answerable(d)
        BY <4>3 DEF Readable, Answerable, Ended, TypeOK, CliTypeOK, PeerState
      <4> QED
        BY <3>3, <4>2, <4>4
    <3> QED
      BY <3>2, <3>3
  <2>3. ASSUME NEW k \in 1 .. n PROVE EntryHolds(k)'
    BY <2>1, <2>2 DEF EntryHolds, Answerable, Ended, cliVars
  <2> QED
    BY <2>1, <2>3 DEF ReportHolds, StillReady, InBody
<1>7. CASE Accept
  <2>1. PICK f \in Fds :
          /\ \A g \in OpenFds : owner'[g] = owner[g]
          /\ Len(tcpSessions') = n + 1
          /\ \A k \in 1 .. n : tcpSessions'[k] = tcpSessions[k]
          /\ \A k \in 1 .. n : clientPollFdSet'[k] = clientPollFdSet[k]
          /\ clientPollFdSet'[n + 1] = [fd |-> f, revents |-> "none"]
    BY <1>7, AcceptEffect
  <2>2. /\ pc = "loop" /\ Running /\ pc' = "loop" /\ i = 1 /\ i' = 2
        /\ UNCHANGED <<inbox, peer>>
    BY <1>7, AtClient DEF Accept, NewSocket, TakeConnection, Called, InLoop, Served, Running
  <2>3. ASSUME NEW k \in 2 .. n + 1 PROVE EntryHolds(k)'
    <3>1. CASE k = n + 1
      <4>1. clientPollFdSet'[k].revents = "none"
        BY <2>1, <3>1
      <4> QED
        BY <4>1 DEF EntryHolds
    <3>2. CASE k # n + 1
      <4>1. k \in 2 .. n /\ k \in 1 .. n /\ k # 1
        BY <1>2, <2>2, <3>2
      <4>2. EntryHolds(k)
        BY <2>2, <4>1 DEF ReportHolds, StillReady
      <4>3. PICK d \in Clients : d = owner[tcpSessions[k]]
        BY <1>2, <2>2, <4>1
      <4>4. owner'[tcpSessions'[k]] = d
        BY <1>2, <2>1, <2>2, <4>1, <4>3
      <4> QED
        BY <2>1, <2>2, <4>1, <4>2, <4>3, <4>4 DEF EntryHolds, Answerable, Ended
    <3> QED
      BY <3>1, <3>2
  <2> QED
    BY <2>1, <2>2, <2>3 DEF ReportHolds, StillReady, InBody
<1>8. CASE NotReady \/ Handle
  <2>1. /\ pc = "loop" /\ Running /\ i <= n /\ readyCount > 0
        /\ UNCHANGED <<cliVars, owner, clientPollFdSet, tcpSessions, readyCount>>
    BY <1>8 DEF NotReady, Handle, Called, InLoop, Running
  <2>2. ASSUME NEW k \in i .. n PROVE EntryHolds(k)'
    BY <2>1, <2>2 DEF ReportHolds, StillReady, EntryHolds, Answerable, Ended, cliVars
  <2>3. CASE NotReady
    <3>1. pc' = "loop" /\ i' = i + 1 /\ \A k \in i + 1 .. n : k \in i .. n
      BY <1>2, <1>3, <2>1, <2>3 DEF NotReady
    <3> QED
      BY <2>1, <2>2, <3>1 DEF ReportHolds, StillReady, InBody
  <2>4. CASE Handle
    <3>1. pc' = "read" /\ i' = i /\ clientPollFdSet[i].revents = "rdnorm"
      BY <2>4 DEF Handle, Called
    <3>2. i \in 2 .. n
      BY <2>4, AtClient DEF Handle
    <3> QED
      BY <2>1, <2>2, <3>1, <3>2 DEF ReportHolds, StillReady, AtSession
  <2> QED
    BY <1>8, <2>3, <2>4
<1>9. ASSUME InBody, UNCHANGED <<owner, clientPollFdSet, tcpSessions, backlog>>,
             \A d \in Clients : d # client => inbox'[d] = inbox[d] /\ peer'[d] = peer[d]
      PROVE  \A k \in i + 1 .. n : EntryHolds(k)'
  <2>1. i \in 2 .. n /\ Running
    BY <1>9, AtClient
  <2>2. \A k \in i + 1 .. n : EntryHolds(k)
    BY <1>3, <1>9 DEF InBody, ReportHolds, StillReady
  <2>3. ASSUME NEW k \in i + 1 .. n PROVE EntryHolds(k)'
    <3>1. k \in 2 .. n /\ k # i
      BY <2>1
    <3>2. PICK d \in Clients : d = owner[tcpSessions[k]]
      BY <1>2, <2>1, <3>1
    <3>3. d # client
      BY <1>2, <2>1, <3>1, <3>2 DEF client
    <3> QED
      BY <1>9, <2>2, <3>2, <3>3 DEF EntryHolds, Answerable, Ended
  <2> QED
    BY <2>3
<1>10. ReadFrom => UNCHANGED <<peer, backlog>> /\ \A d \in Clients : d # client => inbox'[d] = inbox[d]
  BY DEF ReadFrom, TakeData, cliVars, TypeOK, CliTypeOK
<1>11. CASE Read
  <2>1. /\ pc = "read" /\ pc' = "write" /\ ReadFrom /\ buffer' = inbox[client]
        /\ UNCHANGED <<owner, clientPollFdSet, tcpSessions, readyCount, i>>
    BY <1>11 DEF Read
  <2>2. \A k \in i + 1 .. n : EntryHolds(k)'
    BY <1>9, <1>10, <2>1 DEF InBody
  <2>3. i \in 2 .. n /\ AtSession
    BY <2>1, AtClient DEF InBody, ReportHolds
  <2>4. inbox[client] # <<>> \/ Ended(client)
    <3>1. EntryHolds(i) /\ clientPollFdSet[i].revents = "rdnorm"
      BY <2>1, <2>3 DEF ReportHolds, StillReady, AtSession
    <3> QED
      BY <2>3, <3>1 DEF EntryHolds, Answerable, client
  <2>5. AtSession'
    BY <1>10, <2>1, <2>3, <2>4 DEF AtSession, Ended, client
  <2> QED
    BY <2>1, <2>2, <2>5 DEF ReportHolds, StillReady
<1>12. CASE Receive \/ Write \/ WriteUnnoticed
  <2>1. /\ InBody /\ pc' = "loop" /\ i' = i + 1
        /\ UNCHANGED <<owner, clientPollFdSet, tcpSessions>>
    BY <1>12 DEF Receive, Write, WriteUnnoticed, Served, InBody
  <2>2. ReadFrom \/ PutData(client, buffer) \/ UNCHANGED cliVars
    BY <1>12 DEF Receive, Write, WriteUnnoticed
  <2>3. /\ UNCHANGED backlog
        /\ \A d \in Clients : d # client => inbox'[d] = inbox[d] /\ peer'[d] = peer[d]
    BY <1>10, <2>2 DEF PutData, cliVars, TypeOK, CliTypeOK
  <2>4. \A k \in i + 1 .. n : EntryHolds(k)'
    BY <1>9, <2>1, <2>3
  <2> QED
    BY <2>1, <2>4 DEF ReportHolds, StillReady, InBody
<1>13. CASE AcceptFails \/ WriteKills \/ EndOfRound \/ Destroy
  BY <1>1, <1>13 DEF AcceptFails, WriteKills, Die, EndOfRound, Destroy
<1> QED
  BY <1>4, <1>5, <1>6, <1>7, <1>8, <1>11, <1>12, <1>13 DEF Next, ServerStep

-----------------------------------------------------------------------------
(***************************************************************************)
(* The two handlers.                                                       *)
(***************************************************************************)

LEMMA NextHandlers ==
  ASSUME TypeOK, HandlersApart, [Next]_vars
  PROVE  HandlersApart' /\ handler' = handler
<1> USE DEF HandlersApart
<1>1. CASE EnvStep \/ UNCHANGED vars
  BY <1>1 DEF EnvStep, vars, srvVars
<1>2. CASE GetCountReadyTcpSessions \/ NotReady \/ Accept \/ Handle \/ Write \/ WriteUnnoticed
  BY <1>2 DEF GetCountReadyTcpSessions, NotReady, Accept, Handle, Write, WriteUnnoticed, Called,
              InLoop, Served
<1>3. CASE AcceptFails \/ WriteKills
  BY <1>3 DEF AcceptFails, WriteKills, Die
<1>4. CASE Read \/ Receive
  BY <1>4 DEF Read, Receive, Served
<1>5. CASE EndOfRound \/ Destroy
  BY <1>5 DEF EndOfRound, Destroy
<1> QED
  BY <1>1, <1>2, <1>3, <1>4, <1>5 DEF Next, ServerStep

\* No step of the receiver answers a client, and none of the server's steps
\* but write() does.
LEMMA NextNeverAnswered ==
  ASSUME TypeOK, Connected(Sessions), HandlersApart, NeverAnswered, [Next]_vars
  PROVE  NeverAnswered'
<1> SUFFICES ASSUME handler' = "receiver", NEW d \in Clients
             PROVE  Unanswered(d)'
  BY DEF NeverAnswered
<1>1. handler = "receiver" /\ pc # "write" /\ Unanswered(d)
  BY NextHandlers DEF HandlersApart, NeverAnswered
<1>2. UNCHANGED <<outbox, peer>> => Unanswered(d)'
  BY <1>1 DEF Unanswered
<1>3. CASE UNCHANGED vars
  BY <1>2, <1>3 DEF vars, cliVars
<1>4. CASE EnvStep
  <2>1. CliTypeOK /\ LeftConnection(d)
    BY DEF TypeOK, Connected, Connection
  <2> QED
    BY <1>1, <1>4, <2>1, ClientKeepsReadable DEF EnvStep
<1>5. CASE ServerStep
  <2>1. ~Write /\ ~WriteUnnoticed /\ ~WriteKills /\ ~Read
    BY <1>1 DEF Write, WriteUnnoticed, WriteKills, Read
  <2>2. UNCHANGED <<outbox, peer>>
    BY <1>5, <2>1
       DEF ServerStep, GetCountReadyTcpSessions, NotReady, Accept, NewSocket, TakeConnection,
           AcceptFails, Die, CloseAll, Handle, Receive, ReadFrom, TakeData, EndOfRound, Destroy,
           cliVars
  <2> QED
    BY <1>2, <2>2
<1> QED
  BY <1>3, <1>4, <1>5 DEF Next

LEMMA NextOneAtATime ==
  ASSUME TypeOK, Connected(Sessions), HandlersApart, OneAtATime, [Next]_vars
  PROVE  OneAtATime'
<1> SUFFICES ASSUME handler' = "receiver", NEW c \in Clients \ Eager
             PROVE  Waiting(c, <<>>)'
  BY DEF OneAtATime
<1>1. handler = "receiver" /\ pc # "write" /\ Waiting(c, <<>>) /\ CliTypeOK
  BY NextHandlers DEF HandlersApart, OneAtATime, TypeOK
<1>2. PICK held : held = <<>>
  OBVIOUS
<1>3. Waiting(c, held)
  BY <1>1, <1>2
<1> SUFFICES Waiting(c, held)'
  BY <1>2
<1>4. TakeConnection \/ UNCHANGED cliVars => Waiting(c, held)'
  BY <1>1, <1>3, WaitingCalls
<1>5. CASE UNCHANGED vars
  BY <1>4, <1>5 DEF vars
<1>6. CASE EnvStep
  <2>1. LeftConnection(c)
    BY DEF Connected, Connection
  <2> QED
    BY <1>1, <1>3, <1>6, <2>1, WaitingClientStep DEF EnvStep
<1>7. CASE \/ GetCountReadyTcpSessions \/ NotReady \/ Accept \/ Handle \/ EndOfRound
  <2>1. UNCHANGED cliVars \/ TakeConnection
    BY <1>7 DEF GetCountReadyTcpSessions, NotReady, Accept, NewSocket, Handle, EndOfRound
  <2> QED
    BY <1>4, <2>1
<1>8. CASE AcceptFails \/ Destroy
  <2>1. \E cs : CloseAll(cs)
    BY <1>8 DEF AcceptFails, Die, Destroy
  <2> QED
    BY <1>1, <1>2, <1>3, <2>1, WaitingCalls
<1>9. CASE Receive
  <2>1. CASE UNCHANGED cliVars
    BY <1>4, <2>1
  <2>2. CASE TakeData(client)
    <3>1. CASE client = c
      BY <1>1, <1>2, <1>3, <2>2, <3>1, WaitingCalls
    <3>2. CASE client # c
      BY <1>1, <1>3, <2>2, <3>2, WaitingCalls
    <3> QED
      BY <3>1, <3>2
  <2> QED
    BY <1>9, <2>1, <2>2 DEF Receive, ReadFrom
<1>10. ~Write /\ ~WriteUnnoticed /\ ~WriteKills /\ ~Read
  BY <1>1 DEF Write, WriteUnnoticed, WriteKills, Read
<1> QED
  BY <1>5, <1>6, <1>7, <1>8, <1>9, <1>10 DEF Next, ServerStep

-----------------------------------------------------------------------------
(***************************************************************************)
(* The messages.                                                           *)
(***************************************************************************)

\* No step of a client makes a message wrong: it cannot take back the end of
\* its stream, and it waits for the answer to the line that is the message.
LEMMA ClientKeepsMessage ==
  ASSUME TypeOK, Connected(Sessions), HandlersApart, NeverAnswered,
         handler = "receiver", UNCHANGED owner,
         NEW c \in Clients, ClientStep(c), NEW m \in Message, MessageHolds(m)
  PROVE  MessageHolds(m)'
<1>1. PICK d \in Clients : d = m.from
  BY DEF Message
<1>2. PICK data : data = m.data
  OBVIOUS
<1> DEFINE Empty == data = <<>> /\ peer[d] = "fin"
           Genuine == /\ data = <<line[d]>> /\ inbox[d] = <<>>
                      /\ cli[d] \in {"reading", "done"}
           Pushed == data # <<>> /\ d \in Eager
<1>3. d \in Sessions /\ (Empty \/ Pushed \/ Genuine)
  BY <1>1, <1>2 DEF MessageHolds
<1>4. Sessions' = Sessions
  BY DEF Sessions, OpenFds
<1>5. d \in Sessions' /\ (Empty \/ Pushed \/ Genuine)' => MessageHolds(m)'
  BY <1>1, <1>2 DEF MessageHolds
<1>6. CASE d # c
  <2>1. cli'[d] = cli[d] /\ line'[d] = line[d] /\ inbox'[d] = inbox[d] /\ peer'[d] = peer[d]
    BY <1>6, ClientStepOwn DEF TypeOK
  <2> QED
    BY <1>3, <1>4, <1>5, <2>1
<1>7. CASE d = c
  <2>1. Unanswered(d)
    BY DEF NeverAnswered
  <2>2. CASE Empty
    <3>1. peer'[d] = "fin"
      <4>1. outbox[d] = <<>> /\ peer[d] = "fin"
        BY <2>1, <2>2 DEF Unanswered
      <4> QED
        BY <1>7, <4>1, ClientStepOwn DEF TypeOK
    <3> QED
      BY <1>3, <1>4, <1>5, <2>2, <3>1
  <2>3. CASE Pushed
    BY <1>3, <1>4, <1>5, <2>3
  <2>4. CASE Genuine /\ ~Pushed
    <3>1. d \in Clients \ Eager
      BY <2>4
    <3>2. end[d] = "up" /\ outbox[d] = <<>>
      BY <1>3, <2>1 DEF Connected, Connection, OpenConnection, Unanswered
    <3>3. line'[d] = line[d] /\ inbox'[d] = inbox[d] /\ cli'[d] \in {"reading", "done"}
      BY <1>7, <2>4, <3>1, <3>2, ReaderStays DEF TypeOK
    <3> QED
      BY <1>3, <1>4, <1>5, <2>4, <3>3
  <2> QED
    BY <1>3, <2>2, <2>3, <2>4
<1> QED
  BY <1>6, <1>7

LEMMA NextMessages ==
  ASSUME TypeOK, VectorsRunInParallel, SessionsKept, Connected(Sessions), ReportHolds,
         HandlersApart, NeverAnswered, OneAtATime, MessagesHold, [Next]_vars
  PROVE  MessagesHold'
<1>1. CASE ~Running'
  <2>1. pc' = "stopped" => Destroy \/ (pc = "stopped" /\ UNCHANGED messages)
    <3>1. CASE EnvStep \/ UNCHANGED vars
      BY <3>1 DEF EnvStep, vars, srvVars
    <3>2. CASE AcceptFails \/ WriteKills
      BY <3>2, DieEffect DEF AcceptFails, WriteKills
    <3>3. CASE GetCountReadyTcpSessions \/ Accept
      BY <3>3 DEF GetCountReadyTcpSessions, Accept, Served
    <3> QED
      BY <1>1, <3>1, <3>2, <3>3, QuietStep DEF Next, ServerStep
  <2> QED
    BY <1>1, <2>1 DEF MessagesHold, Destroy
<1>2. CASE handler' = "echo"
  <2>1. messages' = <<>>
    BY <1>2, NextHandlers DEF HandlersApart
  <2> QED
    BY <2>1 DEF MessagesHold, OneLineEach
<1> SUFFICES ASSUME Running', handler = "receiver"
             PROVE  MessagesHold'
  BY <1>1, <1>2, NextHandlers DEF TypeOK
<1>3. pc # "write" /\ \A c \in Clients : Unanswered(c)
  BY DEF HandlersApart, NeverAnswered
<1>4. \A k \in DOMAIN messages : messages[k] \in Message
  BY ElementOfSeq DEF TypeOK
<1>5. ASSUME UNCHANGED messages, Running,
             \A m \in Message : MessageHolds(m) => MessageHolds(m)'
      PROVE  MessagesHold'
  <2>1. OneLineEach' /\ \A k \in DOMAIN messages : MessageHolds(messages[k])
    BY <1>5 DEF MessagesHold, OneLineEach
  <2> QED
    BY <1>4, <1>5, <2>1 DEF MessagesHold, Running
<1>6. ASSUME Sessions \subseteq Sessions', UNCHANGED <<cli, line, peer>>,
             \A d \in Clients : inbox'[d] \in {inbox[d], <<>>},
             NEW m \in Message, MessageHolds(m)
      PROVE  MessageHolds(m)'
  <2>1. m.from \in Clients
    BY DEF Message
  <2> QED
    BY <1>6, <2>1 DEF MessageHolds
<1>7. UNCHANGED owner => Sessions' = Sessions
  BY DEF Sessions, OpenFds
<1>8. CASE UNCHANGED vars
  BY <1>5, <1>6, <1>7, <1>8 DEF vars, cliVars, srvVars, Running
<1>9. CASE EnvStep
  <2>1. UNCHANGED <<messages, owner>> /\ Running
    BY <1>9 DEF EnvStep, srvVars, Running
  <2>2. \A m \in Message : MessageHolds(m) => MessageHolds(m)'
    BY <1>9, <2>1, ClientKeepsMessage DEF EnvStep
  <2> QED
    BY <1>5, <2>1, <2>2
<1>10. CASE GetCountReadyTcpSessions \/ NotReady \/ Handle \/ EndOfRound
  <2>1. UNCHANGED <<messages, owner>> /\ Running /\ UNCHANGED cliVars
    BY <1>10 DEF GetCountReadyTcpSessions, NotReady, Handle, EndOfRound, Called, InLoop, Running
  <2> QED
    BY <1>5, <1>6, <1>7, <2>1 DEF cliVars
<1>11. CASE Accept
  <2>1. UNCHANGED <<messages, cli, line, peer, inbox>> /\ Running
    BY <1>11 DEF Accept, NewSocket, TakeConnection, Called, InLoop, Running
  <2>2. Sessions \subseteq Sessions'
    BY <1>11, AcceptEffect
  <2> QED
    BY <1>5, <1>6, <2>1, <2>2
<1>12. CASE AcceptFails \/ Destroy
  BY <1>12, DieEffect DEF AcceptFails, Destroy, Running
<1>13. CASE Receive
  <2>1. PICK c \in Clients : c = client
    BY <1>13, AtClient DEF Receive, InBody
  <2>2. PICK data \in Seq(Lines) : data = inbox[c]
    BY DEF TypeOK, CliTypeOK
  <2>3. /\ pc = "read" /\ Running /\ UNCHANGED owner
        /\ messages' = Append(messages, [from |-> c, data |-> data])
        /\ ReadFrom
    BY <1>13, <2>1, <2>2 DEF Receive, Running
  <2>4. PICK new \in Message : new = [from |-> c, data |-> data]
    BY DEF Message
  <2>5. /\ UNCHANGED <<cli, line, peer>> /\ inbox'[c] = <<>>
        /\ \A d \in Clients : inbox'[d] \in {inbox[d], <<>>}
    BY <2>1, <2>3 DEF ReadFrom, TakeData, AtEof, AtReset, cliVars, TypeOK, CliTypeOK
  <2>6. c \in Sessions /\ Sessions' = Sessions
    BY <1>7, <2>1, <2>3, AtClient DEF InBody
  <2>7. data = <<>> => peer[c] = "fin"
    <3>1. /\ AtSession /\ StillReady(i) /\ i \in 2 .. Len(tcpSessions)
          /\ clientPollFdSet[i].revents = "rdnorm"
      BY <2>3, AtClient DEF ReportHolds, InBody, AtSession
    <3>2. Answerable(c)
      BY <2>1, <3>1 DEF StillReady, EntryHolds, client
    <3>3. Unanswered(c)
      BY <1>3
    <3> QED
      BY <2>2, <3>2, <3>3 DEF Answerable, Ended, Unanswered
  <2>8. data # <<>> /\ c \notin Eager =>
          data = <<line[c]>> /\ cli[c] \in {"reading", "done"}
    <3>1. c \notin Eager => Waiting(c, <<>>)
      BY DEF OneAtATime
    <3>2. cli[c] \in CliState
      BY DEF TypeOK, CliTypeOK
    <3> QED
      BY <2>2, <3>1, <3>2 DEF Waiting, OneLineUnderWay, CliState
  <2>9. MessageHolds(new)'
    <3>1. new.from = c /\ new.data = data
      BY <2>4
    <3> QED
      BY <2>5, <2>6, <2>7, <2>8, <3>1 DEF MessageHolds
  <2>10. PICK n \in Nat : n = Len(messages)
    BY DEF TypeOK
  <2>11. /\ DOMAIN messages = 1 .. n /\ DOMAIN messages' = 1 .. n + 1
         /\ \A k \in 1 .. n : messages'[k] = messages[k]
         /\ messages'[n + 1] = new
    <3>1. messages \in Seq(Message) /\ messages' = Append(messages, new)
      BY <2>3, <2>4 DEF TypeOK
    <3> QED
      BY <2>10, <3>1, AppendProperties
  <2>12. \A k \in 1 .. n + 1 : k \in 1 .. n \/ k = n + 1
    BY <2>10
  <2>13. OneLineEach /\ \A k \in 1 .. n : MessageHolds(messages[k])
    BY <2>3, <2>11 DEF MessagesHold
  <2>14. ASSUME NEW k \in DOMAIN messages' PROVE MessageHolds(messages[k])'
    <3>1. CASE k = n + 1
      BY <2>9, <2>11, <3>1 DEF MessageHolds
    <3>2. CASE k \in 1 .. n
      <4>1. PICK m \in Message : m = messages[k]
        BY <1>4, <2>11, <3>2
      <4>2. MessageHolds(m)'
        BY <1>6, <2>5, <2>6, <2>13, <3>2, <4>1
      <4>3. messages'[k] = m
        BY <2>11, <3>2, <4>1
      <4> QED
        BY <4>2, <4>3 DEF MessageHolds
    <3> QED
      BY <2>11, <2>12, <3>1, <3>2
  <2>15. ASSUME NEW k \in 1 .. n, messages[k].from = c, c \notin Eager,
                messages[k].data # <<>>
         PROVE  data = <<>>
    BY <2>2, <2>13, <2>15 DEF MessageHolds
  <2>16. OneLineEach'
    <3>1. new.from = c /\ new.data = data
      BY <2>4
    <3>2. ASSUME NEW j \in 1 .. n, NEW k \in 1 .. n,
                 messages[j].from = messages[k].from, messages[j].from \notin Eager,
                 messages[j].data # <<>>, messages[k].data # <<>>
          PROVE  j = k
      BY <2>11, <2>13, <3>2 DEF OneLineEach
    <3> QED
      BY ONLY <2>11, <2>12, <2>15, <3>1, <3>2 DEF OneLineEach
  <2> QED
    BY <2>14, <2>16 DEF MessagesHold, Running
<1>14. ~Write /\ ~WriteUnnoticed /\ ~WriteKills /\ ~Read
  BY <1>3 DEF Write, WriteUnnoticed, WriteKills, Read
<1> QED
  BY <1>8, <1>9, <1>10, <1>11, <1>12, <1>13, <1>14 DEF Next, ServerStep

-----------------------------------------------------------------------------
(***************************************************************************)
(* The theorems.                                                           *)
(***************************************************************************)

LEMMA InitIInv == Init => IInv
<1> SUFFICES ASSUME Init PROVE IInv
  OBVIOUS
<1> USE FdAssumption DEF Init, CliInit
<1>1. OpenFds = {} /\ Sessions = {}
  BY DEF OpenFds, Sessions
<1>2. CliTypeOK /\ Connected({}) /\ \A c \in Clients : Waiting(c, <<>>)
  BY InitConnections DEF Init
<1>3. /\ clientPollFdSet \in Seq(Pollfd) /\ DOMAIN clientPollFdSet = 1 .. 1
      /\ clientPollFdSet[1] = [fd |-> ListenFd, revents |-> "none"]
  <2>1. [fd |-> ListenFd, revents |-> "none"] \in Pollfd
    BY DEF Pollfd, Revents
  <2> QED
    BY <2>1
<1>4. /\ tcpSessions \in Seq(Fds \cup {ListenFd}) /\ DOMAIN tcpSessions = 1 .. 1
      /\ Len(tcpSessions) = 1 /\ tcpSessions[1] = ListenFd
  OBVIOUS
<1>5. TypeOK
  BY <1>2, <1>3, <1>4, EmptySeq DEF TypeOK, SrvState
<1>6. VectorsRunInParallel /\ SessionsKept
  <2>1. tcpSessions = [k \in DOMAIN clientPollFdSet |-> clientPollFdSet[k].fd]
    <3>1. tcpSessions = [k \in 1 .. 1 |-> ListenFd]
      OBVIOUS
    <3> QED
      BY <1>3, <3>1
  <2> QED
    BY <1>1, <1>4, <2>1 DEF VectorsRunInParallel, SessionsKept
<1>7. Connected(Sessions)
  BY <1>1, <1>2
<1>8. ReportHolds
  BY DEF ReportHolds, InBody
<1>9. HandlersApart /\ NeverAnswered /\ OneAtATime
  BY <1>2 DEF HandlersApart, NeverAnswered, Unanswered, OneAtATime
<1>10. MessagesHold
  BY DEF MessagesHold, OneLineEach
<1> QED
  BY <1>5, <1>6, <1>7, <1>8, <1>9, <1>10 DEF IInv

LEMMA NextIInv == IInv /\ [Next]_vars => IInv'
<1> SUFFICES ASSUME IInv, [Next]_vars PROVE IInv'
  OBVIOUS
<1>1. TypeOK'
  BY NextTyped DEF IInv
<1>2. VectorsRunInParallel' /\ SessionsKept'
  BY NextVectors DEF IInv
<1>3. Connected(Sessions)'
  BY NextConnected DEF IInv
<1>4. ReportHolds'
  BY NextReport DEF IInv
<1>5. HandlersApart'
  BY NextHandlers DEF IInv
<1>6. NeverAnswered'
  BY NextNeverAnswered DEF IInv
<1>7. OneAtATime'
  BY NextOneAtATime DEF IInv
<1>8. MessagesHold'
  BY NextMessages DEF IInv
<1> QED
  BY <1>1, <1>2, <1>3, <1>4, <1>5, <1>6, <1>7, <1>8 DEF IInv

\* The inductive invariant holds in every state the program and its clients
\* reach, with either handler; the theorems below are read off it.
THEOREM IInvHolds == Spec => []IInv
BY InitIInv, NextIInv, PTL DEF Spec

\* Every variable of the acceptor, of its handlers and of its connections
\* keeps its type: readyCount does not fall below zero.
THEOREM TypeCorrect == Spec => []TypeOK
<1>1. IInv => TypeOK
  BY DEF IInv
<1> QED
  BY <1>1, IInvHolds, PTL

\* The entries of poll() and the sessions name the same descriptors in the
\* same order, although the handler of the first one appends to both vectors
\* while the loop runs over them; and the destructor leaves none open.
THEOREM VectorsParallel == Spec => []VectorsRunInParallel
<1>1. IInv => VectorsRunInParallel
  BY DEF IInv
<1> QED
  BY <1>1, IInvHolds, PTL

\* Neither accept() nor read() blocks the one thread: each handler is called
\* for what poll() found in this round, and that is still there.
THEOREM NeverBlocks == Spec => []NeverBlocksOutsidePoll
<1>1. IInv => NeverBlocksOutsidePoll
  <2> SUFFICES ASSUME IInv PROVE NeverBlocksOutsidePoll
    OBVIOUS
  <2>1. ASSUME Called, tcpSessions[i] = ListenFd PROVE backlog # <<>>
    <3>1. i = 1 /\ 1 \in 1 .. Len(tcpSessions) /\ StillReady(1)
      BY <2>1, AtClient DEF IInv, ReportHolds, Called, InLoop, TypeOK
    <3> QED
      BY <2>1, <3>1 DEF StillReady, EntryHolds, Called
  <2>2. ASSUME pc = "read" PROVE Readable(client)
    <3>1. /\ i \in 2 .. Len(tcpSessions) /\ StillReady(i)
          /\ clientPollFdSet[i].revents = "rdnorm"
      BY <2>2, AtClient DEF IInv, ReportHolds, InBody, AtSession
    <3>2. Answerable(client)
      BY <3>1 DEF StillReady, EntryHolds, client
    <3> QED
      BY <3>2 DEF Answerable, Ended, Readable
  <2> QED
    BY <2>1, <2>2 DEF NeverBlocksOutsidePoll
<1> QED
  BY <1>1, IInvHolds, PTL

\* The receiver's messages are what its clients sent: a message without data
\* comes only from a client that has left, and one that waits for an answer
\* is the sender of at most one other message, the line it wrote.
THEOREM MessagesGenuine == Spec => []MessagesAreGenuine
<1>1. IInv => MessagesAreGenuine
  <2> SUFFICES ASSUME IInv, pc # "dead", NEW k \in DOMAIN messages
               PROVE  LET m == messages[k]
                      IN  \/ m.data = <<>> /\ peer[m.from] = "fin"
                          \/ m.data # <<>> /\ m.from \in Eager
                          \/ /\ m.data = <<line[m.from]>> /\ inbox[m.from] = <<>>
                             /\ \A j \in DOMAIN messages \ {k} :
                                  messages[j].from = m.from => messages[j].data = <<>>
    BY DEF MessagesAreGenuine
  <2>1. CASE Running
    <3>1. MessageHolds(messages[k]) /\ OneLineEach
      BY <2>1 DEF IInv, MessagesHold
    <3>2. ASSUME messages[k].from \notin Eager, messages[k].data # <<>>,
                 NEW j \in DOMAIN messages \ {k}, messages[j].from = messages[k].from
          PROVE  messages[j].data = <<>>
      BY <3>1, <3>2 DEF OneLineEach
    <3>3. <<line[messages[k].from]>> # <<>>
      OBVIOUS
    <3>4. PICK m : m = messages[k]
      OBVIOUS
    <3>5. CASE m.data = <<>> \/ m.from \in Eager
      BY <3>1, <3>3, <3>4, <3>5 DEF MessageHolds
    <3>6. CASE m.data # <<>> /\ m.from \notin Eager
      BY <3>1, <3>2, <3>4, <3>6 DEF MessageHolds
    <3> QED
      BY <3>5, <3>6
  <2>2. CASE ~Running
    BY <2>2 DEF Running, IInv, MessagesHold
  <2> QED
    BY <2>1, <2>2
<1> QED
  BY <1>1, IInvHolds, PTL

\* A client that dies while its line is served does not end the server by it:
\* write() is fatal only to a client that left in order, was sent zeros, and
\* whose reset then comes between poll() and the next write().
THEOREM LateResetsKill == Spec => OnlyLateResetsKill
<1>1. IInv /\ [Next]_vars =>
        (pc # "dead" /\ pc' = "dead" =>
           \/ pc = "loop" /\ OpenFds = Fds
           \/ pc = "write" /\ peer[client] = "finrst" /\ cli[client] = "done")
  <2> SUFFICES ASSUME IInv, [Next]_vars, pc # "dead", pc' = "dead"
               PROVE  \/ pc = "loop" /\ OpenFds = Fds
                      \/ pc = "write" /\ peer[client] = "finrst" /\ cli[client] = "done"
    OBVIOUS
  <2>1. AcceptFails \/ WriteKills
    <3>1. ~EnvStep /\ ~UNCHANGED vars
      BY DEF EnvStep, vars, srvVars
    <3>2. ~GetCountReadyTcpSessions /\ ~Accept /\ ~Destroy
      BY DEF GetCountReadyTcpSessions, Accept, Served, Destroy
    <3>3. ~(\/ NotReady \/ Handle \/ Read \/ Receive \/ Write \/ WriteUnnoticed \/ EndOfRound)
      BY QuietStep DEF Running
    <3> QED
      BY <3>1, <3>2, <3>3 DEF Next, ServerStep
  <2>2. CASE AcceptFails
    BY <2>2 DEF AcceptFails, Called, InLoop
  <2>3. CASE WriteKills
    <3>1. /\ pc = "write" /\ client \in Clients
          /\ buffer # <<>> \/ Ended(client)
      BY <2>3, AtClient DEF WriteKills, IInv, InBody, ReportHolds, AtSession
    <3>2. peer[client] = "finrst"
      BY <2>3, <3>1 DEF WriteKills, Ended
    <3>3. LeftConnection(client)
      BY <3>1 DEF IInv, Connected, Connection
    <3> QED
      BY <3>1, <3>2, <3>3 DEF LeftConnection
  <2> QED
    BY <2>1, <2>2, <2>3
<1> QED
  BY <1>1, IInvHolds, PTL DEF Spec, OnlyLateResetsKill

-----------------------------------------------------------------------------
(***************************************************************************)
(* The refinement of EchoService.                                          *)
(***************************************************************************)

InHands == [c \in Clients |-> InService(c)]

Asked == [c \in Clients |-> InService(c) \o inbox[c]]

LEMMA InitServed == Init => Echo!Init
<1> SUFFICES ASSUME Init PROVE Echo!Init
  OBVIOUS
<1>1. [c \in Clients |-> Place(c)] = [c \in Clients |-> "out"]
  BY DEF Init, CliInit, Place
<1>2. [c \in Clients |-> InService(c) \o inbox[c]] = [c \in Clients |-> <<>>]
  <2>1. <<>> \o <<>> = <<>>
    OBVIOUS
  <2> QED
    BY <2>1 DEF Init, CliInit, InService
<1> QED
  BY <1>1, <1>2 DEF Init, CliInit, Echo!Init

\* The service is open as long as the server lives.
Open == pc # "dead"

LEMMA NextServed ==
  ASSUME TypeOK, VectorsRunInParallel, SessionsKept, Connected(Sessions), ReportHolds,
         HandlersApart, handler = "echo", [Next]_vars
  PROVE  [Echo!Next]_(Echo!vars)
<1>1. PICK held : held = InHands
  OBVIOUS
<1>2. PICK new : new = InHands'
  OBVIOUS
<1>3. PICK S : S = Sessions
  OBVIOUS
<1>4. Asked = UnderWay(held, inbox) /\ Asked' = UnderWay(new, inbox')
  BY <1>1, <1>2 DEF Asked, InHands, UnderWay
<1>5. /\ CliTypeOK /\ S \in SUBSET Clients /\ Connected(S)
      /\ held \in [Clients -> Seq(Lines)]
  <2>1. Sessions \in SUBSET Clients
    BY DEF Sessions, OpenFds, TypeOK
  <2> QED
    BY <1>1, <1>3, <2>1, EmptySeq DEF TypeOK, InHands, InService
<1>6. ASSUME ClientServed(held), new = held, UNCHANGED Open
      PROVE  [Echo!Next]_(Echo!vars)
  <2> USE <1>4, <1>6 DEF Appends, Empties, Asked, Places, Open
  <2>1. ASSUME NEW c \in Clients, Places[c] = "out",
               Places' = [Places EXCEPT ![c] = "in"], Asked' = Asked, UNCHANGED outbox
        PROVE  Echo!Join(c)
    BY <2>1 DEF Echo!Join
  <2>2. ASSUME NEW c \in Clients, NEW l \in Lines, Places[c] = "in",
               Appends(Asked, Asked', c, l), UNCHANGED Places, UNCHANGED outbox
        PROVE  Echo!Ask(c, l)
    BY <2>2 DEF Echo!Ask
  <2>3. ASSUME NEW c \in Clients, Places[c] \in {"in", "cut"},
               Empties(outbox, outbox', c), Asked' = Asked, UNCHANGED Places
        PROVE  Echo!Collect(c)
    BY <2>3 DEF Echo!Collect
  <2>4. ASSUME NEW c \in Clients, Places' = [Places EXCEPT ![c] = "left"],
               Empties(outbox, outbox', c), Asked' = Asked
        PROVE  Echo!Leave(c)
    BY <2>4 DEF Echo!Leave
  <2>5. Asked' = Asked /\ UNCHANGED <<Places, outbox>> => UNCHANGED Echo!vars
    BY DEF Echo!vars
  <2> QED
    BY <2>1, <2>2, <2>3, <2>4, <2>5 DEF ClientServed, Echo!Next
<1>7. ASSUME ServerServed(NoLine, held, new), Open, Open'
      PROVE  [Echo!Next]_(Echo!vars)
  <2>1. ASSUME NEW c \in Clients, held[c] # <<NoLine>>,
               Consumes(Asked, Asked', c, held[c]), UNCHANGED Places,
               outbox' = IF Places[c] = "in" THEN [outbox EXCEPT ![c] = @ \o held[c]]
                         ELSE outbox
        PROVE  Echo!Next
    <3>1. Echo!Answer(c, Len(held[c]))
      BY <1>7, <2>1 DEF Echo!Answer, Consumes, Asked, Places, Open
    <3> QED
      BY <2>1, <3>1 DEF Echo!Next, Consumes, Asked
  <2>2. ASSUME NEW c \in Clients, Asked[c] = <<NoLine>>, Empties(Asked, Asked', c),
               UNCHANGED outbox, UNCHANGED Places
        PROVE  Echo!HearStop(c)
    BY <1>7, <2>2 DEF Echo!HearStop, Empties, Asked, Places, Open
  <2>3. Asked' = Asked /\ UNCHANGED outbox /\ UNCHANGED Places => UNCHANGED Echo!vars
    BY <1>7 DEF Echo!vars, Asked, Places, Open
  <2> QED
    BY <1>4, <1>7, <2>1, <2>2, <2>3 DEF ServerServed, Echo!Next
<1>8. ASSUME NEW cs, EndServed(cs, held, new), ~Open'
      PROVE  [Echo!Next]_(Echo!vars)
  <2>1. /\ cs \in SUBSET Clients /\ Places' = Cut(cs)
        /\ Asked' = Cleared(Asked, cs) /\ UNCHANGED outbox
    BY <1>4, <1>8 DEF EndServed
  <2>2. Echo!End(cs)
    BY <1>8, <2>1 DEF Echo!End, Cut, Cleared, Asked, Places, Open
  <2> QED
    BY <2>1, <2>2 DEF Echo!Next
<1>9. /\ pc # "write" => held = [c \in Clients |-> <<>>]
      /\ pc' # "write" => new = [c \in Clients |-> <<>>]
  BY <1>1, <1>2 DEF InHands, InService
<1>10. CASE UNCHANGED vars \/ EnvStep
  <2>1. new = held /\ UNCHANGED Open
    BY <1>1, <1>2, <1>10 DEF EnvStep, vars, srvVars, InHands, InService, client, Open
  <2>2. UNCHANGED cliVars \/ \E c \in Clients : ClientStep(c)
    BY <1>10 DEF EnvStep, vars
  <2> QED
    BY <1>5, <1>6, <2>1, <2>2, ClientServes
<1>11. CASE \/ GetCountReadyTcpSessions \/ NotReady \/ Accept \/ Handle \/ EndOfRound
  <2>1. pc # "write" /\ pc' # "write" /\ Open /\ Open'
    BY <1>11 DEF GetCountReadyTcpSessions, NotReady, Accept, Handle, EndOfRound, Called, InLoop,
                 Served, Open
  <2>2. UNCHANGED cliVars \/ TakeConnection
    BY <1>11 DEF GetCountReadyTcpSessions, NotReady, Accept, NewSocket, Handle, EndOfRound
  <2> QED
    BY <1>5, <1>7, <1>9, <2>1, <2>2, CallsServe
<1>12. ASSUME InBody
       PROVE  Open /\ client \in S \cap Clients
  BY <1>3, <1>12, AtClient DEF Open, Running
<1>13. CASE Read
  <2>1. PICK c \in Clients : c = client
    BY <1>12, <1>13 DEF Read, InBody
  <2>2. /\ pc = "read" /\ pc' = "write" /\ buffer' = inbox[c] /\ client' = c
        /\ TakeData(c) \/ (inbox[c] = <<>> /\ UNCHANGED cliVars)
    BY <1>13, <2>1 DEF Read, ReadFrom, AtEof, AtReset, client
  <2>3. held = [d \in Clients |-> <<>>] /\ Open /\ Open'
    BY <1>9, <2>2 DEF Open
  <2>4. new = [d \in Clients |-> IF d = c THEN inbox[c] ELSE <<>>]
    BY <1>2, <2>2 DEF InHands, InService
  <2>5. CASE TakeData(c)
    <3>1. Takes(held, new, c, inbox[c])
      BY <2>3, <2>4 DEF Takes
    <3>2. held[c] = <<>>
      BY <2>3
    <3> QED
      BY <1>5, <1>7, <2>3, <2>5, <3>1, <3>2, CallsServe
  <2>6. CASE inbox[c] = <<>> /\ UNCHANGED cliVars
    <3>1. new = held
      BY <2>3, <2>4, <2>6
    <3> QED
      BY <1>5, <1>7, <2>3, <2>6, <3>1, CallsServe
  <2> QED
    BY <2>2, <2>5, <2>6
<1>14. ASSUME Write \/ WriteUnnoticed,
              NEW c, c = client
       PROVE  /\ held[c] = buffer /\ Empties(held, new, c) /\ held[c] # <<NoLine>>
              /\ c \in S /\ Open /\ Open'
  <2>1. pc = "write" /\ pc' = "loop" /\ c \in S \cap Clients
    BY <1>12, <1>14 DEF Write, WriteUnnoticed, Served, InBody
  <2>2. held = [d \in Clients |-> IF d = c THEN buffer ELSE <<>>]
    BY <1>1, <1>14, <2>1 DEF InHands, InService
  <2>3. held[c] = buffer /\ Empties(held, new, c)
    BY <1>5, <1>9, <2>1, <2>2 DEF Empties
  <2>4. buffer # <<NoLine>>
    <3>1. buffer \in Seq(Lines) /\ NoLine \notin Lines
      BY ClientsAssumption DEF TypeOK
    <3>2. buffer # <<>> => buffer[1] \in Lines
      BY <3>1
    <3>3. <<NoLine>> # <<>> /\ <<NoLine>>[1] = NoLine
      OBVIOUS
    <3> QED
      BY <3>1, <3>2, <3>3
  <2> QED
    BY <2>1, <2>3, <2>4 DEF Open
<1>15. CASE Write
  <2>1. PICK c : c = client
    OBVIOUS
  <2>2. PutData(c, held[c])
    BY <1>14, <1>15, <2>1 DEF Write
  <2> QED
    BY <1>5, <1>7, <1>14, <1>15, <2>1, <2>2, CallsServe
<1>16. CASE WriteUnnoticed
  <2>1. PICK c : c = client
    OBVIOUS
  <2>2. peer[c] # "up" /\ UNCHANGED <<cli, end, inbox, outbox>>
    BY <1>16, <2>1 DEF WriteUnnoticed, cliVars
  <2> QED
    BY <1>5, <1>7, <1>14, <1>16, <2>1, <2>2, CallsServe
<1>17. CASE AcceptFails \/ WriteKills
  <2>1. CloseAll(S) /\ ~Open' /\ pc' # "write"
    BY <1>3, <1>17, DieEffect DEF AcceptFails, WriteKills, Open
  <2>2. new = Cleared(held, S \cup Queued)
    <3>1. CASE pc # "write"
      BY <1>9, <2>1, <3>1 DEF Cleared
    <3>2. CASE pc = "write"
      <4>1. client \in S
        BY <1>12, <3>2 DEF InBody
      <4>2. held = [d \in Clients |-> IF d = client THEN buffer ELSE <<>>]
        BY <1>1, <3>2 DEF InHands, InService
      <4> QED
        BY <1>9, <2>1, <4>1, <4>2 DEF Cleared
    <3> QED
      BY <3>1, <3>2
  <2> QED
    BY <1>5, <1>8, <2>1, <2>2, CallsServe
<1>18. ~Receive /\ ~Destroy
  BY DEF Receive, Destroy, HandlersApart
<1> QED
  BY <1>10, <1>11, <1>13, <1>15, <1>16, <1>17, <1>18 DEF Next, ServerStep

\* With the echo handler the server keeps the promise of the echo service:
\* each answer is a client's own lines, in order, none twice, and no text is
\* taken for a stop, whatever resets write() fails to notice.
THEOREM Implements == Spec => ImplementsEchoService
<1>1. IInv /\ [Next]_vars => [handler = "echo" => Echo!Next]_(Echo!vars)
  BY NextServed DEF IInv
<1> QED
  BY <1>1, InitServed, IInvHolds, PTL DEF Spec, ImplementsEchoService
=============================================================================
