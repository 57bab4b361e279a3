--------------------------- MODULE EchoFifoProofs ---------------------------
(***************************************************************************)
(* Proofs about EchoFifo, for every number of clients and runs: what the   *)
(* table of sessions relies on, that the first answer of the server is its *)
(* greeting, and what the server can crash of.                             *)
(***************************************************************************)
EXTENDS EchoFifo, SequenceFacts, FiniteSetTheorems

-----------------------------------------------------------------------------
(***************************************************************************)
(* The inductive invariant.                                                *)
(***************************************************************************)

\* c has sent its NewConnection, or has tried to.
PastHello(c) == cli[c] \notin {"start", "opening", "hello"}

\* Between two servers there is neither an open descriptor nor a package, and
\* a terminal is never behind a descriptor other than 0.
OnlyWhileServing ==
  /\ ~Serving => pub = <<>> /\ \A f \in Fds : owner[f] = Free
  /\ \A f \in Fds : owner[f] = Stdin => f = 0

\* What is in the public FIFO was written there by clients.
SentByClients ==
  \A k \in DOMAIN pub : pub[k].from \in Clients /\ PastHello(pub[k].from)

NewConnectionAt(k, c) == pub[k].type = "NewConnection" /\ pub[k].from = c

\* A client asks for one session only: while its NewConnection is in the
\* FIFO, there is no other one and no session of that client.
AsksOnce ==
  /\ \A c \in Clients : HasWriter(c) => PastHello(c)
  /\ \A k \in DOMAIN pub, c \in Clients :
       NewConnectionAt(k, c) =>
         /\ ~HasWriter(c)
         /\ \A j \in DOMAIN pub : NewConnectionAt(j, c) => j = k

\* SessionClose(0) always finds a 0 in the vector: one more than there are
\* sessions on descriptor 0, and one more while standard input is open.
ZeroIsFound ==
  Serving =>
    \E i \in DOMAIN connections :
      /\ connections[i] = 0
      /\ owner[0] # Free => \E j \in DOMAIN connections : j # i /\ connections[j] = 0

\* Whoever is greeted has just been opened, and a session on a descriptor
\* other than 0 has a client.
SessionIsOpen ==
  pc = "greet" \/ (pc = "session" /\ clientFd # 0) => owner[clientFd] \in Clients

\* The server writes into no private FIFO before its greeting is there.
GreetingFirst ==
  \A c \in Clients :
    /\ ~PastHello(c) => priv[c] = <<>>
    /\ cli[c] = "status" /\ priv[c] # <<>> => Head(priv[c]).type = "ConnectionSuccess"
    /\ cli[c] = "status" /\ HasWriter(c) /\ ~(pc = "greet" /\ owner[clientFd] = c)
         => priv[c] # <<>>

IInv ==
  /\ TypeOK
  /\ OnlyWhileServing
  /\ SentByClients
  /\ AsksOnce
  /\ SessionsAreConnections
  /\ ZeroIsFound
  /\ SessionIsOpen
  /\ GreetingFirst
-----------------------------------------------------------------------------
(***************************************************************************)
(* What the actions leave alone.                                           *)
(***************************************************************************)

\* The server ends, in order or not.
Ending ==
  AcceptNewFails \/ GreetFails \/ SessionCloseFails \/ EchoFails \/ Leave \/ KillServer

\* The server goes on with the sessions it has.
Continuing == Greet \/ AcceptMessage \/ AcceptOther \/ Echo

LEMMA ServerActions ==
  ServerStep \/ KillServer <=> AcceptNew \/ SessionClose \/ Continuing \/ Ending
BY DEF ServerStep, Continuing, Ending

LEMMA EndingClosesAll ==
  ASSUME Ending
  PROVE  /\ pc' \in {"off", "crashed", "killed"} /\ ~Serving'
         /\ owner' = [f \in Fds |-> Free] /\ pub' = <<>>
         /\ pubName' \in {pubName, FALSE}
         /\ UNCHANGED <<run, connections, clientFd, cli, opened, priv, response>>
BY DEF Ending, AcceptNewFails, GreetFails, SessionCloseFails, EchoFails, Leave, KillServer,
       Crash, End, Serving

LEMMA ContinuingKeeps ==
  ASSUME Continuing
  PROVE  /\ Serving /\ Serving'
         /\ UNCHANGED <<run, owner, connections, pubName, cli, opened, response>>
         /\ pub' = pub \/ (pub # <<>> /\ pub' = Tail(pub))
         /\ clientFd' \in {clientFd, 0}
BY DEF Continuing, Greet, AcceptMessage, AcceptOther, Echo, Received, Serving

LEMMA ClientKeepsServer ==
  ASSUME NEW c \in Clients, ClientStep(c) \/ Kill(c)
  PROVE  UNCHANGED srvVars
BY DEF ClientStep, Start, OpenServer, SendHello, SendMessage, SendClose, Send, ReadStatus,
       ReadEmptyStatus, ReadResponse, ReadEmptyResponse, Finish, Kill

\* A client leaves the others alone, and past its hello it stays there.
LEMMA ClientStepOwn ==
  ASSUME TypeOK, NEW c \in Clients, ClientStep(c) \/ Kill(c), NEW d \in Clients
  PROVE  /\ d # c => /\ cli'[d] = cli[d] /\ opened'[d] = opened[d]
                     /\ priv'[d] = priv[d] /\ response'[d] = response[d]
         /\ PastHello(d) => PastHello(d)'
         /\ cli[d] \in Gone => cli'[d] \in Gone
<1>1. CASE Start(c)
  BY <1>1 DEF Start, Move, TypeOK, PastHello, Gone
<1>2. CASE OpenServer(c)
  BY <1>2 DEF OpenServer, Move, TypeOK, PastHello, Gone
<1>3. CASE SendHello(c) \/ SendMessage(c) \/ SendClose(c)
  BY <1>3 DEF SendHello, SendMessage, SendClose, Send, Move, TypeOK, PastHello, Gone
<1>4. CASE ReadStatus(c) \/ ReadEmptyStatus(c) \/ Finish(c) \/ Kill(c)
  BY <1>4 DEF ReadStatus, ReadEmptyStatus, Finish, Kill, Move, TypeOK, PastHello, Gone, Reads
<1>5. CASE ReadResponse(c) \/ ReadEmptyResponse(c)
  BY <1>5 DEF ReadResponse, ReadEmptyResponse, Move, TypeOK, PastHello, Gone
<1>6. QED BY <1>1, <1>2, <1>3, <1>4, <1>5 DEF ClientStep

\* A client writes whole packages of its own into the public FIFO, while a
\* server reads it, and is past its hello then.
LEMMA ClientWrites ==
  ASSUME TypeOK, NEW c \in Clients, ClientStep(c) \/ Kill(c)
  PROVE  \/ pub' = pub
         \/ /\ ServerReads(c) /\ PastHello(c)'
            /\ \E type \in {"Message", "NewConnection", "ConnectionClose"} :
                 /\ pub' = Append(pub, Serialized(c, type))
                 /\ type = "NewConnection" => cli[c] = "hello"
<1>1. CASE SendHello(c)
  BY <1>1 DEF SendHello, Send, Move, TypeOK, PastHello
<1>2. CASE SendMessage(c)
  BY <1>2 DEF SendMessage, Send, Move, TypeOK, PastHello
<1>3. CASE SendClose(c)
  BY <1>3 DEF SendClose, Send, Move, TypeOK, PastHello
<1>4. CASE ~(SendHello(c) \/ SendMessage(c) \/ SendClose(c))
  BY <1>4 DEF ClientStep, Start, OpenServer, ReadStatus, ReadEmptyStatus, ReadResponse,
            ReadEmptyResponse, Finish, Kill
<1>5. QED BY <1>1, <1>2, <1>3, <1>4

-----------------------------------------------------------------------------
(***************************************************************************)
(* Types.                                                                  *)
(***************************************************************************)

LEMMA Packages ==
  /\ \A c \in Clients, type \in {"Message", "NewConnection", "ConnectionClose"} :
       Serialized(c, type) \in Package
  /\ [type |-> "ConnectionSuccess", from |-> Server] \in Package
  /\ \A p \in Package : p.type # "ConnectionSuccess" => p.from \in Clients
BY DEF Package, Serialized

LEMMA PubHead ==
  ASSUME TypeOK, pub # <<>>
  PROVE  /\ Head(pub) \in Package /\ Head(pub) = pub[1] /\ 1 \in DOMAIN pub
         /\ Tail(pub) \in Seq(Package)
         /\ \A k \in DOMAIN Tail(pub) : k + 1 \in DOMAIN pub /\ Tail(pub)[k] = pub[k + 1]
BY FifoProperties DEF TypeOK

\* Erase takes one entry of that value out of the vector and keeps the others.
ErasedAt(k) ==
  /\ \A j \in DOMAIN connections' :
       /\ j < k => j \in DOMAIN connections /\ connections'[j] = connections[j]
       /\ j >= k => j + 1 \in DOMAIN connections /\ connections'[j] = connections[j + 1]
  /\ \A j \in DOMAIN connections :
       /\ j < k => j \in DOMAIN connections' /\ connections'[j] = connections[j]
       /\ j > k => j - 1 \in DOMAIN connections' /\ connections'[j - 1] = connections[j]

LEMMA EraseProperties ==
  ASSUME TypeOK, NEW f \in Fds, Erase(f)
  PROVE  /\ connections' \in Seq(Fds)
         /\ \E k \in DOMAIN connections : connections[k] = f /\ ErasedAt(k)
<1>1. PICK k \in DOMAIN connections : connections[k] = f /\ connections' = RemoveAt(connections, k)
  BY DEF Erase
<1>2. connections \in Seq(Fds) /\ k \in 1 .. Len(connections)
  BY <1>1 DEF TypeOK
<1>3. /\ connections' \in Seq(Fds)
      /\ Len(connections') = Len(connections) - 1
      /\ \A j \in 1 .. k - 1 : connections'[j] = connections[j]
      /\ \A j \in k .. Len(connections) - 1 : connections'[j] = connections[j + 1]
  BY <1>1, <1>2, RemoveAtProperties
<1>4. DOMAIN connections = 1 .. Len(connections) /\ DOMAIN connections' = 1 .. Len(connections')
      /\ Len(connections) \in Nat
  BY <1>2, <1>3, LenProperties
<1>5. ASSUME NEW j \in DOMAIN connections'
      PROVE  /\ j < k => j \in DOMAIN connections /\ connections'[j] = connections[j]
             /\ j >= k => j + 1 \in DOMAIN connections /\ connections'[j] = connections[j + 1]
  BY <1>2, <1>3, <1>4
<1>6. ASSUME NEW j \in DOMAIN connections
      PROVE  /\ j < k => j \in DOMAIN connections' /\ connections'[j] = connections[j]
             /\ j > k => j - 1 \in DOMAIN connections' /\ connections'[j - 1] = connections[j]
  <2>1. CASE j < k
    BY <1>2, <1>3, <1>4, <2>1
  <2>2. CASE j > k
    <3>1. j - 1 \in k .. Len(connections) - 1 /\ (j - 1) + 1 = j
      BY <1>2, <1>4, <2>2
    <3>2. connections'[j - 1] = connections[(j - 1) + 1] /\ j - 1 \in DOMAIN connections'
      BY <1>2, <1>3, <1>4, <3>1
    <3>3. QED BY <1>2, <1>4, <2>2, <3>1, <3>2
  <2>3. QED BY <1>2, <1>4, <2>1, <2>2
<1>7. ErasedAt(k)
  BY <1>5, <1>6 DEF ErasedAt
<1>8. QED BY <1>1, <1>3, <1>7

LEMMA TypeStep == TypeOK /\ [Next]_vars => TypeOK'
<1> SUFFICES ASSUME TypeOK, [Next]_vars PROVE TypeOK'
  OBVIOUS
<1>1. 0 \in Fds /\ <<>> \in Seq(Package) /\ NoPackage \in Package \cup {NoPackage}
  BY EmptySeq DEF Fds
<1>2. CASE StartServer
  <2>1. connections' \in Seq(Fds)
    BY <1>1, <1>2, EchoFifoAssumption, IsASeq DEF StartServer
  <2>2. run' \in 0 .. MaxRuns
    BY <1>2, EchoFifoAssumption DEF StartServer, TypeOK
  <2>3. owner' \in [Fds -> Clients \cup {Free, Stdin}]
    BY <1>2 DEF StartServer
  <2>4. pubName' \in BOOLEAN
    BY <1>2 DEF StartServer
  <2>5. QED BY <1>1, <1>2, <2>1, <2>2, <2>3, <2>4 DEF StartServer, TypeOK
<1>3. CASE Ending
  <2>1. pubName' \in BOOLEAN
    BY <1>3, EndingClosesAll DEF TypeOK
  <2>2. owner' \in [Fds -> Clients \cup {Free, Stdin}]
    BY <1>3, EndingClosesAll
  <2>3. QED BY <1>1, <1>3, <2>1, <2>2, EndingClosesAll DEF TypeOK
<1>4. CASE AcceptNew
  <2>1. pub # <<>> /\ Sender \in Clients
    BY <1>4, Packages, PubHead DEF AcceptNew, Received, Sender
  <2>2. PICK f \in Fds : /\ owner' = [owner EXCEPT ![f] = Sender]
                         /\ connections' = Append(connections, f)
                         /\ clientFd' = f
    BY <1>4 DEF AcceptNew
  <2>3. owner' \in [Fds -> Clients \cup {Free, Stdin}]
    BY <2>1, <2>2 DEF TypeOK
  <2>4. connections' \in Seq(Fds)
    BY <2>2, AppendProperties DEF TypeOK
  <2>5. pub' \in Seq(Package)
    BY <1>4, <2>1, PubHead DEF AcceptNew
  <2>6. QED BY <1>4, <2>2, <2>3, <2>4, <2>5 DEF AcceptNew, TypeOK
<1>5. CASE SessionClose
  <2>1. connections' \in Seq(Fds)
    BY <1>5, EraseProperties DEF SessionClose, TypeOK
  <2>2. pub' \in Seq(Package)
    BY <1>5, PubHead DEF SessionClose, Received
  <2>3. owner' \in [Fds -> Clients \cup {Free, Stdin}]
    BY <1>5 DEF SessionClose, TypeOK
  <2>4. QED BY <1>5, <2>1, <2>2, <2>3 DEF SessionClose, TypeOK
<1>6. CASE Continuing
  <2>1. ASSUME NEW p \in Package, WriteTo(clientFd, p)
        PROVE  priv' \in [Clients -> Seq(Package)]
    <3>1. CASE UNCHANGED priv
      BY <3>1 DEF TypeOK
    <3>2. CASE priv' # priv
      <4>1. PICK c \in Clients : priv' = [priv EXCEPT ![c] = Append(@, p)]
        BY <2>1, <3>2 DEF WriteTo
      <4>2. Append(priv[c], p) \in Seq(Package)
        BY AppendProperties DEF TypeOK
      <4>3. QED BY <4>1, <4>2 DEF TypeOK
    <3>3. QED BY <3>1, <3>2
  <2>2. priv' \in [Clients -> Seq(Package)]
    BY <1>6, <2>1, Packages, PubHead DEF Continuing, Greet, AcceptMessage, AcceptOther, Echo, TypeOK
  <2>3. pub' \in Seq(Package)
    BY <1>6, ContinuingKeeps, PubHead DEF TypeOK
  <2>4. pc' \in {"session", "accept", "leave"}
    BY <1>6 DEF Continuing, Greet, AcceptMessage, AcceptOther, Echo
  <2>5. QED BY <1>1, <1>6, <2>2, <2>3, <2>4, ContinuingKeeps DEF TypeOK
<1>7. ASSUME NEW c \in Clients, ClientStep(c) \/ Kill(c) PROVE TypeOK'
  <2>1. UNCHANGED srvVars
    BY <1>7, ClientKeepsServer
  <2>2. pub' \in Seq(Package)
    <3>1. \A p \in Package : Append(pub, p) \in Seq(Package)
      BY AppendProperties DEF TypeOK
    <3>2. QED BY <1>7, <3>1, ClientWrites, Packages DEF TypeOK
  <2>3. cli' \in [Clients -> CliState]
    BY <1>7 DEF ClientStep, Start, OpenServer, SendHello, SendMessage, SendClose, Send, ReadStatus,
            ReadEmptyStatus, ReadResponse, ReadEmptyResponse, Finish, Kill, Move, TypeOK,
            CliState, Gone
  <2>4. opened' \in [Clients -> 0 .. MaxRuns]
    BY <1>7 DEF ClientStep, Start, OpenServer, SendHello, SendMessage, SendClose, Send, ReadStatus,
            ReadEmptyStatus, ReadResponse, ReadEmptyResponse, Finish, Kill, TypeOK
  <2>5. CASE ReadStatus(c) \/ ReadResponse(c)
    <3>1. Head(priv[c]) \in Package /\ Tail(priv[c]) \in Seq(Package)
      BY <2>5, FifoProperties DEF ReadStatus, ReadResponse, TypeOK
    <3>2. priv' \in [Clients -> Seq(Package)]
      BY <2>5, <3>1 DEF ReadStatus, ReadResponse, TypeOK
    <3>3. response' \in [Clients -> Package \cup {NoPackage}]
      BY <2>5, <3>1 DEF ReadStatus, ReadResponse, Deserialized, TypeOK
    <3>4. QED BY <2>1, <2>2, <2>3, <2>4, <3>2, <3>3 DEF TypeOK, srvVars
  <2>6. CASE ~(ReadStatus(c) \/ ReadResponse(c))
    <3>1. UNCHANGED <<priv, response>>
      BY <1>7, <2>6 DEF ClientStep, Start, OpenServer, SendHello, SendMessage, SendClose, Send,
              ReadEmptyStatus, ReadEmptyResponse, Finish, Kill
    <3>2. QED BY <2>1, <2>2, <2>3, <2>4, <3>1 DEF TypeOK, srvVars
  <2>7. QED BY <2>5, <2>6
<1>8. CASE UNCHANGED vars
  BY <1>8 DEF vars, srvVars, TypeOK
<1>9. QED BY <1>2, <1>3, <1>4, <1>5, <1>6, <1>7, <1>8, ServerActions DEF Next

LEMMA IInvInit == Init => IInv
<1> SUFFICES ASSUME Init PROVE IInv
  OBVIOUS
<1>1. 0 \in Fds /\ <<>> \in Seq(Package) /\ <<>> \in Seq(Fds) /\ DOMAIN <<>> = {}
  BY EmptySeq DEF Fds
<1>2. TypeOK
  <2>1. owner \in [Fds -> Clients \cup {Free, Stdin}] /\ priv \in [Clients -> Seq(Package)]
    BY <1>1 DEF Init
  <2>2. opened \in [Clients -> 0 .. MaxRuns] /\ run \in 0 .. MaxRuns
    BY EchoFifoAssumption DEF Init
  <2>3. QED BY <1>1, <2>1, <2>2 DEF Init, TypeOK, CliState
<1>3. \A c \in Clients : ~HasWriter(c)
  BY EchoFifoAssumption DEF Init, HasWriter
<1>4. OnlyWhileServing /\ SessionsAreConnections /\ ZeroIsFound /\ SessionIsOpen
  BY EchoFifoAssumption DEF Init, OnlyWhileServing, SessionsAreConnections, ZeroIsFound,
                            SessionIsOpen, Serving
<1>5. SentByClients /\ AsksOnce
  BY <1>1, <1>3 DEF Init, SentByClients, AsksOnce
<1>6. GreetingFirst
  BY DEF Init, GreetingFirst
<1>7. QED BY <1>2, <1>4, <1>5, <1>6 DEF IInv

-----------------------------------------------------------------------------
(***************************************************************************)
(* Every step preserves each part of the invariant.                        *)
(***************************************************************************)

LEMMA OnlyWhileServingStep == IInv /\ [Next]_vars => OnlyWhileServing'
<1> SUFFICES ASSUME IInv, [Next]_vars PROVE OnlyWhileServing'
  OBVIOUS
<1>1. TypeOK /\ OnlyWhileServing
  BY DEF IInv
<1>2. CASE StartServer
  BY <1>2, EchoFifoAssumption DEF StartServer, OnlyWhileServing, Serving
<1>3. CASE Ending
  BY <1>3, EndingClosesAll, EchoFifoAssumption DEF OnlyWhileServing
<1>4. CASE AcceptNew
  <2>1. Sender \in Clients
    BY <1>1, <1>4, Packages, PubHead DEF AcceptNew, Received, Sender
  <2>2. PICK f \in Fds : owner' = [owner EXCEPT ![f] = Sender]
    BY <1>4 DEF AcceptNew
  <2>3. Serving'
    BY <1>4 DEF AcceptNew, Serving
  <2>4. QED BY <1>1, <2>1, <2>2, <2>3, EchoFifoAssumption DEF OnlyWhileServing, TypeOK
<1>5. CASE SessionClose
  BY <1>1, <1>5, EchoFifoAssumption DEF SessionClose, OnlyWhileServing, Serving, TypeOK
<1>6. CASE Continuing
  BY <1>1, <1>6, ContinuingKeeps DEF OnlyWhileServing
<1>7. ASSUME NEW c \in Clients, ClientStep(c) \/ Kill(c) PROVE OnlyWhileServing'
  BY <1>1, <1>7, ClientKeepsServer, ClientWrites
  DEF OnlyWhileServing, srvVars, Serving, ServerReads
<1>8. CASE UNCHANGED vars
  BY <1>1, <1>8 DEF vars, srvVars, OnlyWhileServing, Serving
<1>9. QED BY <1>2, <1>3, <1>4, <1>5, <1>6, <1>7, <1>8, ServerActions DEF Next

LEMMA PastHelloLasts ==
  ASSUME TypeOK, [Next]_vars, NEW d \in Clients, PastHello(d)
  PROVE  PastHello(d)'
<1>1. CASE StartServer \/ AcceptNew \/ SessionClose \/ UNCHANGED vars
  BY <1>1 DEF StartServer, AcceptNew, SessionClose, vars, PastHello
<1>2. CASE Ending \/ Continuing
  BY <1>2, EndingClosesAll, ContinuingKeeps DEF PastHello
<1>3. QED BY <1>1, <1>2, ClientStepOwn, ServerActions DEF Next

\* The two parts about the public FIFO, for a step of the server that takes
\* one package at most and opens no private FIFO.
LEMMA TakingKeepsOrder ==
  ASSUME IInv, [Next]_vars, pub' = <<>> \/ pub' = pub \/ (pub # <<>> /\ pub' = Tail(pub)),
         \A c \in Clients : HasWriter(c)' => HasWriter(c)
  PROVE  SentByClients' /\ AsksOnce'
<1>1. TypeOK /\ SentByClients /\ AsksOnce
  BY DEF IInv
<1>2. \A c \in Clients : PastHello(c) => PastHello(c)'
  BY <1>1, PastHelloLasts
<1>3. CASE pub' = <<>>
  BY <1>1, <1>2, <1>3, EmptySeq DEF SentByClients, AsksOnce
<1>4. CASE pub' = pub
  BY <1>1, <1>2, <1>4 DEF SentByClients, AsksOnce, NewConnectionAt
<1>5. CASE pub # <<>> /\ pub' = Tail(pub)
  <2>1. \A k \in DOMAIN pub' : k \in Nat /\ k + 1 \in DOMAIN pub /\ pub'[k] = pub[k + 1]
    <3>1. pub' \in Seq(Package)
      BY <1>1, <1>5, PubHead
    <3>2. QED BY <1>1, <1>5, <3>1, PubHead, FifoProperties
  <2>2. SentByClients'
    BY <1>1, <1>2, <2>1 DEF SentByClients
  <2>3. ASSUME NEW k \in DOMAIN pub', NEW c \in Clients, NewConnectionAt(k, c)'
        PROVE  /\ ~HasWriter(c)'
               /\ \A j \in DOMAIN pub' : NewConnectionAt(j, c)' => j = k
    <3>1. k + 1 \in DOMAIN pub /\ NewConnectionAt(k + 1, c)
      BY <2>1, <2>3 DEF NewConnectionAt
    <3>2. ASSUME NEW j \in DOMAIN pub', NewConnectionAt(j, c)' PROVE j = k
      <4>1. j + 1 \in DOMAIN pub /\ NewConnectionAt(j + 1, c)
        BY <2>1, <3>2 DEF NewConnectionAt
      <4>2. j + 1 = k + 1
        BY <1>1, <3>1, <4>1 DEF AsksOnce
      <4>3. QED BY <2>1, <4>2
    <3>3. QED BY <1>1, <3>1, <3>2 DEF AsksOnce
  <2>4. QED BY <1>1, <1>2, <2>2, <2>3 DEF AsksOnce
<1>6. QED BY <1>3, <1>4, <1>5

\* The private FIFO of the sender gets its one writer, and the one package
\* that asks for it is gone.
LEMMA AcceptNewKeepsOrder ==
  ASSUME IInv, [Next]_vars, AcceptNew
  PROVE  SentByClients' /\ AsksOnce'
<1>1. TypeOK /\ SentByClients /\ AsksOnce
  BY DEF IInv
<1>2. \A c \in Clients : PastHello(c) => PastHello(c)'
  BY <1>1, PastHelloLasts
<1>3. /\ pub # <<>> /\ Sender \in Clients /\ PastHello(Sender)
      /\ 1 \in DOMAIN pub /\ NewConnectionAt(1, Sender)
  BY <1>1, Packages, PubHead DEF AcceptNew, Received, Sender, SentByClients, NewConnectionAt
<1>4. \A k \in DOMAIN pub' : k \in Nat \ {0} /\ k + 1 \in DOMAIN pub /\ pub'[k] = pub[k + 1]
  <2>1. pub' = Tail(pub) /\ pub' \in Seq(Package)
    BY <1>1, <1>3, PubHead DEF AcceptNew
  <2>2. DOMAIN pub' = 1 .. Len(pub')
    BY <2>1, LenProperties
  <2>3. QED BY <1>1, <1>3, <2>1, <2>2, PubHead, FifoProperties
<1>5. \A c \in Clients : HasWriter(c)' => HasWriter(c) \/ c = Sender
  BY <1>1 DEF AcceptNew, HasWriter, TypeOK
<1>6. SentByClients'
  BY <1>1, <1>2, <1>4 DEF SentByClients
<1>7. ASSUME NEW k \in DOMAIN pub', NEW c \in Clients, NewConnectionAt(k, c)'
      PROVE  /\ ~HasWriter(c)'
             /\ \A j \in DOMAIN pub' : NewConnectionAt(j, c)' => j = k
  <2>1. k + 1 \in DOMAIN pub /\ NewConnectionAt(k + 1, c)
    BY <1>4, <1>7 DEF NewConnectionAt
  <2>2. c # Sender
    <3>1. k + 1 # 1
      BY <1>4
    <3>2. QED BY <1>1, <1>3, <2>1, <3>1 DEF AsksOnce
  <2>3. ASSUME NEW j \in DOMAIN pub', NewConnectionAt(j, c)' PROVE j = k
    <3>1. j + 1 \in DOMAIN pub /\ NewConnectionAt(j + 1, c)
      BY <1>4, <2>3 DEF NewConnectionAt
    <3>2. j + 1 = k + 1
      BY <1>1, <2>1, <3>1 DEF AsksOnce
    <3>3. QED BY <1>4, <3>2
  <2>4. QED BY <1>1, <1>5, <2>1, <2>2, <2>3 DEF AsksOnce
<1>8. QED BY <1>1, <1>2, <1>3, <1>5, <1>6, <1>7 DEF AsksOnce

\* A client appends a package of its own.  A NewConnection is its first.
LEMMA SendingKeepsOrder ==
  ASSUME IInv, [Next]_vars, NEW c \in Clients, ClientStep(c) \/ Kill(c), pub' # pub
  PROVE  SentByClients' /\ AsksOnce'
<1>1. TypeOK /\ SentByClients /\ AsksOnce
  BY DEF IInv
<1>2. \A d \in Clients : PastHello(d) => PastHello(d)'
  BY <1>1, PastHelloLasts
<1>3. PICK type \in {"Message", "NewConnection", "ConnectionClose"} :
        /\ pub' = Append(pub, Serialized(c, type)) /\ PastHello(c)'
        /\ type = "NewConnection" => cli[c] = "hello"
  BY <1>1, ClientWrites
<1>4. owner' = owner
  BY ClientKeepsServer DEF srvVars
<1>5. PICK new : new = Len(pub) + 1
  OBVIOUS
<1>6. /\ \A k \in DOMAIN pub : k \in DOMAIN pub' /\ pub'[k] = pub[k]
      /\ \A k \in DOMAIN pub' : k \in DOMAIN pub \/ k = new
      /\ new \notin DOMAIN pub /\ new \in DOMAIN pub' /\ pub'[new] = Serialized(c, type)
  <2>1. pub \in Seq(Package) /\ Serialized(c, type) \in Package
    BY <1>1, Packages DEF TypeOK
  <2>2. QED BY <1>3, <1>5, <2>1, FifoProperties
<1>7. SentByClients'
  BY <1>1, <1>2, <1>3, <1>6 DEF SentByClients, Serialized
<1>8. \A d \in Clients : HasWriter(d)' <=> HasWriter(d)
  BY <1>4 DEF HasWriter
<1>9. ASSUME NewConnectionAt(new, c)'
      PROVE  ~HasWriter(c) /\ \A k \in DOMAIN pub : pub[k].from # c
  <2>1. ~PastHello(c)
    BY <1>3, <1>6, <1>9 DEF NewConnectionAt, Serialized, PastHello
  <2>2. QED BY <1>1, <2>1 DEF AsksOnce, SentByClients
<1>10. ASSUME NEW k \in DOMAIN pub', NEW d \in Clients, NewConnectionAt(k, d)'
      PROVE  /\ ~HasWriter(d)'
             /\ \A j \in DOMAIN pub' : NewConnectionAt(j, d)' => j = k
  <2>1. \A j \in DOMAIN pub : NewConnectionAt(j, d)' => NewConnectionAt(j, d)
    BY <1>6 DEF NewConnectionAt
  <2>2. NewConnectionAt(new, d)' => d = c
    BY <1>6 DEF NewConnectionAt, Serialized
  <2>3. \A j \in DOMAIN pub : NewConnectionAt(j, d) => pub[j].from = d
    BY DEF NewConnectionAt
  <2>4. CASE k = new
    BY <1>6, <1>8, <1>9, <1>10, <2>1, <2>2, <2>3, <2>4
  <2>5. CASE k \in DOMAIN pub
    <3>1. NewConnectionAt(k, d)
      BY <1>10, <2>1, <2>5
    <3>2. ~NewConnectionAt(new, d)'
      BY <1>9, <2>2, <2>3, <2>5, <3>1
    <3>3. ~HasWriter(d) /\ \A j \in DOMAIN pub : NewConnectionAt(j, d) => j = k
      BY <1>1, <2>5, <3>1 DEF AsksOnce
    <3>4. QED BY <1>6, <1>8, <2>1, <3>2, <3>3
  <2>6. QED BY <1>6, <2>4, <2>5
<1>11. QED BY <1>1, <1>2, <1>7, <1>8, <1>10 DEF AsksOnce

LEMMA OrderStep == IInv /\ [Next]_vars => SentByClients' /\ AsksOnce'
<1> SUFFICES ASSUME IInv, [Next]_vars PROVE SentByClients' /\ AsksOnce'
  OBVIOUS
<1>1. TypeOK /\ OnlyWhileServing
  BY DEF IInv
<1>2. CASE StartServer
  <2>1. pub' = pub /\ \A c \in Clients : ~HasWriter(c)'
    BY <1>2, EchoFifoAssumption DEF StartServer, HasWriter
  <2>2. QED BY <2>1, TakingKeepsOrder
<1>3. CASE Ending
  <2>1. pub' = <<>> /\ \A c \in Clients : ~HasWriter(c)'
    BY <1>3, EndingClosesAll, EchoFifoAssumption DEF HasWriter
  <2>2. QED BY <2>1, TakingKeepsOrder
<1>4. CASE SessionClose
  <2>1. pub # <<>> /\ pub' = Tail(pub)
    BY <1>4 DEF SessionClose, Received
  <2>2. \A c \in Clients : HasWriter(c)' => HasWriter(c)
    BY <1>1, <1>4, EchoFifoAssumption DEF SessionClose, HasWriter, TypeOK
  <2>3. QED BY <2>1, <2>2, TakingKeepsOrder
<1>5. CASE Continuing
  <2>1. \A c \in Clients : HasWriter(c)' => HasWriter(c)
    BY <1>5, ContinuingKeeps DEF HasWriter
  <2>2. QED BY <1>5, <2>1, ContinuingKeeps, TakingKeepsOrder
<1>6. ASSUME owner' = owner, pub' = pub PROVE SentByClients' /\ AsksOnce'
  <2>1. \A c \in Clients : HasWriter(c)' => HasWriter(c)
    BY <1>6 DEF HasWriter
  <2>2. QED BY <1>6, <2>1, TakingKeepsOrder
<1>7. ASSUME NEW c \in Clients, ClientStep(c) \/ Kill(c) PROVE SentByClients' /\ AsksOnce'
  BY <1>6, <1>7, ClientKeepsServer, SendingKeepsOrder DEF srvVars
<1>8. CASE UNCHANGED vars
  BY <1>6, <1>8 DEF vars, srvVars
<1>9. QED BY <1>2, <1>3, <1>4, <1>5, <1>7, <1>8, AcceptNewKeepsOrder, ServerActions DEF Next

\* The vector with one descriptor appended, and with one erased.
LEMMA AppendedConnection ==
  ASSUME TypeOK, NEW f \in Fds, connections' = Append(connections, f)
  PROVE  /\ \A k \in DOMAIN connections :
              k \in DOMAIN connections' /\ connections'[k] = connections[k]
         /\ \E new \in DOMAIN connections' \ DOMAIN connections :
              /\ connections'[new] = f
              /\ \A k \in DOMAIN connections' : k \in DOMAIN connections \/ k = new
         /\ \A g \in Fds : InConnections(g)' <=> InConnections(g) \/ g = f
<1>1. PICK new : new = Len(connections) + 1
  OBVIOUS
<1>2. /\ \A k \in DOMAIN connections :
           k \in DOMAIN connections' /\ connections'[k] = connections[k]
      /\ new \in DOMAIN connections' /\ new \notin DOMAIN connections /\ connections'[new] = f
      /\ \A k \in DOMAIN connections' : k \in DOMAIN connections \/ k = new
  BY <1>1, FifoProperties DEF TypeOK
<1>3. QED BY <1>2 DEF InConnections

LEMMA ErasedConnection ==
  ASSUME TypeOK, NEW k \in DOMAIN connections, ErasedAt(k), connections' \in Seq(Fds)
  PROVE  /\ \A j \in DOMAIN connections' :
              \E i \in DOMAIN connections \ {k} :
                /\ connections'[j] = connections[i]
                /\ i = IF j < k THEN j ELSE j + 1
         /\ \A i \in DOMAIN connections \ {k} :
              \E j \in DOMAIN connections' :
                /\ connections'[j] = connections[i]
                /\ j = IF i < k THEN i ELSE i - 1
         /\ \A i \in DOMAIN connections : i \in Nat
         /\ \A j \in DOMAIN connections' : j \in Nat
<1>1. /\ \A i \in DOMAIN connections : i \in Nat
      /\ \A j \in DOMAIN connections' : j \in Nat
  BY LenProperties DEF TypeOK
<1>2. QED BY <1>1 DEF ErasedAt

LEMMA SessionsStep == IInv /\ [Next]_vars => SessionsAreConnections'
<1> SUFFICES ASSUME IInv, [Next]_vars PROVE SessionsAreConnections'
  OBVIOUS
<1>1. TypeOK /\ SessionsAreConnections /\ SentByClients /\ AsksOnce /\ OnlyWhileServing
  BY DEF IInv
<1>2. CASE StartServer
  <2>1. /\ \A k \in DOMAIN connections' : connections'[k] = 0
        /\ \A f \in Fds \ {0} : owner'[f] = Free
        /\ \A f \in Fds : owner'[f] \notin Clients
    BY <1>2, EchoFifoAssumption DEF StartServer
  <2>2. QED BY <2>1 DEF SessionsAreConnections, InConnections
<1>3. CASE Ending
  BY <1>3, EndingClosesAll DEF SessionsAreConnections
<1>4. CASE AcceptNew
  <2>1. /\ Serving /\ Sender \in Clients /\ 1 \in DOMAIN pub /\ NewConnectionAt(1, Sender)
    BY <1>1, <1>4, Packages, PubHead
    DEF AcceptNew, Received, Sender, NewConnectionAt, Serving
  <2>2. ~HasWriter(Sender)
    BY <1>1, <2>1 DEF AsksOnce
  <2>3. PICK f \in Fds : /\ owner[f] = Free /\ owner' = [owner EXCEPT ![f] = Sender]
                         /\ connections' = Append(connections, f)
    BY <1>4 DEF AcceptNew
  <2>4. PICK s \in Clients : s = Sender
    BY <2>1
  <2>5. owner' = [owner EXCEPT ![f] = s] /\ s # Free /\ ~HasWriter(s)
    BY <2>2, <2>3, <2>4, EchoFifoAssumption
  <2>6. ASSUME NEW g \in Fds \ {0} PROVE owner'[g] # Free <=> InConnections(g)'
    BY <1>1, <2>1, <2>3, <2>5, AppendedConnection DEF SessionsAreConnections, TypeOK
  <2>7. ASSUME NEW j \in DOMAIN connections', NEW k \in DOMAIN connections',
               connections'[j] = connections'[k], connections'[j] # 0
        PROVE  j = k
    <3>1. PICK new \in DOMAIN connections' \ DOMAIN connections :
            /\ connections'[new] = f
            /\ \A i \in DOMAIN connections' : i \in DOMAIN connections \/ i = new
      BY <1>1, <2>3, AppendedConnection
    <3>2. \A i \in DOMAIN connections : connections'[i] = connections[i]
      BY <1>1, <2>3, AppendedConnection
    <3>3. f # 0 => \A i \in DOMAIN connections : connections[i] # f
      BY <1>1, <2>1, <2>3 DEF SessionsAreConnections, InConnections
    <3>4. \A i, l \in DOMAIN connections :
            connections[i] = connections[l] /\ connections[i] # 0 => i = l
      BY <1>1, <2>1 DEF SessionsAreConnections
    <3>5. QED BY <2>7, <3>1, <3>2, <3>3, <3>4
  <2>8. ASSUME NEW g \in Fds, NEW h \in Fds, owner'[g] \in Clients, owner'[g] = owner'[h]
        PROVE  g = h
    BY <1>1, <2>1, <2>5, <2>8 DEF SessionsAreConnections, HasWriter, TypeOK
  <2>9. QED BY <2>6, <2>7, <2>8 DEF SessionsAreConnections
<1>5. CASE SessionClose
  <2>1. PICK d \in Fds : d = clientFd
    BY <1>1 DEF TypeOK
  <2>2. Serving /\ owner' = [owner EXCEPT ![d] = Free] /\ Erase(d)
    BY <1>5, <2>1 DEF SessionClose, Serving
  <2>3. PICK k \in DOMAIN connections : connections[k] = d /\ ErasedAt(k)
    BY <1>1, <2>2, EraseProperties
  <2>4. connections' \in Seq(Fds)
    BY <1>1, <2>2, EraseProperties
  <2>5. \A i, l \in DOMAIN connections :
          connections[i] = connections[l] /\ connections[i] # 0 => i = l
    BY <1>1, <2>2 DEF SessionsAreConnections
  <2>6. \A g \in Fds \ {0} : InConnections(g)' <=> InConnections(g) /\ g # d
    BY <1>1, <2>3, <2>4, <2>5, ErasedConnection DEF InConnections
  <2>7. \A g \in Fds \ {0} : owner[g] # Free <=> InConnections(g)
    BY <1>1, <2>2 DEF SessionsAreConnections
  <2>8. \A g \in Fds \ {0} : owner'[g] # Free <=> InConnections(g)'
    BY <1>1, <2>2, <2>6, <2>7 DEF TypeOK
  <2>9. ASSUME NEW j \in DOMAIN connections', NEW l \in DOMAIN connections',
               connections'[j] = connections'[l], connections'[j] # 0
        PROVE  j = l
    <3>1. PICK i \in DOMAIN connections \ {k} :
            connections'[j] = connections[i] /\ i = IF j < k THEN j ELSE j + 1
      BY <1>1, <2>3, <2>4, ErasedConnection
    <3>2. PICK m \in DOMAIN connections \ {k} :
            connections'[l] = connections[m] /\ m = IF l < k THEN l ELSE l + 1
      BY <1>1, <2>3, <2>4, ErasedConnection
    <3>3. i = m /\ j \in Nat /\ l \in Nat /\ k \in Nat
      BY <1>1, <2>3, <2>4, <2>5, <2>9, <3>1, <3>2, ErasedConnection
    <3>4. QED BY <3>1, <3>2, <3>3
  <2>10. ASSUME NEW g \in Fds, NEW h \in Fds, owner'[g] \in Clients, owner'[g] = owner'[h]
         PROVE  g = h
    BY <1>1, <2>2, <2>10, EchoFifoAssumption DEF SessionsAreConnections, TypeOK
  <2>11. QED BY <2>8, <2>9, <2>10 DEF SessionsAreConnections
<1>6. ASSUME UNCHANGED <<owner, connections>>, Serving' => Serving
      PROVE  SessionsAreConnections'
  BY <1>1, <1>6 DEF SessionsAreConnections, InConnections
<1>7. CASE Continuing
  BY <1>6, <1>7, ContinuingKeeps
<1>8. ASSUME UNCHANGED srvVars PROVE SessionsAreConnections'
  BY <1>6, <1>8 DEF srvVars, Serving
<1>9. QED BY <1>2, <1>3, <1>4, <1>5, <1>7, <1>8, ClientKeepsServer, ServerActions DEF Next, vars

LEMMA ZeroIsFoundStep == IInv /\ [Next]_vars => ZeroIsFound'
<1> SUFFICES ASSUME IInv, [Next]_vars PROVE ZeroIsFound'
  OBVIOUS
<1>1. TypeOK /\ ZeroIsFound
  BY DEF IInv
<1>2. CASE StartServer
  <2>1. /\ 1 \in DOMAIN connections' /\ connections'[1] = 0
        /\ 2 \in DOMAIN connections' /\ connections'[2] = 0
    BY <1>2, EchoFifoAssumption DEF StartServer
  <2>2. 2 # 1
    OBVIOUS
  <2>3. QED BY <2>1, <2>2 DEF ZeroIsFound
<1>3. CASE Ending
  BY <1>3, EndingClosesAll DEF ZeroIsFound
<1>4. CASE AcceptNew
  <2>1. PICK f \in Fds : /\ owner[f] = Free /\ owner' = [owner EXCEPT ![f] = Sender]
                         /\ connections' = Append(connections, f)
    BY <1>4 DEF AcceptNew
  <2>2. PICK i \in DOMAIN connections :
          /\ connections[i] = 0
          /\ owner[0] # Free => \E j \in DOMAIN connections : j # i /\ connections[j] = 0
    BY <1>1, <1>4 DEF ZeroIsFound, AcceptNew, Serving
  <2>3. PICK new \in DOMAIN connections' \ DOMAIN connections : connections'[new] = f
    BY <1>1, <2>1, AppendedConnection
  <2>4. \A j \in DOMAIN connections : j \in DOMAIN connections' /\ connections'[j] = connections[j]
    BY <1>1, <2>1, AppendedConnection
  <2>5. CASE f = 0
    BY <2>2, <2>3, <2>4, <2>5 DEF ZeroIsFound
  <2>6. CASE f # 0
    <3>1. owner'[0] = owner[0]
      BY <1>1, <2>1, <2>6 DEF TypeOK, Fds
    <3>2. QED BY <2>2, <2>4, <3>1 DEF ZeroIsFound
  <2>7. QED BY <2>5, <2>6
<1>5. CASE SessionClose
  <2>1. PICK d \in Fds : d = clientFd
    BY <1>1 DEF TypeOK
  <2>2. Serving /\ owner' = [owner EXCEPT ![d] = Free] /\ owner[d] # Free /\ Erase(d)
    BY <1>5, <2>1 DEF SessionClose, Serving
  <2>3. PICK k \in DOMAIN connections : connections[k] = d /\ ErasedAt(k)
    BY <1>1, <2>2, EraseProperties
  <2>4. connections' \in Seq(Fds)
    BY <1>1, <2>2, EraseProperties
  <2>5. PICK i \in DOMAIN connections :
          /\ connections[i] = 0
          /\ owner[0] # Free => \E j \in DOMAIN connections : j # i /\ connections[j] = 0
    BY <1>1, <2>2 DEF ZeroIsFound
  <2>6. ASSUME NEW m \in DOMAIN connections \ {k}
        PROVE  \E j \in DOMAIN connections' :
                 connections'[j] = connections[m] /\ j = IF m < k THEN m ELSE m - 1
    BY <1>1, <2>3, <2>4, ErasedConnection
  <2>7. CASE d = 0
    <3>1. PICK m \in DOMAIN connections \ {k} : connections[m] = 0
      BY <2>2, <2>5, <2>7
    <3>2. owner'[0] = Free
      BY <1>1, <2>2, <2>7 DEF TypeOK
    <3>3. \E j \in DOMAIN connections' : connections'[j] = 0
      BY <2>6, <3>1
    <3>4. QED BY <3>2, <3>3 DEF ZeroIsFound
  <2>8. CASE d # 0
    <3>1. owner'[0] = owner[0]
      BY <1>1, <2>2, <2>8 DEF TypeOK, Fds
    <3>2. PICK x \in DOMAIN connections' :
            connections'[x] = 0 /\ x = IF i < k THEN i ELSE i - 1
      BY <2>3, <2>5, <2>6, <2>8
    <3>3. ASSUME owner'[0] # Free
          PROVE  \E y \in DOMAIN connections' : y # x /\ connections'[y] = 0
      <4>1. PICK j \in DOMAIN connections : j # i /\ connections[j] = 0
        BY <2>5, <3>1, <3>3
      <4>2. j # k /\ i # k
        BY <2>3, <2>5, <2>8, <4>1
      <4>3. PICK y \in DOMAIN connections' :
              connections'[y] = 0 /\ y = IF j < k THEN j ELSE j - 1
        BY <2>6, <4>1, <4>2
      <4>4. i \in Nat /\ j \in Nat /\ k \in Nat
        BY <1>1, <2>3, <2>4, ErasedConnection
      <4>5. QED BY <3>2, <4>1, <4>2, <4>3, <4>4
    <3>4. QED BY <3>2, <3>3 DEF ZeroIsFound
  <2>9. QED BY <2>7, <2>8
<1>6. ASSUME UNCHANGED <<owner, connections>>, Serving' => Serving
      PROVE  ZeroIsFound'
  BY <1>1, <1>6 DEF ZeroIsFound
<1>7. CASE Continuing
  BY <1>6, <1>7, ContinuingKeeps
<1>8. ASSUME UNCHANGED srvVars PROVE ZeroIsFound'
  BY <1>6, <1>8 DEF srvVars, Serving
<1>9. QED BY <1>2, <1>3, <1>4, <1>5, <1>7, <1>8, ClientKeepsServer, ServerActions DEF Next, vars

LEMMA SessionIsOpenStep == IInv /\ [Next]_vars => SessionIsOpen'
<1> SUFFICES ASSUME IInv, [Next]_vars PROVE SessionIsOpen'
  OBVIOUS
<1>1. TypeOK /\ SessionIsOpen
  BY DEF IInv
<1>2. CASE StartServer \/ SessionClose
  BY <1>2 DEF StartServer, SessionClose, SessionIsOpen
<1>3. CASE Ending
  BY <1>3, EndingClosesAll DEF SessionIsOpen
<1>4. CASE AcceptNew
  <2>1. Sender \in Clients
    BY <1>1, <1>4, Packages, PubHead DEF AcceptNew, Received, Sender
  <2>2. PICK f \in Fds : owner' = [owner EXCEPT ![f] = Sender] /\ clientFd' = f
    BY <1>4 DEF AcceptNew
  <2>3. QED BY <1>1, <2>1, <2>2 DEF SessionIsOpen, TypeOK
<1>5. CASE Continuing
  BY <1>1, <1>5 DEF Continuing, Greet, AcceptMessage, AcceptOther, Echo, SessionIsOpen
<1>6. ASSUME UNCHANGED srvVars PROVE SessionIsOpen'
  BY <1>1, <1>6 DEF SessionIsOpen, srvVars
<1>7. QED BY <1>2, <1>3, <1>4, <1>5, <1>6, ClientKeepsServer, ServerActions DEF Next, vars

\* What GreetingFirst says of one client.
GreetingFirstFor(c) ==
  /\ ~PastHello(c) => priv[c] = <<>>
  /\ cli[c] = "status" /\ priv[c] # <<>> => Head(priv[c]).type = "ConnectionSuccess"
  /\ cli[c] = "status" /\ HasWriter(c) /\ ~(pc = "greet" /\ owner[clientFd] = c)
       => priv[c] # <<>>

\* The greeting itself, into an empty FIFO or behind another greeting.
LEMMA GreetPutsItFirst ==
  ASSUME IInv, Greet, NEW c \in Clients
  PROVE  GreetingFirstFor(c)'
<1>1. TypeOK /\ GreetingFirstFor(c) /\ AsksOnce
  BY DEF IInv, GreetingFirst, GreetingFirstFor
<1>2. UNCHANGED <<owner, cli, clientFd>> /\ pc = "greet" /\ pc' = "session"
  BY DEF Greet
<1>3. PICK p \in Package : p.type = "ConnectionSuccess" /\ WriteTo(clientFd, p)
  BY Packages DEF Greet
<1>4. CASE owner[clientFd] = c
  <2>1. HasWriter(c) /\ PastHello(c)
    BY <1>1, <1>4 DEF AsksOnce, HasWriter, TypeOK
  <2>2. priv'[c] = Append(priv[c], p) /\ priv[c] \in Seq(Package)
    BY <1>1, <1>3, <1>4, EchoFifoAssumption DEF WriteTo, TypeOK
  <2>3. priv'[c] # <<>> /\ Head(priv'[c]) = IF priv[c] = <<>> THEN p ELSE Head(priv[c])
    BY <2>2, FifoProperties
  <2>4. PastHello(c)'
    BY <1>2, <2>1 DEF PastHello
  <2>5. QED BY <1>1, <1>2, <1>3, <2>3, <2>4 DEF GreetingFirstFor
<1>5. CASE owner[clientFd] # c
  <2>1. priv'[c] = priv[c]
    BY <1>1, <1>3, <1>5 DEF WriteTo, TypeOK
  <2>2. (PastHello(c)' <=> PastHello(c)) /\ (HasWriter(c)' <=> HasWriter(c))
    BY <1>2 DEF PastHello, HasWriter
  <2>3. QED BY <1>1, <1>2, <1>5, <2>1, <2>2 DEF GreetingFirstFor
<1>6. QED BY <1>4, <1>5

\* An echo goes to an open session, whose client has its greeting or is past it.
LEMMA EchoKeepsItFirst ==
  ASSUME IInv, Echo, NEW c \in Clients
  PROVE  GreetingFirstFor(c)'
<1>1. TypeOK /\ GreetingFirstFor(c) /\ AsksOnce
  BY DEF IInv, GreetingFirst, GreetingFirstFor
<1>2. UNCHANGED <<owner, cli, clientFd>> /\ pc = "session" /\ pc' = "accept"
  BY DEF Echo
<1>3. PICK p \in Package : WriteTo(clientFd, p)
  BY <1>1, PubHead DEF Echo
<1>4. (PastHello(c)' <=> PastHello(c)) /\ (HasWriter(c)' <=> HasWriter(c))
  BY <1>2 DEF PastHello, HasWriter
<1>5. CASE owner[clientFd] = c
  <2>1. HasWriter(c) /\ PastHello(c)
    BY <1>1, <1>5 DEF AsksOnce, HasWriter, TypeOK
  <2>2. priv'[c] = Append(priv[c], p) /\ priv[c] \in Seq(Package)
    BY <1>1, <1>3, <1>5, EchoFifoAssumption DEF WriteTo, TypeOK
  <2>3. priv'[c] # <<>> /\ (priv[c] # <<>> => Head(priv'[c]) = Head(priv[c]))
    BY <2>2, FifoProperties
  <2>4. QED BY <1>1, <1>2, <1>4, <2>1, <2>3 DEF GreetingFirstFor
<1>6. CASE owner[clientFd] # c
  <2>1. priv'[c] = priv[c]
    BY <1>1, <1>3, <1>6 DEF WriteTo, TypeOK
  <2>2. QED BY <1>1, <1>2, <1>4, <1>6, <2>1 DEF GreetingFirstFor
<1>7. QED BY <1>5, <1>6

\* The client takes its greeting only to leave "status".
LEMMA ClientKeepsItFirst ==
  ASSUME IInv, NEW d \in Clients, ClientStep(d) \/ Kill(d), NEW c \in Clients
  PROVE  GreetingFirstFor(c)'
<1>1. TypeOK /\ GreetingFirstFor(c) /\ AsksOnce
  BY DEF IInv, GreetingFirst, GreetingFirstFor
<1>2. UNCHANGED <<pc, owner, clientFd>>
  BY ClientKeepsServer DEF srvVars
<1>3. HasWriter(c)' <=> HasWriter(c)
  BY <1>2 DEF HasWriter
<1>4. CASE c # d
  <2>1. cli'[c] = cli[c] /\ priv'[c] = priv[c]
    BY <1>1, <1>4, ClientStepOwn
  <2>2. QED BY <1>1, <1>2, <1>3, <2>1 DEF GreetingFirstFor, PastHello
<1>5. CASE c = d
  <2>1. CASE SendHello(c)
    <3>1. cli[c] = "hello" /\ priv'[c] = priv[c]
      BY <2>1 DEF SendHello, Send
    <3>2. priv[c] = <<>> /\ ~HasWriter(c)
      BY <1>1, <3>1 DEF GreetingFirstFor, AsksOnce, PastHello
    <3>3. QED BY <1>3, <3>1, <3>2 DEF GreetingFirstFor
  <2>2. CASE Start(c) \/ OpenServer(c)
    BY <1>1, <2>2 DEF Start, OpenServer, Move, TypeOK, GreetingFirstFor, PastHello
  <2>3. ASSUME PastHello(c)', cli'[c] # "status" PROVE GreetingFirstFor(c)'
    BY <2>3 DEF GreetingFirstFor
  <2>4. CASE SendMessage(c) \/ SendClose(c) \/ ReadStatus(c) \/ ReadEmptyStatus(c)
    BY <1>1, <2>3, <2>4
    DEF SendMessage, SendClose, Send, ReadStatus, ReadEmptyStatus, Move, TypeOK, PastHello
  <2>5. CASE ReadResponse(c) \/ ReadEmptyResponse(c) \/ Finish(c) \/ Kill(c)
    BY <1>1, <2>3, <2>5
    DEF ReadResponse, ReadEmptyResponse, Finish, Kill, Move, TypeOK, PastHello
  <2>6. QED BY <1>5, <2>1, <2>2, <2>4, <2>5 DEF ClientStep
<1>6. QED BY <1>4, <1>5

LEMMA GreetingFirstStep == IInv /\ [Next]_vars => GreetingFirst'
<1> SUFFICES ASSUME IInv, [Next]_vars, NEW c \in Clients PROVE GreetingFirstFor(c)'
  BY DEF GreetingFirst, GreetingFirstFor
<1>1. TypeOK /\ GreetingFirstFor(c)
  BY DEF IInv, GreetingFirst, GreetingFirstFor
<1>2. ASSUME UNCHANGED <<cli, priv>>, ~HasWriter(c)' PROVE GreetingFirstFor(c)'
  BY <1>1, <1>2 DEF GreetingFirstFor, PastHello
<1>3. ASSUME UNCHANGED <<cli, priv>>, pc # "greet", HasWriter(c)' => HasWriter(c)
      PROVE  GreetingFirstFor(c)'
  BY <1>1, <1>3 DEF GreetingFirstFor, PastHello
<1>4. CASE StartServer
  BY <1>2, <1>4, EchoFifoAssumption DEF StartServer, HasWriter
<1>5. CASE Ending
  BY <1>2, <1>5, EndingClosesAll, EchoFifoAssumption DEF HasWriter
<1>6. CASE AcceptNew
  <2>1. /\ UNCHANGED <<cli, priv>> /\ pc = "accept" /\ pc' = "greet"
        /\ owner'[clientFd'] = Sender
        /\ HasWriter(c)' => HasWriter(c) \/ c = Sender
    BY <1>1, <1>6 DEF AcceptNew, HasWriter, TypeOK
  <2>2. CASE c = Sender
    BY <1>1, <2>1, <2>2 DEF GreetingFirstFor, PastHello
  <2>3. CASE c # Sender
    BY <1>3, <2>1, <2>3
  <2>4. QED BY <2>2, <2>3
<1>7. CASE SessionClose
  BY <1>1, <1>3, <1>7, EchoFifoAssumption DEF SessionClose, HasWriter, TypeOK
<1>8. CASE AcceptMessage \/ AcceptOther
  BY <1>3, <1>8 DEF AcceptMessage, AcceptOther, HasWriter
<1>9. CASE UNCHANGED vars
  BY <1>1, <1>9 DEF vars, srvVars, GreetingFirstFor, HasWriter, PastHello
<1>10. QED BY <1>4, <1>5, <1>6, <1>7, <1>8, <1>9, GreetPutsItFirst, EchoKeepsItFirst,
              ClientKeepsItFirst, ServerActions DEF Next, Continuing

-----------------------------------------------------------------------------
(***************************************************************************)
(* The theorems.                                                           *)
(***************************************************************************)

LEMMA IInvStep == IInv /\ [Next]_vars => IInv'
BY TypeStep, OnlyWhileServingStep, OrderStep, SessionsStep, ZeroIsFoundStep,
   SessionIsOpenStep, GreetingFirstStep DEF IInv

\* The inductive invariant holds in every state, with any number of clients,
\* runs and zeros in connections, safe names or unsafe ones, whoever is killed.
THEOREM IInvHolds == Spec => []IInv
BY IInvInit, IInvStep, PTL DEF Spec

\* Every variable of the echo FIFO server and of its clients has its type in
\* every state: descriptors, sessions and packages stay what they are.
THEOREM TypeCorrect == Spec => []TypeOK
<1>1. IInv => TypeOK
  BY DEF IInv
<1>2. QED BY IInvHolds, <1>1, PTL

\* The vector connections of server.cpp and the descriptors it has open agree,
\* whatever packages mix in the public FIFO: no session is lost from it, none
\* is there twice, and no client has two.
THEOREM ConnectionsAgree == Spec => []SessionsAreConnections
<1>1. IInv => SessionsAreConnections
  BY DEF IInv
<1>2. QED BY IInvHolds, <1>1, PTL

\* The first package a client finds in its FIFO is ConnectionSuccess, however
\* the server interleaves the sessions and whenever it crashes.
THEOREM GreetingComesFirst == Spec => []GreetedFirst
<1>1. IInv => GreetedFirst
  BY DEF IInv, GreetingFirst, GreetedFirst, PastHello
<1>2. QED BY IInvHolds, <1>1, PTL

\* What CrashNeedsDeparture says of the state before a crash.
CrashCause ==
  \/ pc = "accept" /\ cli[Sender] \in Gone
  \/ /\ pc \in {"greet", "session"}
     /\ \E c \in Clients : owner[clientFd] = c /\ cli[c] \in Gone
  \/ pc = "session" /\ clientFd = 0 /\ owner[0] \notin Clients

\* While names are read back unchanged, the server throws or dies of SIGPIPE
\* only of the client it is dealing with, if that one is gone, and in a
\* session on descriptor 0 that is no client's.
THEOREM CrashesNeedDeparture ==
  ASSUME Unsafe = {}
  PROVE  Spec => CrashNeedsDeparture
<1>1. ASSUME IInv, [Next]_vars, pc # "crashed", pc' = "crashed"
      PROVE  CrashCause
  <2>1. TypeOK /\ OnlyWhileServing /\ SentByClients /\ AsksOnce /\ SessionIsOpen
    BY <1>1 DEF IInv
  <2>2. \A c \in Clients : PastHello(c) /\ ~Reads(c) => cli[c] \in Gone
    BY DEF PastHello, Reads
  <2>3. CASE AcceptNewFails
    <3>1. Sender \in Clients /\ PastHello(Sender)
      BY <2>1, <2>3, PubHead DEF AcceptNewFails, Received, Sender, SentByClients
    <3>2. ~Reads(Sender) /\ pc = "accept"
      BY <2>3 DEF AcceptNewFails
    <3>3. QED BY <2>2, <3>1, <3>2 DEF CrashCause
  <2>4. CASE GreetFails \/ EchoFails \/ SessionCloseFails
    <3>1. pc \in {"greet", "session"} /\ clientFd \in Fds
      BY <2>1, <2>4 DEF GreetFails, EchoFails, SessionCloseFails, TypeOK
    <3>2. CASE owner[clientFd] \in Clients
      <4>1. WriteFails(clientFd)
        BY <2>4, <3>2, EchoFifoAssumption DEF GreetFails, EchoFails, SessionCloseFails
      <4>2. ~Reads(owner[clientFd]) /\ PastHello(owner[clientFd])
        BY <2>1, <3>1, <3>2, <4>1, EchoFifoAssumption DEF WriteFails, AsksOnce, HasWriter
      <4>3. QED BY <2>2, <3>1, <3>2, <4>2 DEF CrashCause
    <3>3. CASE owner[clientFd] \notin Clients
      BY <2>1, <3>1, <3>3 DEF SessionIsOpen, CrashCause
    <3>4. QED BY <3>2, <3>3
  <2>5. CASE Leave \/ KillServer
    BY <1>1, <2>5 DEF Leave, KillServer, End
  <2>6. CASE StartServer \/ AcceptNew \/ SessionClose
    BY <1>1, <2>6 DEF StartServer, AcceptNew, SessionClose
  <2>7. CASE Continuing
    BY <1>1, <2>7, ContinuingKeeps DEF Serving
  <2>8. CASE UNCHANGED srvVars
    BY <1>1, <2>8 DEF srvVars
  <2>9. QED BY <1>1, <2>3, <2>4, <2>5, <2>6, <2>7, <2>8, ClientKeepsServer, ServerActions
            DEF Next, Ending, vars
<1>2. ASSUME IInv, [Next]_vars
      PROVE  [pc # "crashed" /\ pc' = "crashed" => CrashCause]_vars
  BY <1>1, <1>2
<1>3. CrashNeedsDeparture <=> [][pc # "crashed" /\ pc' = "crashed" => CrashCause]_vars
  BY DEF CrashNeedsDeparture, CrashCause
<1>4. QED BY IInvHolds, <1>2, <1>3, PTL DEF Spec

\* find() in Accept() and in SessionClose() never comes back empty-handed, so
\* the message about a session that does not exist is never printed: Accept()
\* looks for 0 always, SessionClose() for the session under way.
SessionsAreFound ==
  /\ pc = "accept" => InConnections(0)
  /\ pc \in {"greet", "session"} => InConnections(clientFd)

\* SessionClose() closes what it finds, whatever client asked for it, and a
\* Message of any client finds the session on descriptor 0.
THEOREM FindSucceeds == Spec => []SessionsAreFound
<1>1. IInv => SessionsAreFound
  <2>1. IInv /\ Serving => InConnections(0)
    BY DEF IInv, ZeroIsFound, InConnections
  <2>2. IInv /\ pc \in {"greet", "session"} /\ clientFd # 0 => InConnections(clientFd)
    BY EchoFifoAssumption
    DEF IInv, SessionIsOpen, SessionsAreConnections, Serving, TypeOK
  <2>3. QED BY <2>1, <2>2 DEF SessionsAreFound, Serving
<1>2. QED BY IInvHolds, <1>1, PTL

\* A set of numbers has a least one.
LEMMA LeastNatural ==
  ASSUME NEW S \in SUBSET Nat, S # {}
  PROVE  \E n \in S : \A m \in S : m >= n
<1> DEFINE Upto(n) == S \cap 0 .. n
           family == {Upto(n) : n \in S}
<1>1. ASSUME NEW n \in S PROVE Upto(n) \in FiniteSubsetsOf(Nat)
  <2>1. 0 \in Int /\ n \in Int
    OBVIOUS
  <2>2. IsFiniteSet(0 .. n)
    BY <2>1, FS_Interval
  <2>3. Upto(n) \in SUBSET (0 .. n)
    OBVIOUS
  <2>4. IsFiniteSet(Upto(n))
    BY <2>2, <2>3, FS_Subset
  <2>5. QED BY <2>4 DEF FiniteSubsetsOf
<1>2. family \subseteq FiniteSubsetsOf(Nat) /\ family # {}
  BY <1>1
<1>3. \E T \in family : \A U \in family : ~(<<U, T>> \in StrictSubsetOrdering(Nat))
  BY <1>2, FS_StrictSubsetOrderingWellFounded, WFMin
<1>4. PICK n \in S : \A m \in S : ~(<<Upto(m), Upto(n)>> \in StrictSubsetOrdering(Nat))
  BY <1>3
<1>5. ASSUME NEW m \in S, m < n PROVE FALSE
  <2>1. Upto(m) \subseteq Upto(n) /\ n \in Upto(n) /\ n \notin Upto(m)
    BY <1>5
  <2>2. <<Upto(m), Upto(n)>> \in StrictSubsetOrdering(Nat)
    BY <2>1 DEF StrictSubsetOrdering
  <2>3. QED BY <1>4, <2>2
<1>6. QED BY <1>5

\* As many descriptors as Fds has are enough: a NewConnection always finds a
\* lowest free one.
DescriptorForNewcomer ==
  pc = "accept" /\ Received("NewConnection") =>
    \E f \in Fds : owner[f] = Free /\ \A g \in Fds : g < f => owner[g] # Free

\* The bound on the descriptors of the model takes no behaviour away from
\* open() in Accept(): each client has at most one session.
THEOREM DescriptorsSuffice == Spec => []DescriptorForNewcomer
<1>1. ASSUME IInv, pc = "accept", Received("NewConnection")
      PROVE  \E f \in Fds : owner[f] = Free
  <2>1. TypeOK /\ OnlyWhileServing /\ AsksOnce /\ SessionsAreConnections /\ Serving
    BY <1>1 DEF IInv, Serving
  <2>2. PICK s \in Clients : s = Sender
    BY <1>1, <2>1, Packages, PubHead DEF Received, Sender
  <2>3. ~HasWriter(s)
    BY <1>1, <2>1, <2>2, PubHead DEF Received, Sender, AsksOnce, NewConnectionAt
  <2>4. SUFFICES ASSUME \A f \in Fds : owner[f] # Free PROVE FALSE
    OBVIOUS
  <2> DEFINE Opened == 4 .. 3 + Cardinality(Clients)
             others == Clients \ {s}
  <2>5. Cardinality(Clients) \in Nat /\ IsFiniteSet(Clients)
    BY EchoFifoAssumption, FS_CardinalityType
  <2>6. IsFiniteSet(others) /\ Cardinality(others) = Cardinality(Clients) - 1
    BY <2>5, FS_RemoveElement
  <2>7. IsFiniteSet(Opened) /\ Cardinality(Opened) = Cardinality(Clients)
    <3>1. PICK last : last = 3 + Cardinality(Clients)
      OBVIOUS
    <3>2. last \in Int /\ 4 \in Int
      BY <2>5, <3>1
    <3>3. IsFiniteSet(4 .. last) /\ Cardinality(4 .. last) = IF 4 > last THEN 0 ELSE last - 4 + 1
      BY <3>2, FS_Interval
    <3>4. QED BY <2>5, <3>1, <3>3
  <2>8. \A f \in Opened : f \in Fds /\ f # 0
    BY <2>5 DEF Fds
  <2>9. \A f \in Opened : owner[f] \in others
    BY <2>1, <2>3, <2>4, <2>8 DEF TypeOK, OnlyWhileServing, HasWriter
  <2>10. Cardinality(others) < Cardinality(Opened)
    BY <2>5, <2>6, <2>7
  <2> DEFINE holder == [f \in Opened |-> owner[f]]
  <2>11. holder \in [Opened -> others]
    BY <2>9
  <2> HIDE DEF Opened, others, holder
  <2>12. \E f, g \in Opened : f # g /\ holder[f] = holder[g]
    BY <2>6, <2>7, <2>10, <2>11, FS_PigeonHole
  <2>13. QED BY <2>1, <2>8, <2>9, <2>12 DEF SessionsAreConnections, holder, others
<1>2. ASSUME NEW f \in Fds, owner[f] = Free
      PROVE  \E g \in Fds : owner[g] = Free /\ \A h \in Fds : h < g => owner[h] # Free
  <2>1. Fds \subseteq Nat
    BY EchoFifoAssumption, FS_CardinalityType DEF Fds
  <2>2. PICK free \in SUBSET Nat : free = {g \in Fds : owner[g] = Free}
    BY <2>1
  <2>3. PICK g \in free : \A h \in free : h >= g
    BY <1>2, <2>2, LeastNatural
  <2>4. QED BY <2>1, <2>2, <2>3
<1>3. IInv => DescriptorForNewcomer
  BY <1>1, <1>2 DEF DescriptorForNewcomer
<1>4. QED BY IInvHolds, <1>3, PTL

-----------------------------------------------------------------------------
(***************************************************************************)
(* One client for each run of the server: the conversation of the two,     *)
(* package by package.                                                     *)
(***************************************************************************)

Asks(c) == Serialized(c, "NewConnection")
Says(c) == Serialized(c, "Message")
Quits(c) == Serialized(c, "ConnectionClose")
Greeting == [type |-> "ConnectionSuccess", from |-> Server]

OfRun(c) == cli[c] # "start" /\ opened[c] = run

\* The server hears the client of its own run only, and writes to no other.
OnlyItsClient ==
  /\ \A c \in Clients : opened[c] <= run
  /\ \A k \in DOMAIN pub : opened[pub[k].from] = run
  /\ \A c \in Clients : HasWriter(c) => opened[c] = run

\* Standard input stays open, so that the session is on another descriptor.
StdinStays ==
  /\ Serving => owner[0] = Stdin
  /\ pc \in {"greet", "session"} => clientFd # 0

\* What may lie in the public FIFO, and when.
LoneQueue ==
  /\ pc = "accept" => pub = <<>> \/ \E c \in Clients : pub \in {<<Asks(c)>>, <<Quits(c)>>}
  /\ pc \in {"greet", "leave"} => pub = <<>>
  /\ pc = "session" =>
       pub = <<>> \/ \E c \in Clients : pub \in {<<Says(c)>>, <<Says(c), Quits(c)>>}
  /\ Serving /\ (\A c \in Clients : ~OfRun(c)) => pc = "accept" /\ pub = <<>>

\* How far the server is while its client is at some point of main().
InStep(c) ==
  /\ cli[c] \in {"opening", "hello"} => pc = "accept" /\ pub = <<>>
  /\ cli[c] = "status" =>
       \/ pc = "accept" /\ pub = <<Asks(c)>> /\ priv[c] = <<>>
       \/ pc = "greet" /\ priv[c] = <<>>
       \/ pc = "session" /\ pub = <<>>
  /\ cli[c] = "ask" => pc = "session" /\ pub = <<>>
  /\ cli[c] \in {"reply", "bye"} =>
       \/ pc = "session" /\ pub = <<Says(c)>> /\ (cli[c] = "reply" => priv[c] = <<>>)
       \/ pc = "accept" /\ pub = <<>>

\* What may lie in the private FIFO of a client, and what it prints.
LonePrivate(c) ==
  /\ cli[c] = "status" => priv[c] \in {<<>>, <<Greeting>>}
  /\ cli[c] = "ask" => priv[c] = <<>>
  /\ cli[c] = "reply" => priv[c] \in {<<>>, <<Says(c)>>}
  /\ response[c] \in {NoPackage, Says(c)}

LoneInv ==
  /\ IInv
  /\ OneClientPerRun
  /\ OnlyItsClient
  /\ StdinStays
  /\ LoneQueue
  /\ \A c \in Clients : Serving /\ OfRun(c) => InStep(c)
  /\ \A c \in Clients : LonePrivate(c)

\* FIFOs of one and two packages, and what tells the packages apart.
LEMMA ShortFifos ==
  /\ \A x : /\ <<x>> # <<>> /\ Head(<<x>>) = x /\ Tail(<<x>>) = <<>>
            /\ Append(<<>>, x) = <<x>> /\ DOMAIN <<x>> = {1} /\ <<x>>[1] = x
  /\ \A x, y : /\ <<x, y>> # <<>> /\ Head(<<x, y>>) = x /\ Tail(<<x, y>>) = <<y>>
               /\ Append(<<x>>, y) = <<x, y>> /\ <<x>> # <<x, y>>
               /\ 1 \in DOMAIN <<x, y>> /\ <<x, y>>[1] = x
<1>1. \A x : <<x>> # <<>> /\ Head(<<x>>) = x /\ DOMAIN <<x>> = {1} /\ <<x>>[1] = x
  OBVIOUS
<1>2. \A x : Tail(<<x>>) = <<>> /\ Append(<<>>, x) = <<x>>
  OBVIOUS
<1>3. \A x, y : /\ <<x, y>> # <<>> /\ Head(<<x, y>>) = x /\ <<x>> # <<x, y>>
                /\ 1 \in DOMAIN <<x, y>> /\ <<x, y>>[1] = x
  OBVIOUS
<1>4. \A x, y : Tail(<<x, y>>) = <<y>>
  OBVIOUS
<1>5. ASSUME NEW x, NEW y PROVE Append(<<x>>, y) = <<x, y>>
  <2>1. <<x>> \in Seq({x, y}) /\ Len(<<x>>) = 1 /\ <<x, y>> \in Seq({x, y}) /\ Len(<<x, y>>) = 2
    OBVIOUS
  <2>2. /\ Append(<<x>>, y) \in Seq({x, y}) /\ Len(Append(<<x>>, y)) = 2
        /\ Append(<<x>>, y)[1] = x /\ Append(<<x>>, y)[2] = y
    BY <2>1, AppendProperties
  <2>3. \A k \in 1 .. 2 : Append(<<x>>, y)[k] = <<x, y>>[k]
    BY <2>2
  <2>4. QED BY <2>1, <2>2, <2>3, SeqEqual
<1>6. QED BY <1>1, <1>2, <1>3, <1>4, <1>5

LEMMA LonePackages ==
  /\ \A c : /\ Asks(c).type = "NewConnection" /\ Asks(c).from = c
            /\ Says(c).type = "Message" /\ Says(c).from = c
            /\ Quits(c).type = "ConnectionClose" /\ Quits(c).from = c
  /\ Greeting.type = "ConnectionSuccess"
BY DEF Asks, Says, Quits, Serialized, Greeting

LoneRest ==
  /\ OnlyItsClient
  /\ StdinStays
  /\ LoneQueue
  /\ \A c \in Clients : Serving /\ OfRun(c) => InStep(c)
  /\ \A c \in Clients : LonePrivate(c)

\* Whoever is in the public FIFO, or has an open session, is the one client.
LEMMA OneOfRun ==
  ASSUME LoneInv, NEW c \in Clients, NEW d \in Clients, OfRun(c), OfRun(d)
  PROVE  c = d
BY DEF LoneInv, OneClientPerRun, OfRun

LEMMA QueuedIsOfRun ==
  ASSUME LoneInv, NEW c \in Clients, pub # <<>>, Head(pub).from = c
  PROVE  OfRun(c)
<1>1. TypeOK /\ SentByClients /\ OnlyItsClient
  BY DEF LoneInv, IInv
<1>2. QED BY <1>1, PubHead DEF SentByClients, OnlyItsClient, OfRun, PastHello

LEMMA SessionIsOfRun ==
  ASSUME LoneInv, pc \in {"greet", "session"}
  PROVE  owner[clientFd] \in Clients /\ OfRun(owner[clientFd])
<1>1. TypeOK /\ AsksOnce /\ SessionIsOpen /\ OnlyItsClient /\ StdinStays
  BY DEF LoneInv, IInv
<1>2. owner[clientFd] \in Clients
  BY <1>1 DEF SessionIsOpen, StdinStays
<1>3. HasWriter(owner[clientFd])
  BY <1>1 DEF HasWriter, TypeOK
<1>4. QED BY <1>1, <1>2, <1>3 DEF AsksOnce, OnlyItsClient, OfRun, PastHello

-----------------------------------------------------------------------------
(***************************************************************************)
(* The steps of the server, one client at a time.                          *)
(***************************************************************************)

\* A session is never opened on descriptor 0, and never closed.
LEMMA NoForeignSession ==
  ASSUME LoneInv
  PROVE  ~AcceptMessage /\ ~SessionClose
<1>1. TypeOK /\ LoneQueue
  BY DEF LoneInv, IInv
<1>2. ASSUME AcceptMessage PROVE FALSE
  <2>1. pc = "accept" /\ pub # <<>> /\ Head(pub).type = "Message"
    BY <1>2 DEF AcceptMessage, Received
  <2>2. QED BY <1>1, <2>1, ShortFifos, LonePackages DEF LoneQueue
<1>3. ASSUME SessionClose PROVE FALSE
  <2>1. pc = "session" /\ pub # <<>> /\ Head(pub).type = "ConnectionClose"
    BY <1>3 DEF SessionClose, Received
  <2>2. QED BY <1>1, <2>1, ShortFifos, LonePackages DEF LoneQueue
<1>4. QED BY <1>2, <1>3

LEMMA LoneStart == LoneInv /\ StartServer => LoneRest'
<1> SUFFICES ASSUME LoneInv, StartServer PROVE LoneRest'
  OBVIOUS
<1>1. TypeOK /\ OnlyWhileServing /\ OnlyItsClient /\ \A c \in Clients : LonePrivate(c)
  BY DEF LoneInv, IInv
<1>2. /\ pub = <<>> /\ pub' = <<>> /\ pc' = "accept" /\ run' = run + 1
      /\ UNCHANGED <<cli, opened, priv, response>>
      /\ owner'[0] = Stdin /\ \A c \in Clients : ~HasWriter(c)'
  BY <1>1, EchoFifoAssumption DEF StartServer, OnlyWhileServing, HasWriter, Fds
<1>3. \A c \in Clients : opened'[c] <= run' /\ opened'[c] # run'
  BY <1>1, <1>2, EchoFifoAssumption DEF OnlyItsClient, TypeOK
<1>4. OnlyItsClient'
  BY <1>2, <1>3, EmptySeq DEF OnlyItsClient
<1>5. StdinStays' /\ LoneQueue'
  BY <1>2 DEF StdinStays, LoneQueue
<1>6. \A c \in Clients : ~OfRun(c)'
  BY <1>3 DEF OfRun
<1>7. \A c \in Clients : LonePrivate(c)'
  BY <1>1, <1>2 DEF LonePrivate
<1>8. QED BY <1>4, <1>5, <1>6, <1>7 DEF LoneRest

LEMMA LoneEnd == LoneInv /\ Ending => LoneRest'
<1> SUFFICES ASSUME LoneInv, Ending PROVE LoneRest'
  OBVIOUS
<1>1. TypeOK /\ OnlyItsClient /\ \A c \in Clients : LonePrivate(c)
  BY DEF LoneInv, IInv
<1>2. /\ pub' = <<>> /\ pc' \in {"off", "crashed", "killed"} /\ ~Serving'
      /\ UNCHANGED <<run, cli, opened, priv, response>>
  BY EndingClosesAll
<1>3. \A c \in Clients : ~HasWriter(c)'
  BY EndingClosesAll, EchoFifoAssumption DEF HasWriter
<1>4. OnlyItsClient'
  BY <1>1, <1>2, <1>3, EmptySeq DEF OnlyItsClient
<1>5. StdinStays' /\ LoneQueue'
  BY <1>2 DEF StdinStays, LoneQueue
<1>6. \A c \in Clients : LonePrivate(c)'
  BY <1>1, <1>2 DEF LonePrivate
<1>7. QED BY <1>2, <1>4, <1>5, <1>6 DEF LoneRest

LEMMA LoneAcceptNew == LoneInv /\ AcceptNew => LoneRest'
<1> SUFFICES ASSUME LoneInv, AcceptNew PROVE LoneRest'
  OBVIOUS
<1>1. /\ TypeOK /\ OnlyItsClient /\ StdinStays /\ LoneQueue
      /\ \A c \in Clients : Serving /\ OfRun(c) => InStep(c)
      /\ \A c \in Clients : LonePrivate(c)
  BY DEF LoneInv, IInv
<1>2. /\ pc = "accept" /\ Serving /\ pub # <<>> /\ Head(pub).type = "NewConnection"
      /\ pc' = "greet" /\ pub' = Tail(pub)
      /\ UNCHANGED <<run, cli, opened, priv, response>>
  BY DEF AcceptNew, Received, Serving
<1>3. PICK s \in Clients : pub = <<Asks(s)>>
  BY <1>1, <1>2, ShortFifos, LonePackages DEF LoneQueue
<1>4. Sender = s /\ OfRun(s) /\ pub' = <<>>
  BY <1>2, <1>3, ShortFifos, LonePackages, QueuedIsOfRun DEF Sender
<1>5. PICK f \in Fds : /\ owner[f] = Free /\ owner' = [owner EXCEPT ![f] = s]
                       /\ clientFd' = f
  BY <1>4 DEF AcceptNew
<1>6. f # 0 /\ owner'[0] = Stdin
  BY <1>1, <1>2, <1>5, EchoFifoAssumption DEF StdinStays, TypeOK, Fds
<1>7. \A c \in Clients : HasWriter(c)' => HasWriter(c) \/ c = s
  BY <1>1, <1>5 DEF HasWriter, TypeOK
<1>8. OnlyItsClient'
  BY <1>1, <1>2, <1>4, <1>7, EmptySeq DEF OnlyItsClient, OfRun
<1>9. StdinStays'
  BY <1>2, <1>5, <1>6 DEF StdinStays
<1>10. OfRun(s)'
  BY <1>2, <1>4 DEF OfRun
<1>11. LoneQueue'
  BY <1>2, <1>4, <1>10 DEF LoneQueue
<1>12. ASSUME NEW c \in Clients, OfRun(c)' PROVE InStep(c)'
  <2>1. OfRun(c) /\ InStep(c)
    BY <1>1, <1>2, <1>12 DEF OfRun
  <2>2. QED BY <1>2, <1>3, <2>1, ShortFifos DEF InStep
<1>13. \A c \in Clients : LonePrivate(c)'
  BY <1>1, <1>2 DEF LonePrivate
<1>14. QED BY <1>8, <1>9, <1>11, <1>12, <1>13 DEF LoneRest

LEMMA LoneAcceptOther == LoneInv /\ AcceptOther => LoneRest'
<1> SUFFICES ASSUME LoneInv, AcceptOther PROVE LoneRest'
  OBVIOUS
<1>1. /\ TypeOK /\ OnlyItsClient /\ StdinStays /\ LoneQueue
      /\ \A c \in Clients : Serving /\ OfRun(c) => InStep(c)
      /\ \A c \in Clients : LonePrivate(c)
  BY DEF LoneInv, IInv
<1>2. /\ pc = "accept" /\ Serving /\ pub # <<>>
      /\ Head(pub).type \in {"ConnectionClose", "Message"}
      /\ pc' = "leave" /\ Serving' /\ pub' = Tail(pub)
      /\ UNCHANGED <<run, owner, clientFd, cli, opened, priv, response>>
  BY DEF AcceptOther, Received, Serving
<1>3. PICK s \in Clients : pub = <<Quits(s)>>
  BY <1>1, <1>2, ShortFifos, LonePackages DEF LoneQueue
<1>4. OfRun(s) /\ pub' = <<>>
  BY <1>2, <1>3, ShortFifos, LonePackages, QueuedIsOfRun
<1>5. OnlyItsClient'
  BY <1>1, <1>2, <1>4, EmptySeq DEF OnlyItsClient, HasWriter
<1>6. StdinStays'
  BY <1>1, <1>2 DEF StdinStays
<1>7. OfRun(s)'
  BY <1>2, <1>4 DEF OfRun
<1>8. LoneQueue'
  BY <1>2, <1>4, <1>7 DEF LoneQueue
<1>9. ASSUME NEW c \in Clients, OfRun(c)' PROVE InStep(c)'
  <2>1. OfRun(c) /\ InStep(c)
    BY <1>1, <1>2, <1>9 DEF OfRun
  <2>2. pub # <<Asks(c)>> /\ pub # <<>>
    BY <1>2, <1>3, ShortFifos, LonePackages
  <2>3. cli[c] \notin {"opening", "hello", "status", "ask", "reply", "bye"}
    BY <1>2, <2>1, <2>2 DEF InStep
  <2>4. QED BY <1>2, <2>3 DEF InStep
<1>10. \A c \in Clients : LonePrivate(c)'
  BY <1>1, <1>2 DEF LonePrivate
<1>11. QED BY <1>5, <1>6, <1>8, <1>9, <1>10 DEF LoneRest

LEMMA LoneGreet == LoneInv /\ Greet => LoneRest'
<1> SUFFICES ASSUME LoneInv, Greet PROVE LoneRest'
  OBVIOUS
<1>1. /\ TypeOK /\ OnlyItsClient /\ StdinStays /\ LoneQueue
      /\ \A c \in Clients : Serving /\ OfRun(c) => InStep(c)
      /\ \A c \in Clients : LonePrivate(c)
  BY DEF LoneInv, IInv
<1>2. /\ pc = "greet" /\ Serving /\ pc' = "session" /\ Serving' /\ pub = <<>>
      /\ UNCHANGED <<run, owner, clientFd, pub, cli, opened, response>>
  BY <1>1 DEF Greet, LoneQueue, Serving
<1>3. PICK o \in Clients : o = owner[clientFd] /\ OfRun(o)
  BY <1>2, SessionIsOfRun
<1>4. priv' = [priv EXCEPT ![o] = Append(@, Greeting)]
  BY <1>3, EchoFifoAssumption DEF Greet, WriteTo, Greeting
<1>5. InStep(o) /\ \A c \in Clients : OfRun(c)' => c = o
  BY <1>1, <1>2, <1>3, OneOfRun DEF OfRun
<1>6. OnlyItsClient'
  BY <1>1, <1>2 DEF OnlyItsClient, HasWriter
<1>7. StdinStays'
  BY <1>1, <1>2 DEF StdinStays
<1>8. OfRun(o)' /\ LoneQueue'
  BY <1>2, <1>3 DEF LoneQueue, OfRun
<1>9. cli[o] \notin {"opening", "hello", "ask", "reply", "bye"} /\ (cli[o] = "status" => priv[o] = <<>>)
  BY <1>2, <1>5 DEF InStep
<1>10. InStep(o)'
  BY <1>2, <1>9 DEF InStep
<1>11. ASSUME NEW c \in Clients PROVE LonePrivate(c)'
  <2>1. CASE c = o
    <3>1. priv'[o] = Append(priv[o], Greeting)
      BY <1>1, <1>4 DEF TypeOK
    <3>2. cli[o] = "status" => priv'[o] = <<Greeting>>
      BY <1>9, <3>1, ShortFifos
    <3>3. QED BY <1>1, <1>2, <1>9, <2>1, <3>2 DEF LonePrivate, Says
  <2>2. CASE c # o
    <3>1. priv'[c] = priv[c]
      BY <1>1, <1>4, <2>2 DEF TypeOK
    <3>2. QED BY <1>1, <1>2, <3>1 DEF LonePrivate
  <2>3. QED BY <2>1, <2>2
<1>12. QED BY <1>5, <1>6, <1>7, <1>8, <1>10, <1>11 DEF LoneRest

\* The one package a session takes is the message of its own client.
LEMMA LoneEchoed ==
  ASSUME LoneInv, pc = "session", pub # <<>>
  PROVE  /\ owner[clientFd] \in Clients /\ OfRun(owner[clientFd])
         /\ pub \in {<<Says(owner[clientFd])>>, <<Says(owner[clientFd]), Quits(owner[clientFd])>>}
<1>1. LoneQueue
  BY DEF LoneInv
<1>2. PICK s \in Clients : pub \in {<<Says(s)>>, <<Says(s), Quits(s)>>}
  BY <1>1 DEF LoneQueue
<1>3. Head(pub).from = s
  BY <1>2, ShortFifos, LonePackages
<1>4. OfRun(s)
  BY <1>3, QueuedIsOfRun
<1>5. s = owner[clientFd]
  BY <1>4, SessionIsOfRun, OneOfRun
<1>6. QED BY <1>2, <1>4, <1>5

LEMMA LoneEcho == LoneInv /\ Echo => LoneRest'
<1> SUFFICES ASSUME LoneInv, Echo PROVE LoneRest'
  OBVIOUS
<1>1. /\ TypeOK /\ OnlyItsClient /\ StdinStays /\ LoneQueue
      /\ \A c \in Clients : Serving /\ OfRun(c) => InStep(c)
      /\ \A c \in Clients : LonePrivate(c)
  BY DEF LoneInv, IInv
<1>2. /\ pc = "session" /\ Serving /\ pc' = "accept" /\ Serving' /\ pub # <<>> /\ pub' = Tail(pub)
      /\ UNCHANGED <<run, owner, clientFd, cli, opened, response>>
  BY DEF Echo, Serving
<1>3. PICK o \in Clients : /\ o = owner[clientFd] /\ OfRun(o)
                           /\ pub \in {<<Says(o)>>, <<Says(o), Quits(o)>>}
  BY <1>2, LoneEchoed
<1>4. Head(pub) = Says(o) /\ pub' = IF pub = <<Says(o)>> THEN <<>> ELSE <<Quits(o)>>
  <2>1. CASE pub = <<Says(o)>>
    BY <1>2, <2>1, ShortFifos
  <2>2. CASE pub = <<Says(o), Quits(o)>>
    <3>1. pub # <<Says(o)>> /\ Head(pub) = Says(o) /\ Tail(pub) = <<Quits(o)>>
      BY <2>2, ShortFifos
    <3>2. QED BY <1>2, <3>1
  <2>3. QED BY <1>3, <2>1, <2>2
<1>5. priv' = [priv EXCEPT ![o] = Append(@, Says(o))]
  BY <1>3, <1>4, EchoFifoAssumption DEF Echo, WriteTo
<1>6. InStep(o) /\ \A c \in Clients : OfRun(c)' => c = o
  BY <1>1, <1>2, <1>3, OneOfRun DEF OfRun
<1>7. OfRun(o)'
  BY <1>2, <1>3 DEF OfRun
<1>8. OnlyItsClient'
  <2>1. \A k \in DOMAIN pub' : pub'[k].from = o
    BY <1>4, EmptySeq, ShortFifos, LonePackages
  <2>2. QED BY <1>1, <1>2, <1>3, <2>1 DEF OnlyItsClient, HasWriter, OfRun
<1>9. StdinStays'
  BY <1>1, <1>2 DEF StdinStays
<1>10. LoneQueue'
  <2>1. pub' = <<>> \/ pub' = <<Quits(o)>>
    BY <1>4
  <2>2. pub' = <<>> \/ \E c \in Clients : pub' \in {<<Asks(c)>>, <<Quits(c)>>}
    BY <2>1
  <2>3. pc' \notin {"greet", "session", "leave"} /\ ~(\A c \in Clients : ~OfRun(c)')
    BY <1>2, <1>7
  <2>4. QED BY <2>2, <2>3 DEF LoneQueue, Asks, Says, Quits, Serialized
<1>11. /\ cli[o] \notin {"opening", "hello", "status", "ask"}
       /\ cli[o] \in {"reply", "bye"} => pub = <<Says(o)>> /\ (cli[o] = "reply" => priv[o] = <<>>)
  BY <1>2, <1>6 DEF InStep
<1>12. InStep(o)'
  BY <1>2, <1>4, <1>11 DEF InStep
<1>13. ASSUME NEW c \in Clients PROVE LonePrivate(c)'
  <2>1. CASE c = o
    <3>1. priv'[o] = Append(priv[o], Says(o))
      BY <1>1, <1>5 DEF TypeOK
    <3>2. cli[o] = "reply" => priv'[o] = <<Says(o)>>
      BY <1>11, <3>1, ShortFifos
    <3>3. QED BY <1>1, <1>2, <1>11, <2>1, <3>2 DEF LonePrivate, Says
  <2>2. CASE c # o
    <3>1. priv'[c] = priv[c]
      BY <1>1, <1>5, <2>2 DEF TypeOK
    <3>2. QED BY <1>1, <1>2, <3>1 DEF LonePrivate, Says
  <2>3. QED BY <2>1, <2>2
<1>14. QED BY <1>6, <1>8, <1>9, <1>10, <1>12, <1>13 DEF LoneRest

-----------------------------------------------------------------------------
(***************************************************************************)
(* The steps of its client.                                                *)
(***************************************************************************)

\* A client opens the public FIFO once, and says so to nobody else.
LEMMA OpenedOnce ==
  ASSUME TypeOK, NEW d \in Clients, ClientStep(d) \/ Kill(d), NEW c \in Clients
  PROVE  /\ c # d \/ cli[c] # "start" => opened'[c] = opened[c]
         /\ OfRun(c) => OfRun(c)'
<1>1. cli[c] # "start" /\ c = d => opened'[c] = opened[c] /\ cli'[c] # "start"
  BY DEF ClientStep, Start, OpenServer, SendHello, SendMessage, SendClose, Send, ReadStatus,
         ReadEmptyStatus, ReadResponse, ReadEmptyResponse, Finish, Kill, Move, TypeOK
<1>2. run' = run
  BY ClientKeepsServer DEF srvVars
<1>3. QED BY <1>1, <1>2, ClientStepOwn DEF OfRun

\* Whoever writes into the public FIFO belongs to the run.
LEMMA WriterIsOfRun ==
  ASSUME TypeOK, NEW d \in Clients, ClientStep(d) \/ Kill(d), pub' # pub
  PROVE  OfRun(d) /\ OfRun(d)'
<1>1. ServerReads(d) /\ cli[d] # "start"
  BY DEF ClientStep, Start, OpenServer, SendHello, SendMessage, SendClose, Send, ReadStatus,
         ReadEmptyStatus, ReadResponse, ReadEmptyResponse, Finish, Kill
<1>2. QED BY <1>1, OpenedOnce DEF OfRun, ServerReads

LEMMA LoneOnlyItsClient ==
  ASSUME LoneInv, NEW d \in Clients, ClientStep(d) \/ Kill(d)
  PROVE  OnlyItsClient'
<1>1. TypeOK /\ OnlyItsClient /\ SentByClients /\ AsksOnce
  BY DEF LoneInv, IInv
<1>2. run' = run /\ owner' = owner
  BY ClientKeepsServer DEF srvVars
<1>3. \A c \in Clients : PastHello(c) => opened'[c] = opened[c]
  BY <1>1, OpenedOnce DEF PastHello
<1>4. ASSUME NEW c \in Clients PROVE opened'[c] <= run'
  <2>1. opened'[c] = opened[c] \/ opened'[c] = run
    BY <1>1 DEF ClientStep, Start, OpenServer, SendHello, SendMessage, SendClose, Send, ReadStatus,
           ReadEmptyStatus, ReadResponse, ReadEmptyResponse, Finish, Kill, TypeOK
  <2>2. QED BY <1>1, <1>2, <2>1, EchoFifoAssumption DEF OnlyItsClient, TypeOK
<1>5. ASSUME NEW k \in DOMAIN pub' PROVE opened'[pub'[k].from] = run'
  <2>1. CASE pub' = pub
    BY <1>1, <1>2, <1>3, <1>5, <2>1 DEF OnlyItsClient, SentByClients
  <2>2. CASE pub' # pub
    <3>1. PICK type \in {"Message", "NewConnection", "ConnectionClose"} :
            pub' = Append(pub, Serialized(d, type))
      BY <1>1, <2>2, ClientWrites
    <3>2. Serialized(d, type) \in Package /\ Serialized(d, type).from = d /\ pub \in Seq(Package)
      BY <1>1, Packages DEF Serialized, TypeOK
    <3>3. CASE k \in DOMAIN pub
      <4>1. pub'[k] = pub[k]
        BY <3>1, <3>2, <3>3, FifoProperties
      <4>2. QED BY <1>1, <1>2, <1>3, <3>3, <4>1 DEF OnlyItsClient, SentByClients
    <3>4. CASE k \notin DOMAIN pub
      <4>1. pub'[k].from = d
        BY <1>5, <3>1, <3>2, <3>4, FifoProperties
      <4>2. QED BY <1>1, <1>2, <2>2, <4>1, WriterIsOfRun DEF OfRun
    <3>5. QED BY <3>3, <3>4
  <2>3. QED BY <2>1, <2>2
<1>6. ASSUME NEW c \in Clients, HasWriter(c)' PROVE opened'[c] = run'
  BY <1>1, <1>2, <1>3, <1>6 DEF OnlyItsClient, AsksOnce, HasWriter
<1>7. QED BY <1>4, <1>5, <1>6 DEF OnlyItsClient

LEMMA LoneClientQueue ==
  ASSUME LoneInv, NEW d \in Clients, ClientStep(d) \/ Kill(d)
  PROVE  LoneQueue'
<1>1. TypeOK /\ LoneQueue /\ (Serving /\ OfRun(d) => InStep(d))
  BY DEF LoneInv, IInv
<1>2. pc' = pc /\ run' = run
  BY ClientKeepsServer DEF srvVars
<1>3. (\A c \in Clients : ~OfRun(c)') => \A c \in Clients : ~OfRun(c)
  BY <1>1, OpenedOnce
<1>4. CASE pub' = pub
  BY <1>1, <1>2, <1>3, <1>4 DEF LoneQueue, Serving, Asks, Says, Quits, Serialized
<1>5. CASE pub' # pub
  <2>1. OfRun(d) /\ OfRun(d)' /\ Serving /\ InStep(d)
    BY <1>1, <1>5, ClientWrites, WriterIsOfRun DEF ServerReads
  <2>2. CASE SendHello(d)
    <3>1. cli[d] = "hello" /\ pub' = Append(pub, Asks(d))
      BY <1>5, <2>2 DEF SendHello, Send, Asks
    <3>2. pc = "accept" /\ pub' = <<Asks(d)>>
      BY <2>1, <3>1, ShortFifos DEF InStep
    <3>3. QED BY <1>2, <2>1, <3>2 DEF LoneQueue, Asks, Serialized
  <2>3. CASE SendMessage(d)
    <3>1. cli[d] = "ask" /\ pub' = Append(pub, Says(d))
      BY <1>5, <2>3 DEF SendMessage, Send, Says
    <3>2. pc = "session" /\ pub' = <<Says(d)>>
      BY <2>1, <3>1, ShortFifos DEF InStep
    <3>3. QED BY <1>2, <2>1, <3>2 DEF LoneQueue, Says, Serialized
  <2>4. CASE SendClose(d)
    <3>1. cli[d] = "bye" /\ pub' = Append(pub, Quits(d))
      BY <1>5, <2>4 DEF SendClose, Send, Quits
    <3>2. \/ pc = "session" /\ pub' = <<Says(d), Quits(d)>>
          \/ pc = "accept" /\ pub' = <<Quits(d)>>
      <4>1. (pc = "session" /\ pub = <<Says(d)>>) \/ (pc = "accept" /\ pub = <<>>)
        BY <2>1, <3>1 DEF InStep
      <4>2. Append(<<Says(d)>>, Quits(d)) = <<Says(d), Quits(d)>>
        BY ShortFifos
      <4>3. Append(<<>>, Quits(d)) = <<Quits(d)>>
        BY ShortFifos
      <4>4. QED BY <3>1, <4>1, <4>2, <4>3
    <3>3. QED BY <1>2, <2>1, <3>2 DEF LoneQueue, Says, Quits, Serialized
  <2>5. QED BY <1>5, <2>2, <2>3, <2>4
            DEF ClientStep, Start, OpenServer, ReadStatus, ReadEmptyStatus, ReadResponse,
                ReadEmptyResponse, Finish, Kill
<1>6. QED BY <1>4, <1>5

LEMMA LoneClientInStep ==
  ASSUME LoneInv, NEW d \in Clients, ClientStep(d) \/ Kill(d), OneClientPerRun',
         NEW c \in Clients, Serving', OfRun(c)'
  PROVE  InStep(c)'
<1>1. /\ TypeOK /\ LoneQueue /\ GreetingFirst /\ LonePrivate(d)
      /\ Serving /\ OfRun(c) => InStep(c)
  BY DEF LoneInv, IInv
<1>2. UNCHANGED <<pc, run>> /\ Serving
  BY ClientKeepsServer DEF srvVars, Serving
<1>3. CASE c # d
  <2>1. OfRun(c) /\ cli'[c] = cli[c] /\ priv'[c] = priv[c]
    BY <1>1, <1>2, <1>3, ClientStepOwn DEF OfRun
  <2>2. pub' = pub
    BY <1>1, <1>3, WriterIsOfRun DEF OneClientPerRun, OfRun
  <2>3. QED BY <1>1, <1>2, <2>1, <2>2 DEF InStep, Asks, Says, Serialized
<1>4. CASE c = d
  <2>1. CASE Start(c)
    <3>1. cli[c] = "start" /\ cli'[c] \in {"opening", "failed"} /\ pub' = pub
      BY <1>1, <2>1 DEF Start, Move, TypeOK
    <3>2. ASSUME NEW e \in Clients, OfRun(e) PROVE FALSE
      <4>1. e # c
        BY <3>1, <3>2 DEF OfRun
      <4>2. OfRun(e)'
        BY <1>1, <3>2, OpenedOnce
      <4>3. QED BY <4>1, <4>2 DEF OneClientPerRun, OfRun
    <3>3. pc = "accept" /\ pub = <<>>
      BY <1>1, <1>2, <3>2 DEF LoneQueue
    <3>4. QED BY <1>2, <3>1, <3>3 DEF InStep
  <2>2. CASE ~Start(c)
    <3>1. OfRun(c) /\ InStep(c) /\ ServerReads(c)
      <4>1. cli[c] # "start"
        BY <1>1, <1>4, <2>2 DEF ClientStep, OpenServer, SendHello, SendMessage, SendClose, Send,
             ReadStatus, ReadEmptyStatus, ReadResponse, ReadEmptyResponse, Finish, Kill, Reads
      <4>2. opened'[c] = opened[c]
        BY <1>1, <4>1, OpenedOnce
      <4>3. QED BY <1>1, <1>2, <4>1, <4>2 DEF OfRun, ServerReads
    <3>2. ASSUME cli'[c] \in {"closing"} \cup Gone PROVE InStep(c)'
      BY <3>2 DEF InStep, Gone
    <3>3. CASE OpenServer(c)
      BY <1>1, <1>2, <3>1, <3>3 DEF OpenServer, Move, TypeOK, InStep
    <3>4. CASE SendHello(c)
      <4>1. cli[c] = "hello" /\ pub' = Append(pub, Asks(c)) /\ cli'[c] = "status" /\ priv'[c] = priv[c]
        BY <1>1, <3>1, <3>4 DEF SendHello, Send, Move, TypeOK, Asks
      <4>2. pc = "accept" /\ pub' = <<Asks(c)>> /\ priv[c] = <<>>
        BY <1>1, <3>1, <4>1, ShortFifos DEF InStep, GreetingFirst, PastHello
      <4>3. QED BY <1>2, <4>1, <4>2 DEF InStep, Asks, Serialized
    <3>5. CASE SendMessage(c)
      <4>1. cli[c] = "ask" /\ pub' = Append(pub, Says(c)) /\ cli'[c] = "reply" /\ priv'[c] = priv[c]
        BY <1>1, <3>1, <3>5 DEF SendMessage, Send, Move, TypeOK, Says
      <4>2. pc = "session" /\ pub' = <<Says(c)>> /\ priv[c] = <<>>
        BY <1>1, <1>4, <3>1, <4>1, ShortFifos DEF InStep, LonePrivate
      <4>3. QED BY <1>2, <4>1, <4>2 DEF InStep, Says, Serialized
    <3>6. CASE ReadStatus(c)
      <4>1. /\ cli[c] = "status" /\ priv[c] # <<>> /\ pub' = pub
            /\ cli'[c] \in {"ask", "failed"}
        BY <1>1, <3>6 DEF ReadStatus, Move, TypeOK
      <4>2. pc = "session" /\ pub = <<>>
        BY <3>1, <4>1 DEF InStep
      <4>3. QED BY <1>2, <4>1, <4>2 DEF InStep
    <3>7. CASE ReadResponse(c) \/ ReadEmptyResponse(c)
      <4>1. cli[c] = "reply" /\ pub' = pub /\ cli'[c] = "bye"
        BY <1>1, <3>7 DEF ReadResponse, ReadEmptyResponse, Move, TypeOK
      <4>2. QED BY <1>2, <3>1, <4>1 DEF InStep, Says, Serialized
    <3>8. CASE SendClose(c)
      BY <1>1, <3>1, <3>2, <3>8 DEF SendClose, Send, Move, TypeOK
    <3>9. CASE ReadEmptyStatus(c) \/ Finish(c) \/ Kill(c)
      BY <1>1, <3>2, <3>9 DEF ReadEmptyStatus, Finish, Kill, Move, TypeOK, Gone
    <3>10. QED BY <1>4, <2>2, <3>3, <3>4, <3>5, <3>6, <3>7, <3>8, <3>9 DEF ClientStep
  <2>3. QED BY <2>1, <2>2
<1>5. QED BY <1>3, <1>4

LEMMA LoneClientPrivate ==
  ASSUME LoneInv, NEW d \in Clients, ClientStep(d) \/ Kill(d), NEW c \in Clients
  PROVE  LonePrivate(c)'
<1>1. TypeOK /\ GreetingFirst /\ LonePrivate(c)
  BY DEF LoneInv, IInv
<1>2. CASE c # d
  <2>1. cli'[c] = cli[c] /\ priv'[c] = priv[c] /\ response'[c] = response[c]
    BY <1>1, <1>2, ClientStepOwn
  <2>2. QED BY <1>1, <2>1 DEF LonePrivate, Greeting, Says, Serialized
<1>3. CASE c = d
  <2>1. ASSUME response'[c] = response[c], cli'[c] \notin {"status", "ask", "reply"}
        PROVE  LonePrivate(c)'
    BY <1>1, <2>1 DEF LonePrivate, Says, Serialized
  <2>2. CASE Start(c) \/ OpenServer(c) \/ SendClose(c)
    BY <1>1, <2>1, <2>2 DEF Start, OpenServer, SendClose, Send, Move, TypeOK
  <2>3. CASE ReadEmptyStatus(c) \/ ReadEmptyResponse(c) \/ Finish(c) \/ Kill(c)
    BY <1>1, <2>1, <2>3 DEF ReadEmptyStatus, ReadEmptyResponse, Finish, Kill, Move, TypeOK
  <2>4. CASE SendHello(c)
    <3>1. /\ cli[c] = "hello" /\ cli'[c] \in {"status", "killed"}
          /\ priv'[c] = priv[c] /\ response'[c] = response[c]
      BY <1>1, <2>4 DEF SendHello, Send, Move, TypeOK
    <3>2. priv[c] = <<>>
      BY <1>1, <3>1 DEF GreetingFirst, PastHello
    <3>3. QED BY <1>1, <3>1, <3>2 DEF LonePrivate, Says, Serialized
  <2>5. CASE SendMessage(c)
    <3>1. /\ cli[c] = "ask" /\ cli'[c] \in {"reply", "killed"}
          /\ priv'[c] = priv[c] /\ response'[c] = response[c]
      BY <1>1, <2>5 DEF SendMessage, Send, Move, TypeOK
    <3>2. QED BY <1>1, <3>1 DEF LonePrivate, Says, Serialized
  <2>6. CASE ReadStatus(c)
    <3>1. /\ cli[c] = "status" /\ cli'[c] \in {"ask", "failed"} /\ priv[c] # <<>>
          /\ priv'[c] = Tail(priv[c]) /\ response'[c] = response[c]
      BY <1>1, <2>6 DEF ReadStatus, Move, TypeOK
    <3>2. priv'[c] = <<>>
      BY <1>1, <3>1, ShortFifos DEF LonePrivate
    <3>3. QED BY <1>1, <3>1, <3>2 DEF LonePrivate, Says, Serialized
  <2>7. CASE ReadResponse(c)
    <3>1. /\ cli[c] = "reply" /\ cli'[c] = "bye" /\ priv[c] # <<>>
          /\ response'[c] = Head(priv[c])
      BY <1>1, <2>7 DEF ReadResponse, Deserialized, Move, TypeOK
    <3>2. response'[c] = Says(c)
      BY <1>1, <3>1, ShortFifos DEF LonePrivate
    <3>3. QED BY <3>1, <3>2 DEF LonePrivate, Says, Serialized
  <2>8. QED BY <1>3, <2>2, <2>3, <2>4, <2>5, <2>6, <2>7 DEF ClientStep
<1>4. QED BY <1>2, <1>3

LEMMA LoneInvStep == LoneInv /\ [Next /\ OneClientPerRun']_vars => LoneInv'
<1> SUFFICES ASSUME LoneInv, [Next /\ OneClientPerRun']_vars PROVE LoneInv'
  OBVIOUS
<1>1. IInv' /\ OneClientPerRun'
  BY IInvStep DEF LoneInv, OneClientPerRun, vars
<1>2. LoneRest' => LoneInv'
  BY <1>1 DEF LoneInv, LoneRest
<1>3. ASSUME ServerStep \/ KillServer \/ StartServer PROVE LoneRest'
  BY <1>3, ServerActions, NoForeignSession, LoneStart, LoneEnd, LoneAcceptNew,
     LoneAcceptOther, LoneGreet, LoneEcho DEF Continuing
<1>4. ASSUME NEW d \in Clients, ClientStep(d) \/ Kill(d) PROVE LoneRest'
  <2>1. StdinStays'
    BY <1>4, ClientKeepsServer DEF srvVars, StdinStays, LoneInv, Serving
  <2>2. OnlyItsClient' /\ LoneQueue'
    BY <1>4, LoneOnlyItsClient, LoneClientQueue
  <2>3. \A c \in Clients : (Serving /\ OfRun(c))' => InStep(c)'
    BY <1>1, <1>4, LoneClientInStep
  <2>4. \A c \in Clients : LonePrivate(c)'
    BY <1>4, LoneClientPrivate
  <2>5. QED BY <2>1, <2>2, <2>3, <2>4 DEF LoneRest
<1>5. ASSUME UNCHANGED vars PROVE LoneRest'
  <2>1. /\ OnlyItsClient /\ StdinStays /\ LoneQueue
        /\ \A c \in Clients : Serving /\ OfRun(c) => InStep(c)
        /\ \A c \in Clients : LonePrivate(c)
    BY DEF LoneInv
  <2>2. OnlyItsClient' /\ StdinStays'
    BY <1>5, <2>1 DEF vars, srvVars, OnlyItsClient, StdinStays, HasWriter, Serving
  <2>3. LoneQueue'
    BY <1>5, <2>1 DEF vars, srvVars, LoneQueue, Serving, OfRun, Asks, Says, Quits, Serialized
  <2>4. \A c \in Clients : (Serving /\ OfRun(c))' => InStep(c)'
    BY <1>5, <2>1 DEF vars, srvVars, InStep, Serving, OfRun, Asks, Says, Serialized
  <2>5. \A c \in Clients : LonePrivate(c)'
    BY <1>5, <2>1 DEF vars, LonePrivate, Greeting, Says, Serialized
  <2>6. QED BY <2>2, <2>3, <2>4, <2>5 DEF LoneRest
<1>6. LoneRest'
  <2>1. Next \/ UNCHANGED vars
    OBVIOUS
  <2>2. QED BY <1>3, <1>4, <1>5, <2>1 DEF Next
<1>7. QED BY <1>2, <1>6

LEMMA LoneInvInit == Init => LoneInv
<1> SUFFICES ASSUME Init PROVE LoneInv
  OBVIOUS
<1>1. OneClientPerRun
  BY DEF Init, OneClientPerRun
<1>2. OnlyItsClient
  <2>1. \A c \in Clients : ~HasWriter(c)
    BY EchoFifoAssumption DEF Init, HasWriter
  <2>2. QED BY <2>1, EmptySeq DEF Init, OnlyItsClient
<1>3. StdinStays /\ LoneQueue /\ ~Serving
  BY DEF Init, StdinStays, LoneQueue, Serving
<1>4. \A c \in Clients : LonePrivate(c)
  BY DEF Init, LonePrivate
<1>5. QED BY <1>1, <1>2, <1>3, <1>4, IInvInit DEF LoneInv

-----------------------------------------------------------------------------
(***************************************************************************)
(* The theorems about one client for each run.                             *)
(***************************************************************************)

\* The conversation of a server and its only client keeps to its steps,
\* whichever of the two is killed at whatever point of it.
THEOREM LoneInvHolds == LoneSpec => []LoneInv
BY LoneInvInit, LoneInvStep, PTL DEF LoneSpec

\* The session of a client that has the server to itself is never the one on
\* standard input, and the response it prints is the message it sent.
THEOREM LoneIsAnsweredRight == LoneSpec => []LoneSessionIsItsOwn
<1>1. LoneInv => LoneSessionIsItsOwn
  BY DEF LoneInv, StdinStays, LonePrivate, LoneSessionIsItsOwn, Says, Serialized
<1>2. QED BY LoneInvHolds, <1>1, PTL

\* With one client for each run every session is private.  It is with a second
\* client that a package is taken for the session of somebody else.
THEOREM LoneIsPrivate == LoneSpec => PrivateSession
<1>1. ASSUME LoneInv, [Next /\ OneClientPerRun']_vars, pc = "session", pc' = "accept",
             Head(pub).type # "NewConnection"
      PROVE  owner[clientFd] \in {Sender, Stdin}
  <2>1. Echo
    <3>1. ~Ending /\ ~StartServer /\ ~AcceptNew /\ ~Greet /\ ~AcceptOther
      BY <1>1, EndingClosesAll DEF StartServer, AcceptNew, Greet, AcceptOther, Serving
    <3>2. ~UNCHANGED srvVars
      BY <1>1 DEF srvVars
    <3>3. QED BY <1>1, <3>1, <3>2, NoForeignSession, ServerActions, ClientKeepsServer
              DEF Next, Continuing, vars
  <2>2. pub # <<>>
    BY <2>1 DEF Echo
  <2>3. Head(pub).from = owner[clientFd]
    BY <1>1, <2>2, LoneEchoed, ShortFifos, LonePackages
  <2>4. QED BY <2>3 DEF Sender
<1>2. ASSUME LoneInv, [Next /\ OneClientPerRun']_vars
      PROVE  [(pc = "session" /\ pc' = "accept") /\ Head(pub).type # "NewConnection"
                => owner[clientFd] \in {Sender, Stdin}]_vars
  BY <1>1, <1>2
<1>3. QED BY LoneInvHolds, <1>2, PTL DEF LoneSpec, PrivateSession
=============================================================================
