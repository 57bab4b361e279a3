------------------------------ MODULE EchoFifo ------------------------------
(***************************************************************************)
(* fifo/echo_fifo_server_client: a server that reads one public FIFO, and  *)
(* clients that each read a private FIFO of their own.  Every package is   *)
(* one write of 1024 bytes and one read of 1024 bytes, so a FIFO is a      *)
(* sequence of packages.  A package is its type and the client that wrote  *)
(* it; of the fields of Package, fd_ is never serialized and reads 0.      *)
(*                                                                         *)
(* A client runs once, the server up to MaxRuns times, again only after an *)
(* orderly end: any other leaves the name of its public FIFO, which keeps  *)
(* later ones from starting.  The FIFO of each run is a new one.           *)
(***************************************************************************)
EXTENDS Integers, SequencesExt

CONSTANTS
  Clients,    \* the client processes, each with its own FIFO name
  Unsafe,     \* clients whose FIFO name may be read back with garbage after it
  Mortal,     \* processes that may be killed at any moment
  MaxRuns,    \* bound: how often the server may be started
  Prealloc,   \* connections starts as a vector of so many zeros: 1024
  Free,       \* a free descriptor
  Stdin,      \* what descriptor 0 is when the server starts
  Server,     \* the server, as a sender of packages and in Mortal
  NoPackage   \* response of a client that has read none

ASSUME EchoFifoAssumption ==
  /\ IsFiniteSet(Clients) /\ Unsafe \subseteq Clients
  /\ Mortal \subseteq Clients \cup {Server}
  /\ Prealloc \in Nat /\ Prealloc > 1 /\ MaxRuns \in Nat
  /\ Free \notin Clients \cup {Stdin} /\ Stdin \notin Clients
  /\ Server \notin Clients

VARIABLES
  pc,           \* where the server is
  run,          \* which run of the server this is
  owner,        \* the private FIFO behind each descriptor of the server
  connections,  \* Connections connections
  clientFd,     \* clientFd of the session under way
  pub,          \* packages in the public FIFO
  pubName,      \* the public FIFO has a name in the filesystem
  cli,          \* where main() of each client is
  opened,       \* the run whose public FIFO each client opened
  priv,         \* packages in each private FIFO
  response      \* what each client prints as the server's response

srvVars == <<pc, run, owner, connections, clientFd, pubName>>
vars == <<srvVars, pub, cli, opened, priv, response>>

\* 0 to 2 are the standard descriptors and 3 is serverFd.  open() takes the
\* lowest free one: 0 once SessionClose(0) has closed it.
Fds == {0} \cup 4 .. 3 + Cardinality(Clients)

Package == [type : {"Message", "NewConnection", "ConnectionClose"}, from : Clients]
             \cup [type : {"ConnectionSuccess"}, from : {Server}]

Gone == {"done", "failed", "killed"}

CliState == {"start", "opening", "hello", "status", "ask", "reply", "bye", "closing"}
              \cup Gone

TypeOK ==
  /\ pc \in {"off", "accept", "greet", "session", "leave", "crashed", "killed"}
  /\ run \in 0 .. MaxRuns
  /\ owner \in [Fds -> Clients \cup {Free, Stdin}]
  /\ connections \in Seq(Fds)
  /\ clientFd \in Fds
  /\ pub \in Seq(Package)
  /\ pubName \in BOOLEAN
  /\ cli \in [Clients -> CliState]
  /\ opened \in [Clients -> 0 .. MaxRuns]
  /\ priv \in [Clients -> Seq(Package)]
  /\ response \in [Clients -> Package \cup {NoPackage}]

Init ==
  /\ pc = "off" /\ run = 0
  /\ owner = [f \in Fds |-> Free]
  /\ connections = <<>>
  /\ clientFd = 0
  /\ pub = <<>>
  /\ pubName = FALSE
  /\ cli = [c \in Clients |-> "start"]
  /\ opened = [c \in Clients |-> 0]
  /\ priv = [c \in Clients |-> <<>>]
  /\ response = [c \in Clients |-> NoPackage]

Serving == pc \in {"accept", "greet", "session", "leave"}

\* Mutant of Reads: the private FIFO is closed before ConnectionClose is sent.
ReadsUntilBye(c) == cli[c] \notin {"start", "closing"} \cup Gone

\* A client has its own FIFO open for reading.
Reads(c) == cli[c] \notin {"start"} \cup Gone

\* Some descriptor of the server is a write end of the FIFO of c.
HasWriter(c) == \E f \in Fds : owner[f] = c

InConnections(f) == \E k \in DOMAIN connections : connections[k] = f

-----------------------------------------------------------------------------
(***************************************************************************)
(* The server.  ReadFrom() takes the oldest package of the public FIFO and *)
(* waits while there is none.                                              *)
(***************************************************************************)

\* CreateFifo() and OpenFile(), which blocks until a client opens the FIFO
\* as well: nobody can tell that from the read() after it.  CreateFifo()
\* throws, and nothing happens, while an earlier server has left its FIFO.
StartServer ==
  /\ ~Serving /\ ~pubName /\ run < MaxRuns
  /\ pc' = "accept" /\ run' = run + 1
  /\ owner' = [f \in Fds |-> IF f = 0 THEN Stdin ELSE Free]
  /\ connections' = [k \in 1 .. Prealloc |-> 0]
  /\ clientFd' = 0
  /\ pubName' = TRUE
  /\ UNCHANGED <<pub, cli, opened, priv, response>>

\* The process ends: its descriptors are closed and what is in the public
\* FIFO is lost with its last reader.
End(how) ==
  /\ pc' = how
  /\ owner' = [f \in Fds |-> Free]
  /\ pub' = <<>>
  /\ UNCHANGED <<run, connections, clientFd, cli, opened, priv, response>>

\* An exception nobody catches, or SIGPIPE.  The name of the FIFO stays.
Crash == End("crashed") /\ UNCHANGED pubName

KillServer == Server \in Mortal /\ Serving /\ End("killed") /\ UNCHANGED pubName

Received(type) == pub # <<>> /\ Head(pub).type = type

Sender == Head(pub).from

\* Mutant of AcceptNew: the client's FIFO is not opened.
AcceptNewUnopened ==
  /\ pc = "accept" /\ Received("NewConnection")
  /\ Reads(Sender)
  /\ pub' = Tail(pub)
  /\ pc' = "greet"
  /\ UNCHANGED <<run, owner, connections, clientFd, pubName, cli, opened, priv, response>>

\* Accept() of a NewConnection up to OpenFile(): from here on the client's
\* FIFO has a writer.
AcceptNew ==
  /\ pc = "accept" /\ Received("NewConnection")
  /\ Reads(Sender)
  /\ \E f \in Fds :
       /\ owner[f] = Free /\ \A g \in Fds : g < f => owner[g] # Free
       /\ owner' = [owner EXCEPT ![f] = Sender]
       /\ connections' = Append(connections, f)
       /\ clientFd' = f
  /\ pub' = Tail(pub)
  /\ pc' = "greet"
  /\ UNCHANGED <<run, pubName, cli, opened, priv, response>>

\* OpenFile() throws: nobody reads that FIFO any more, or deserialize() ran
\* past the end of the name, which has no terminator, into something else.
AcceptNewFails ==
  /\ pc = "accept" /\ Received("NewConnection")
  /\ ~Reads(Sender) \/ Sender \in Unsafe
  /\ Crash

\* A write of p to descriptor f.  Descriptor 0 may be a terminal, which one
\* can write to, or not.  The write fails on a closed descriptor, and nobody
\* survives it without a reader.
WriteTo(f, p) ==
  \/ /\ owner[f] \in Clients /\ Reads(owner[f])
     /\ priv' = [priv EXCEPT ![owner[f]] = Append(@, p)]
  \/ /\ owner[f] = Stdin
     /\ UNCHANGED priv

WriteFails(f) ==
  \/ owner[f] \in Clients /\ ~Reads(owner[f])
  \/ owner[f] \in {Free, Stdin}

\* Mutant of Greet: no ConnectionSuccess is written.
GreetSilently ==
  /\ pc = "greet"
  /\ pc' = "session"
  /\ UNCHANGED <<run, owner, connections, clientFd, pub, pubName, cli, opened, priv, response>>

\* Mutant of Greet: CreateNewSession() is not called after it.
GreetOnly ==
  /\ pc = "greet"
  /\ WriteTo(clientFd, [type |-> "ConnectionSuccess", from |-> Server])
  /\ pc' = "accept"
  /\ UNCHANGED <<run, owner, connections, clientFd, pub, pubName, cli, opened, response>>

Greet ==
  /\ pc = "greet"
  /\ WriteTo(clientFd, [type |-> "ConnectionSuccess", from |-> Server])
  /\ pc' = "session"
  /\ UNCHANGED <<run, owner, connections, clientFd, pub, pubName, cli, opened, response>>

GreetFails == pc = "greet" /\ WriteFails(clientFd) /\ Crash

\* Accept() of a Message looks for package.fd(), which is 0, and finds one
\* of the zeros connections started with.
AcceptMessage ==
  /\ pc = "accept" /\ Received("Message")
  /\ InConnections(0)
  /\ clientFd' = 0
  /\ pub' = Tail(pub)
  /\ pc' = "session"
  /\ UNCHANGED <<run, owner, connections, pubName, cli, opened, priv, response>>

\* Anything else makes Accept() return -1 and main() leave its loop.
AcceptOther ==
  /\ pc = "accept"
  /\ \/ Received("ConnectionClose")
     \/ Received("Message") /\ ~InConnections(0)
  /\ pub' = Tail(pub)
  /\ pc' = "leave"
  /\ UNCHANGED <<run, owner, connections, clientFd, pubName, cli, opened, priv, response>>

\* Mutant of Erase: the entry stays, marked as unused.
EraseByMarking(fd) ==
  connections' = [k \in DOMAIN connections |->
                    IF connections[k] = fd THEN 0 - 1 ELSE connections[k]]

\* Mutant of Erase: the last session goes, whichever was found.
EraseLast(fd) == connections' = SubSeq(connections, 1, Len(connections) - 1)

Erase(fd) ==
  \E k \in DOMAIN connections :
    /\ connections[k] = fd /\ \A j \in 1 .. k - 1 : connections[j] # fd
    /\ connections' = RemoveAt(connections, k)

\* CreateNewSession() reads the next package of the public FIFO, whoever
\* wrote it, and SessionClose() closes the session under way.  It finds the
\* descriptor among connections: descriptor 0 is closed at most once more
\* often than it was opened, and Prealloc is greater than that.
SessionClose ==
  /\ pc = "session" /\ Received("ConnectionClose")
  /\ owner[clientFd] # Free
  /\ Erase(clientFd)
  /\ owner' = [owner EXCEPT ![clientFd] = Free]
  /\ pub' = Tail(pub)
  /\ pc' = "accept"
  /\ UNCHANGED <<run, clientFd, pubName, cli, opened, priv, response>>

\* close() of a descriptor that is closed already: CloseFile() throws.
SessionCloseFails ==
  /\ pc = "session" /\ Received("ConnectionClose")
  /\ owner[clientFd] = Free
  /\ Crash

\* Any other package is sent back as it came, to the session under way.
Echo ==
  /\ pc = "session" /\ pub # <<>> /\ ~Received("ConnectionClose")
  /\ WriteTo(clientFd, Head(pub))
  /\ pub' = Tail(pub)
  /\ pc' = "accept"
  /\ UNCHANGED <<run, owner, connections, clientFd, pubName, cli, opened, response>>

EchoFails ==
  /\ pc = "session" /\ pub # <<>> /\ ~Received("ConnectionClose")
  /\ WriteFails(clientFd)
  /\ Crash

\* CloseFifo(), CloseFile() and the end of main().
Leave ==
  /\ pc = "leave"
  /\ End("off")
  /\ pubName' = FALSE

ServerStep ==
  \/ AcceptNew
  \/ AcceptNewFails
  \/ Greet
  \/ GreetFails
  \/ AcceptMessage
  \/ AcceptOther
  \/ SessionClose
  \/ SessionCloseFails
  \/ Echo
  \/ EchoFails
  \/ Leave

-----------------------------------------------------------------------------
(***************************************************************************)
(* A client.                                                               *)
(***************************************************************************)

Move(c, s) == cli' = [cli EXCEPT ![c] = s]

\* The server process c has the FIFO of is there to read.
ServerReads(c) == Serving /\ opened[c] = run

\* The private FIFO is created and opened without blocking, and open() finds
\* the public FIFO by its name.
Start(c) ==
  /\ cli[c] = "start"
  /\ IF pubName THEN Move(c, "opening") ELSE Move(c, "failed")
  /\ opened' = [opened EXCEPT ![c] = run]
  /\ UNCHANGED <<srvVars, pub, priv, response>>

\* open() of the public FIFO for writing blocks while nobody reads it.
OpenServer(c) ==
  /\ cli[c] = "opening" /\ ServerReads(c)
  /\ Move(c, "hello")
  /\ UNCHANGED <<srvVars, pub, opened, priv, response>>

\* serialize() puts the type and the data, the client's name, into the buffer.
Serialized(c, type) == [type |-> type, from |-> c]

\* WriteTo() of the client.  Without a reader SIGPIPE ends it.
Send(c, from, type, to) ==
  /\ cli[c] = from
  /\ IF ServerReads(c)
     THEN /\ pub' = Append(pub, Serialized(c, type))
          /\ Move(c, to)
     ELSE Move(c, "killed") /\ UNCHANGED pub
  /\ UNCHANGED <<srvVars, opened, priv, response>>

SendHello(c) == Send(c, "hello", "NewConnection", "status")
SendMessage(c) == Send(c, "ask", "Message", "reply")
SendClose(c) == Send(c, "bye", "ConnectionClose", "closing")

\* ReadFrom() compares an unsigned size with 0.  The FIFO is open without
\* blocking: when it is empty and has a writer, read() returns -1, which
\* passes for data, and the buffer stays all zeros: an empty Message.  When
\* it has no writer read() returns 0 and ReadFrom() sleeps and tries again.
EmptyRead(c) == priv[c] = <<>> /\ HasWriter(c)

\* deserialize() of the package that has arrived.
Deserialized(c) == Head(priv[c])

ReadStatus(c) ==
  /\ cli[c] = "status"
  /\ priv[c] # <<>>
  /\ priv' = [priv EXCEPT ![c] = Tail(@)]
  /\ Move(c, IF Deserialized(c).type = "ConnectionSuccess" THEN "ask" ELSE "failed")
  /\ UNCHANGED <<srvVars, pub, opened, response>>

ReadEmptyStatus(c) ==
  /\ cli[c] = "status" /\ EmptyRead(c)
  /\ Move(c, "failed")
  /\ UNCHANGED <<srvVars, pub, opened, priv, response>>

ReadResponse(c) ==
  /\ cli[c] = "reply"
  /\ priv[c] # <<>>
  /\ response' = [response EXCEPT ![c] = Deserialized(c)]
  /\ priv' = [priv EXCEPT ![c] = Tail(@)]
  /\ Move(c, "bye")
  /\ UNCHANGED <<srvVars, pub, opened>>

ReadEmptyResponse(c) ==
  /\ cli[c] = "reply" /\ EmptyRead(c)
  /\ Move(c, "bye")
  /\ UNCHANGED <<srvVars, pub, opened, priv, response>>

\* CloseFifo() and both CloseFile().
Finish(c) ==
  /\ cli[c] = "closing"
  /\ Move(c, "done")
  /\ UNCHANGED <<srvVars, pub, opened, priv, response>>

Kill(c) ==
  /\ c \in Mortal /\ Reads(c)
  /\ Move(c, "killed")
  /\ UNCHANGED <<srvVars, pub, opened, priv, response>>

ClientStep(c) ==
  \/ Start(c)
  \/ OpenServer(c)
  \/ SendHello(c)
  \/ SendMessage(c)
  \/ SendClose(c)
  \/ ReadStatus(c)
  \/ ReadEmptyStatus(c)
  \/ ReadResponse(c)
  \/ ReadEmptyResponse(c)
  \/ Finish(c)

Next == ServerStep \/ StartServer \/ KillServer \/ \E c \in Clients : ClientStep(c) \/ Kill(c)

Spec == Init /\ [][Next]_vars

\* Every process that runs is scheduled; nobody need start or kill one.
Fairness ==
  /\ WF_vars(ServerStep)
  /\ \A c \in Clients : WF_vars(cli[c] # "start" /\ ClientStep(c))

\* How the pair of programs is meant to be tried: one client for one run of
\* the server.
OneClientPerRun ==
  \A c, d \in Clients : c # d /\ cli[c] # "start" /\ cli[d] # "start"
                          => opened[c] # opened[d]

LoneSpec == Init /\ [][Next /\ OneClientPerRun']_vars

FairLoneSpec == LoneSpec /\ Fairness
-----------------------------------------------------------------------------
(***************************************************************************)
(* Properties.                                                             *)
(***************************************************************************)

\* Of the descriptors above 3, the open ones are those the vector connections
\* holds, each once, and no client has two: what find() and erase() in
\* SessionClose() rely on, although packages of several clients mix, and
\* although descriptor 0 comes and goes among the zeros of the vector.
SessionsAreConnections ==
  Serving =>
    /\ \A f \in Fds \ {0} : owner[f] # Free <=> InConnections(f)
    /\ \A j, k \in DOMAIN connections :
         connections[j] = connections[k] /\ connections[j] # 0 => j = k
    /\ \A f, g \in Fds : owner[f] \in Clients /\ owner[f] = owner[g] => f = g

\* The first package in a client's FIFO is its own ConnectionSuccess: Accept()
\* opens the FIFO and nothing else is written there before the greeting, even
\* when the packages of several clients mix.  So "Connection is failure" is
\* never the answer of a server.
GreetedFirst ==
  \A c \in Clients : cli[c] \in {"hello", "status"} /\ priv[c] # <<>>
                       => Head(priv[c]).type = "ConnectionSuccess"

\* The server crashes of the client it is dealing with, and only if that one
\* is gone: whose NewConnection it has read, or into whose FIFO it writes.
\* The exception is a session on descriptor 0 that is no client's, but the
\* terminal, or closed under the server's own feet.
CrashNeedsDeparture ==
  [][pc # "crashed" /\ pc' = "crashed" =>
       \/ pc = "accept" /\ cli[Sender] \in Gone
       \/ /\ pc \in {"greet", "session"}
          /\ \E c \in Clients : owner[clientFd] = c /\ cli[c] \in Gone
       \/ pc = "session" /\ clientFd = 0 /\ owner[0] \notin Clients]_vars

\* A client that has the run of the server to itself: its session is never
\* on descriptor 0, and what it prints as the response is the message it
\* sent, or nothing.
LoneSessionIsItsOwn ==
  /\ pc = "session" => clientFd # 0
  /\ \A c \in Clients : response[c] # NoPackage
                           => response[c] = [type |-> "Message", from |-> c]

\* c waits for a server that is no more, in open() of a FIFO nobody reads or
\* for a package nobody will write.  The server was killed, or the name it
\* read was not that of c.
Stranded(c) ==
  /\ opened[c] = run /\ priv[c] = <<>>
  /\ \/ pc = "killed" /\ cli[c] \in {"opening", "status", "reply"}
     \/ pc = "crashed" /\ c \in Unsafe /\ cli[c] = "status"

\* Such a client ends, although its reads race with the server's open() and
\* writes.  If not it is stranded, and for good: the name that server left
\* keeps every other one from starting.
LoneClientEnds ==
  \A c \in Clients : cli[c] # "start" ~> cli[c] \in Gone \/ []Stranded(c)

\* Its ConnectionClose ends the server, which breaks out of its loop if it
\* has not died of SIGPIPE before: no server outlives the session.
CloseEndsServer ==
  \A c \in Clients : cli[c] = "closing" ~> ~ServerReads(c)

\* The session opened for the private FIFO of a client is private: only that
\* client's messages are echoed into it, and only that client closes it.
PrivateSession ==
  [][(pc = "session" /\ pc' = "accept") /\ Head(pub).type # "NewConnection"
       => owner[clientFd] \in {Sender, Stdin}]_vars

\* ReadFrom() of a client: read() returns 0 while nothing was written, so the
\* call comes back with data or not at all.
ReadFromReturnsData ==
  [][\A c \in Clients : cli[c] = "status" /\ cli'[c] \in {"ask", "failed"}
                           => priv[c] # <<>>]_vars
=============================================================================
