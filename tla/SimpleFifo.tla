----------------------------- MODULE SimpleFifo -----------------------------
(***************************************************************************)
(* fifo/simple_fifo_server_client: a client writes the name of its own     *)
(* FIFO to the server's FIFO, and the server answers one greeting there.   *)
(* Both sides open every FIFO without blocking, and the client opens its   *)
(* own only after it has sent the name.                                    *)
(*                                                                         *)
(* A client runs once, with a name of its own; the server serves one name  *)
(* per run and may be started up to MaxRuns times, again only after an     *)
(* orderly end, the one that removes the name of its FIFO.                 *)
(***************************************************************************)
EXTENDS Naturals, Sequences

CONSTANTS
  Clients,    \* the client processes, each with its own FIFO name
  Mortal,     \* processes that may be killed at any moment
  MaxRuns,    \* bound: how often the server may be started
  Server,     \* the server, in Mortal
  NoName      \* an empty buffer, or a descriptor that is not open

ASSUME SimpleFifoAssumption ==
  /\ Server \notin Clients /\ NoName \notin Clients
  /\ Mortal \subseteq Clients \cup {Server}
  /\ MaxRuns \in Nat

VARIABLES
  pc,         \* where the server is
  run,        \* which run of the server this is
  pubName,    \* the server's FIFO has a name in the filesystem
  pub,        \* the names in the server's FIFO
  fifoName,   \* std::string fifoName of the server
  wfd,        \* the client behind the server's wfd
  cli,        \* where main() of each client is
  opened,     \* the run whose FIFO each client opened
  priv,       \* a greeting lies in the FIFO of each client
  msg         \* what each client has read: nothing yet, zeros, or the greeting

srvVars == <<pc, run, pubName, fifoName, wfd>>
vars == <<srvVars, pub, cli, opened, priv, msg>>

SrvState == {"off", "made", "read", "open", "write", "close", "crashed", "killed"}

Gone == {"done", "failed", "killed"}

CliState == {"start", "create", "write", "open", "read", "close"} \cup Gone

TypeOK ==
  /\ pc \in SrvState
  /\ run \in 0 .. MaxRuns
  /\ pubName \in BOOLEAN
  /\ pub \in Seq(Clients)
  /\ fifoName \in Clients \cup {NoName}
  /\ wfd \in Clients \cup {NoName}
  /\ cli \in [Clients -> CliState]
  /\ opened \in [Clients -> 0 .. MaxRuns]
  /\ priv \in [Clients -> BOOLEAN]
  /\ msg \in [Clients -> {"none", "zeros", "greeting"}]

Init ==
  /\ pc = "off" /\ run = 0
  /\ pubName = FALSE
  /\ pub = <<>>
  /\ fifoName = NoName /\ wfd = NoName
  /\ cli = [c \in Clients |-> "start"]
  /\ opened = [c \in Clients |-> 0]
  /\ priv = [c \in Clients |-> FALSE]
  /\ msg = [c \in Clients |-> "none"]

Running == pc \in {"made", "read", "open", "write", "close"}

\* The server has its FIFO open for reading.
Serving == pc \in {"read", "open", "write", "close"}

\* The server of the run whose FIFO c opened still reads it.
ServerReads(c) == Serving /\ opened[c] = run

\* A client has the FIFO of this run open for writing.
HasWriter ==
  \E c \in Clients : opened[c] = run /\ cli[c] \notin {"start"} \cup Gone

\* The clients that have their own FIFOs open for reading.
Readers == {c \in Clients : cli[c] \in {"read", "close"}}

-----------------------------------------------------------------------------
(***************************************************************************)
(* The server.                                                             *)
(***************************************************************************)

\* mkfifo().  It fails while an earlier run has left its FIFO.
MakeFifo ==
  /\ ~Running /\ ~pubName /\ run < MaxRuns
  /\ pc' = "made" /\ run' = run + 1
  /\ pubName' = TRUE
  /\ fifoName' = NoName
  /\ UNCHANGED <<pub, wfd, cli, opened, priv, msg>>

\* open() for reading, without waiting for a writer.
OpenFifo ==
  /\ pc = "made"
  /\ pc' = "read"
  /\ UNCHANGED <<run, pubName, pub, fifoName, wfd, cli, opened, priv, msg>>

\* The process ends.  What is in its FIFO is lost with the last reader.
End(how) ==
  /\ pc' = how
  /\ pub' = <<>> /\ wfd' = NoName
  /\ UNCHANGED <<run, fifoName, cli, opened, priv, msg>>

\* An exception nobody catches, or SIGPIPE.  The name of the FIFO stays.
Crash == End("crashed") /\ UNCHANGED pubName

KillServer == Server \in Mortal /\ Running /\ End("killed") /\ UNCHANGED pubName

\* ReadFrom() with a name in the FIFO: one write of 1024 bytes is one read.
ReadName ==
  /\ pc = "read" /\ pub # <<>>
  /\ fifoName' = Head(pub)
  /\ pub' = Tail(pub)
  /\ pc' = "open"
  /\ UNCHANGED <<run, pubName, wfd, cli, opened, priv, msg>>

\* ReadFrom() compares an unsigned size with 0: the -1 of an empty FIFO with
\* a writer passes for data.  With no writer it sleeps and tries again.
ReadNoName ==
  /\ pc = "read" /\ pub = <<>> /\ HasWriter
  /\ fifoName' = NoName
  /\ pc' = "open"
  /\ UNCHANGED <<run, pubName, pub, wfd, cli, opened, priv, msg>>

OpenClient ==
  /\ pc = "open"
  /\ fifoName \in Readers
  /\ wfd' = fifoName
  /\ pc' = "write"
  /\ UNCHANGED <<run, pubName, pub, fifoName, cli, opened, priv, msg>>

\* Mutant of OpenClientFails: open() is tried again.
OpenClientAgain ==
  /\ pc = "open"
  /\ fifoName = NoName
  /\ Crash

\* Mutant of OpenClientFails: the error is ignored.
OpenClientIgnored ==
  /\ pc = "open"
  /\ fifoName \notin Readers
  /\ pc' = "close"
  /\ UNCHANGED <<run, pubName, pub, fifoName, wfd, cli, opened, priv, msg>>

\* An empty name, or a FIFO that nobody reads: OpenFile() throws.
OpenClientFails ==
  /\ pc = "open"
  /\ fifoName \notin Readers
  /\ Crash

\* Mutant of Greet: the write would block, and nobody looks.
GreetUnchecked ==
  /\ pc = "write" /\ wfd \in Readers
  /\ pc' = "close"
  /\ UNCHANGED <<run, pubName, pub, fifoName, wfd, cli, opened, priv, msg>>

Greet ==
  /\ pc = "write" /\ wfd \in Readers
  /\ priv' = [priv EXCEPT ![wfd] = TRUE]
  /\ pc' = "close"
  /\ UNCHANGED <<run, pubName, pub, fifoName, wfd, cli, opened, msg>>

\* The client has closed its FIFO: SIGPIPE.
GreetFails == pc = "write" /\ wfd \notin Readers /\ Crash

\* CloseFifo(), both CloseFile() and the end of main().
Leave ==
  /\ pc = "close"
  /\ End("off")
  /\ pubName' = FALSE

ServerStep ==
  \/ OpenFifo
  \/ ReadName
  \/ ReadNoName
  \/ OpenClient
  \/ OpenClientFails
  \/ Greet
  \/ GreetFails
  \/ Leave

-----------------------------------------------------------------------------
(***************************************************************************)
(* A client.                                                               *)
(***************************************************************************)

Move(c, s) == cli' = [cli EXCEPT ![c] = s]

\* open() of the server's FIFO fails at once without the name or a reader.
OpenServer(c) ==
  /\ cli[c] = "start"
  /\ IF pubName /\ Serving THEN Move(c, "create") ELSE Move(c, "failed")
  /\ opened' = [opened EXCEPT ![c] = run]
  /\ UNCHANGED <<srvVars, pub, priv, msg>>

CreateOwn(c) ==
  /\ cli[c] = "create"
  /\ Move(c, "write")
  /\ UNCHANGED <<srvVars, pub, opened, priv, msg>>

\* Mutant of SendName: an empty buffer is sent.
SendNothing(c) ==
  /\ cli[c] = "write" /\ ServerReads(c)
  /\ pub' = Append(pub, NoName)
  /\ Move(c, "open")
  /\ UNCHANGED <<srvVars, opened, priv, msg>>

SendName(c) ==
  /\ cli[c] = "write" /\ ServerReads(c)
  /\ pub' = Append(pub, c)
  /\ Move(c, "open")
  /\ UNCHANGED <<srvVars, opened, priv, msg>>

\* The server is gone: SIGPIPE.
SendNameFails(c) ==
  /\ cli[c] = "write" /\ ~ServerReads(c)
  /\ Move(c, "killed")
  /\ UNCHANGED <<srvVars, pub, opened, priv, msg>>

OpenOwn(c) ==
  /\ cli[c] = "open"
  /\ Move(c, "read")
  /\ UNCHANGED <<srvVars, pub, opened, priv, msg>>

ReadGreeting(c) ==
  /\ cli[c] = "read" /\ priv[c]
  /\ priv' = [priv EXCEPT ![c] = FALSE]
  /\ msg' = [msg EXCEPT ![c] = "greeting"]
  /\ Move(c, "close")
  /\ UNCHANGED <<srvVars, pub, opened>>

\* The same ReadFrom(): once the server has the FIFO open, no data is data.
ReadZeros(c) ==
  /\ cli[c] = "read" /\ ~priv[c] /\ wfd = c
  /\ msg' = [msg EXCEPT ![c] = "zeros"]
  /\ Move(c, "close")
  /\ UNCHANGED <<srvVars, pub, opened, priv>>

\* What lies in a FIFO is lost with its last reader.
Quit(c, s) ==
  /\ Move(c, s)
  /\ priv' = [priv EXCEPT ![c] = FALSE]
  /\ UNCHANGED <<srvVars, pub, opened, msg>>

Finish(c) == cli[c] = "close" /\ Quit(c, "done")

Kill(c) == c \in Mortal /\ cli[c] \notin {"start"} \cup Gone /\ Quit(c, "killed")

ClientStep(c) ==
  \/ CreateOwn(c)
  \/ SendName(c)
  \/ SendNameFails(c)
  \/ OpenOwn(c)
  \/ ReadGreeting(c)
  \/ ReadZeros(c)
  \/ Finish(c)

Next ==
  \/ ServerStep
  \/ MakeFifo
  \/ KillServer
  \/ \E c \in Clients : OpenServer(c) \/ ClientStep(c) \/ Kill(c)

Spec == Init /\ [][Next]_vars

\* Every process that runs is scheduled; nobody need start or kill one.
FairSpec ==
  /\ Spec
  /\ WF_vars(ServerStep)
  /\ \A c \in Clients : WF_vars(ClientStep(c))
-----------------------------------------------------------------------------
(***************************************************************************)
(* Properties.                                                             *)
(***************************************************************************)

Of(r) == {c \in Clients : opened[c] = r}

\* The server ends in order only after it has greeted somebody, who then has
\* the greeting, gave up with an empty one just before it came, or was killed.
OrderlyEndServed ==
  pc = "off" /\ run > 0 =>
    \E c \in Of(run) : priv[c] \/ msg[c] # "none" \/ cli[c] = "killed"

\* Once a name was sent to a server, that server ends, in order or not,
\* although it may read before the name is there and open before the client
\* has opened, or after it has died.
NameEndsServer ==
  \A c \in Clients : cli[c] = "open" /\ ServerReads(c) ~> ~ServerReads(c)

\* The client that the server has opened ends, with the greeting or without.
\* If not it reads for ever: the server was killed before it had written, and
\* the name it left keeps every other one from starting.
OpenedClientEnds ==
  \A c \in Clients :
    wfd = c ~> cli[c] \in Gone \/ [](pc = "killed" /\ cli[c] = "read" /\ ~priv[c])
=============================================================================
