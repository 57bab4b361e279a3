--------------------------- MODULE BlockingServers ---------------------------
(***************************************************************************)
(* The two echo servers that wait in read(): simple_tcp_server, which      *)
(* serves one client at a time, and the engine's TcpMultiThreadAcceptor    *)
(* with the handler of examples/multithread_server, which gives each       *)
(* client a detached thread.  Which of the two runs is chosen once.        *)
(*                                                                         *)
(* Both call io_operation::ReadFrom() and WriteTo(), which compare a size_t*)
(* with 0 and so never notice an error; the threads do not notice an end   *)
(* of stream either and never close a socket.                              *)
(***************************************************************************)
EXTENDS TcpClients, FiniteSets

CONSTANT MaxSessions  \* sessions the process has descriptors for

ASSUME SessionsAssumption == MaxSessions \in Nat \ {0}

VARIABLES
  program,      \* the server that runs: it never changes
  pc,           \* where main() is; serve: in handleConnect()
  at,           \* where the session of each client is; over: not closed yet
  buff,         \* what was read and not yet written back; none: zeros
  isRunServer   \* bool isRunServer of the simple server

srvVars == <<program, pc, at, buff, isRunServer>>
vars == <<cliVars, srvVars>>

Simple == program = "simple"
Threads == program = "threads"

TypeOK ==
  /\ CliTypeOK
  /\ program \in {"simple", "threads"}
  /\ pc \in {"accept", "serve", "close", "stopped", "dead"}
  /\ at \in [Clients -> {"none", "read", "write", "over"}]
  /\ buff \in [Clients -> Seq(Lines)]
  /\ isRunServer \in BOOLEAN
  /\ Simple => Cardinality({c \in Clients : at[c] # "none"}) <= 1

Init ==
  /\ CliInit
  /\ program \in {"simple", "threads"}
  /\ pc = "accept"
  /\ at = [c \in Clients |-> "none"]
  /\ buff = [c \in Clients |-> <<>>]
  /\ isRunServer = TRUE

Sessions == {c \in Clients : at[c] # "none"}

-----------------------------------------------------------------------------

\* An error on a reset connection is returned once.  From then on read()
\* returns 0 and write() raises SIGPIPE.
Reported(c) ==
  /\ peer[c] = "rst"
  /\ peer' = [peer EXCEPT ![c] = "finrst"]
  /\ UNCHANGED <<cli, line, inbox, outbox, end, backlog, listening>>

\* Mutant of ReadFrom: the data is looked at and stays.
ReadFromPeek(c) ==
  /\ Readable(c)
  /\ buff' = [buff EXCEPT ![c] = inbox[c]]
  /\ UNCHANGED cliVars

\* read() blocks until there is data, the end of the stream or an error; the
\* last two leave the buffer as it was, zeros.
ReadFrom(c) ==
  /\ \/ TakeData(c)
     \/ AtEof(c) /\ UNCHANGED cliVars
     \/ AtReset(c) /\ Reported(c)
  /\ buff' = [buff EXCEPT ![c] = inbox[c]]

\* Mutant of WriteTo: write() is tried again until it succeeds.
WriteToInsisting(c) ==
  /\ PutData(c, buff[c])
  /\ buff' = [buff EXCEPT ![c] = <<>>]

\* write() of the whole buffer, which is zeros again for the next read().
WriteTo(c) ==
  /\ PutData(c, buff[c]) \/ Reported(c)
  /\ buff' = [buff EXCEPT ![c] = <<>>]

\* The whole process ends, by SIGPIPE or by an exception nobody catches, and
\* the kernel closes its descriptors.
Die ==
  /\ CloseAll(Sessions)
  /\ pc' = "dead"
  /\ at' = [c \in Clients |-> "none"]
  /\ buff' = [c \in Clients |-> <<>>]
  /\ UNCHANGED <<program, isRunServer>>

WriteKills(c) == at[c] = "write" /\ peer[c] = "finrst" /\ Die

NewSession == at' = [at EXCEPT ![Head(backlog)] = "read"]

Goto(c, where) == at' = [at EXCEPT ![c] = where]

-----------------------------------------------------------------------------
(***************************************************************************)
(* simple_tcp_server.                                                      *)
(***************************************************************************)

\* Mutant of Accept: the session is left to a thread.
AcceptOn ==
  /\ Simple /\ pc = "accept"
  /\ TakeConnection
  /\ NewSession
  /\ UNCHANGED <<program, pc, buff, isRunServer>>

Accept ==
  /\ Simple /\ pc = "accept"
  /\ TakeConnection
  /\ NewSession
  /\ pc' = "serve"
  /\ UNCHANGED <<program, buff, isRunServer>>

ReadEof(c) ==
  /\ Simple /\ at[c] = "read" /\ AtEof(c)
  /\ ReadFrom(c)
  /\ Goto(c, "over")
  /\ UNCHANGED <<program, pc, isRunServer>>

ReadStop(c) ==
  /\ Simple /\ at[c] = "read" /\ inbox[c] = <<StopLine>>
  /\ TakeData(c)
  /\ isRunServer' = FALSE
  /\ Goto(c, "over")
  /\ UNCHANGED <<program, pc, buff>>

\* Any data but a lone StopLine, and the error of a reset connection, whose
\* result is a huge size_t.
ReadLine(c) ==
  /\ Simple /\ at[c] = "read" /\ ~AtEof(c) /\ inbox[c] # <<StopLine>>
  /\ ReadFrom(c)
  /\ Goto(c, "write")
  /\ UNCHANGED <<program, pc, isRunServer>>

Answer(c) ==
  /\ Simple /\ at[c] = "write"
  /\ WriteTo(c)
  /\ Goto(c, "read")
  /\ UNCHANGED <<program, pc, isRunServer>>

\* CloseSocket(connfd), and the loop looks at isRunServer.
CloseConnection(c) ==
  /\ Simple /\ at[c] = "over"
  /\ CloseEnds({c})
  /\ Goto(c, "none")
  /\ pc' = IF isRunServer THEN "accept" ELSE "close"
  /\ UNCHANGED <<program, buff, isRunServer>>

CloseListener ==
  /\ pc = "close"
  /\ CloseAll({})
  /\ pc' = "stopped"
  /\ UNCHANGED <<program, at, buff, isRunServer>>

-----------------------------------------------------------------------------
(***************************************************************************)
(* TcpMultiThreadAcceptor and the handler of multithread_server.           *)
(***************************************************************************)

\* pollingLoop(): accept() and a new detached thread.
AcceptThread ==
  /\ Threads /\ pc = "accept"
  /\ Cardinality(Sessions) < MaxSessions
  /\ TakeConnection
  /\ NewSession
  /\ UNCHANGED <<program, pc, buff, isRunServer>>

\* No descriptor is free: accept() fails before it waits for a connection,
\* and the exception leaves pollingLoop() and main().
AcceptFails ==
  /\ Threads /\ pc = "accept"
  /\ Cardinality(Sessions) = MaxSessions
  /\ Die

\* The handler does not look at what read() returned.
ThreadRead(c) ==
  /\ Threads /\ at[c] = "read"
  /\ ReadFrom(c)
  /\ Goto(c, "write")
  /\ UNCHANGED <<program, pc, isRunServer>>

\* Mutant of ThreadWrite: the test for StopLine is lost.
ThreadWriteOn(c) ==
  /\ Threads /\ at[c] = "write"
  /\ WriteTo(c)
  /\ Goto(c, "read")
  /\ UNCHANGED <<program, pc, isRunServer>>

\* StopLine is answered like any line, then the thread ends.
ThreadWrite(c) ==
  /\ Threads /\ at[c] = "write"
  /\ WriteTo(c)
  /\ Goto(c, IF buff[c] = <<StopLine>> THEN "over" ELSE "read")
  /\ UNCHANGED <<program, pc, isRunServer>>

-----------------------------------------------------------------------------

MainStep ==
  \/ Accept
  \/ CloseListener
  \/ AcceptThread
  \/ AcceptFails

SessionStep(c) ==
  \/ ReadEof(c)
  \/ ReadStop(c)
  \/ ReadLine(c)
  \/ Answer(c)
  \/ CloseConnection(c)
  \/ ThreadRead(c)
  \/ ThreadWrite(c)
  \/ WriteKills(c)

EnvStep == UNCHANGED srvVars /\ \E c \in Clients : ClientStep(c)

Next == MainStep \/ EnvStep \/ \E c \in Clients : SessionStep(c)

Spec == Init /\ [][Next]_vars

\* Every thread is scheduled.  While accept() or read() blocks, it has no
\* step to take.
FairSpec ==
  /\ Spec /\ ClientFairness
  /\ WF_vars(MainStep)
  /\ \A c \in Clients : WF_vars(SessionStep(c))
-----------------------------------------------------------------------------
(***************************************************************************)
(* Properties.                                                             *)
(***************************************************************************)

\* Neither server can be ended by a client that stays: what ends it is a
\* write() to one that left and whose reset is there.  The simple server
\* survives a client that never wrote, and a client that got the answer to
\* its StopLine leaves the threads alone; only the threads run out of
\* descriptors.
OnlyLeaversKill ==
  [][pc # "dead" /\ pc' = "dead" =>
       \/ Threads /\ Cardinality(Sessions) = MaxSessions
       \/ \E c \in Clients :
            /\ at[c] = "write" /\ peer[c] = "finrst" /\ cli[c] = "done"
            /\ Simple => line[c] # NoLine
            /\ Threads => line[c] # StopLine \/ c \in Eager]_vars

\* The one thread of the simple server waits for the user of another client.
HeldUp(c) == Simple /\ \E d \in Sessions \ {c} : cli[d] = "input"

\* A client blocked in read() gets an answer or learns that the server is
\* gone.  Only the simple server keeps it waiting, and only while the client
\* it serves is connected and silent.
EveryReadReturns ==
  \A c \in Clients \ Eager : cli[c] = "reading" ~> cli[c] # "reading" \/ HeldUp(c)

\* The sessions of clients that have left do not stay at read() and write():
\* the simple server closes such a session, and of the threads one that was
\* not stopped writes zeros until it ends the process.
NoSessionOutlivesItsClient ==
  []<>(\A c \in Clients : cli[c] = "done" => at[c] \notin {"read", "write"})

\* What was read from c and not written back yet.
InService(c) == IF at[c] = "write" THEN buff[c] ELSE <<>>

Echo(stop) == INSTANCE EchoService WITH
                StopLine <- stop,
                place <- [c \in Clients |-> Place(c)],
                asked <- [c \in Clients |-> InService(c) \o inbox[c]],
                replies <- outbox,
                open <- pc \in {"accept", "serve"}

\* Each program implements the echo service.  For the threads no line is a
\* stop.
ImplementsEchoService ==
  /\ Echo(StopLine)!Init
  /\ [][IF Simple THEN Echo(StopLine)!Next ELSE Echo(NoLine)!Next]_(Echo(StopLine)!vars)
=============================================================================
