----------------------------- MODULE TcpClients -----------------------------
(***************************************************************************)
(* The peers of the repository's TCP servers and the loopback TCP between  *)
(* them.  A client is one run of socket/clients/tcp_client/main.cpp: it    *)
(* connects, then alternates between writing one line and reading one      *)
(* answer.  A client may be killed by its user at any moment.  A run whose *)
(* connect() fails at once, as it does for most addresses because line 24  *)
(* writes the address over the family, is a client that never starts here. *)
(* The clients in Eager are other peers, which write again before they     *)
(* have read an answer; everything else about them is the same.            *)
(*                                                                         *)
(* Each server module EXTENDS this one, adds the server's own variables    *)
(* and composes the two.  The text of a line matters only as far as the    *)
(* servers look at it: is it StopLine ("stop\r\n") or not.                 *)
(***************************************************************************)
EXTENDS Naturals, Sequences

CONSTANTS
  Clients,    \* the client processes; each runs main() once
  Eager,      \* the peers that do not wait for an answer before writing again
  Lines,      \* the texts a user may type, without the local command "close"
  StopLine,   \* "stop\r\n"
  NoLine,     \* buff of a client that has not written yet
  Backlog,    \* the argument of listen(): 10, or the engine's port number
  MaxUnread   \* bound: an eager peer writes with fewer lines than this unread

ASSUME ClientsAssumption ==
  /\ Eager \subseteq Clients
  /\ NoLine \notin Lines \cup {StopLine}
  /\ Backlog \in Nat
  /\ MaxUnread \in Nat

VARIABLES
  cli,        \* where main() of each client is
  line,       \* the line each client wrote last: isRunning is line # StopLine
  inbox,      \* lines that reached the server's end and were not read
  outbox,     \* lines that reached the client's end and were not read
  peer,       \* what the server's end has seen of the client's end
  end,        \* what the client's end has seen of the server's end
  backlog,    \* established connections the server has not accepted
  listening   \* the listening socket is open

cliVars == <<cli, line, inbox, outbox, peer, end, backlog, listening>>

CliState == {"start", "input", "reading", "closing", "done"}

\* up: open.  fin: closed in order.  rst: reset.  A server that writes to a
\* closed peer gets a reset back: finwr while it is on its way, finrst once
\* it has arrived.
PeerState == {"up", "fin", "finwr", "finrst", "rst"}
EndState  == {"up", "fin", "finrst", "rst"}

CliTypeOK ==
  /\ cli \in [Clients -> CliState]
  /\ line \in [Clients -> Lines \cup {NoLine}]
  /\ inbox \in [Clients -> Seq(Lines)]
  /\ outbox \in [Clients -> Seq(Lines)]
  /\ peer \in [Clients -> PeerState]
  /\ end \in [Clients -> EndState]
  /\ backlog \in Seq(Clients)
  /\ listening \in BOOLEAN

\* A server is modelled from the point where listen() has returned.
CliInit ==
  /\ cli = [c \in Clients |-> "start"]
  /\ line = [c \in Clients |-> NoLine]
  /\ inbox = [c \in Clients |-> <<>>]
  /\ outbox = [c \in Clients |-> <<>>]
  /\ peer = [c \in Clients |-> "up"]
  /\ end = [c \in Clients |-> "up"]
  /\ backlog = <<>>
  /\ listening = TRUE

-----------------------------------------------------------------------------
(***************************************************************************)
(* The client program.                                                     *)
(***************************************************************************)

\* connect() completes in the kernel: the server need not have accepted.  A
\* SYN that meets a full accept queue is dropped and sent again.
Connect(c) ==
  /\ cli[c] = "start" /\ listening
  /\ Len(backlog) <= Backlog
  /\ cli' = [cli EXCEPT ![c] = "input"]
  /\ backlog' = Append(backlog, c)
  /\ UNCHANGED <<line, inbox, outbox, peer, end, listening>>

ConnectRefused(c) ==
  /\ cli[c] = "start" /\ ~listening
  /\ cli' = [cli EXCEPT ![c] = "done"]
  /\ UNCHANGED <<line, inbox, outbox, peer, end, backlog, listening>>

\* The user types l and write() accepts it.  A write to a server that closed
\* in order succeeds once and brings a reset back.
SendLine(c, l) ==
  /\ cli[c] = "input" /\ end[c] # "rst"
  /\ cli' = [cli EXCEPT ![c] = "reading"]
  /\ line' = [line EXCEPT ![c] = l]
  /\ inbox' = IF end[c] = "up" THEN [inbox EXCEPT ![c] = Append(@, l)] ELSE inbox
  /\ end' = IF end[c] = "fin" THEN [end EXCEPT ![c] = "finrst"] ELSE end
  /\ UNCHANGED <<outbox, peer, backlog, listening>>

\* An eager peer writes again instead of waiting in read().
SendMore(c, l) ==
  /\ c \in Eager /\ cli[c] = "reading" /\ end[c] = "up"
  /\ Len(inbox[c]) + Len(outbox[c]) < MaxUnread
  /\ line' = [line EXCEPT ![c] = l]
  /\ inbox' = [inbox EXCEPT ![c] = Append(@, l)]
  /\ UNCHANGED <<cli, outbox, peer, end, backlog, listening>>

\* write() to a connection known to be reset: exit(-1) in errorHandler, or
\* SIGPIPE.
WriteFails(c) ==
  /\ cli[c] = "input" /\ end[c] \in {"rst", "finrst"}
  /\ cli' = [cli EXCEPT ![c] = "done"]
  /\ outbox' = [outbox EXCEPT ![c] = <<>>]
  /\ UNCHANGED <<line, inbox, peer, end, backlog, listening>>

\* The user types "close": the loop ends before anything is written.
TypeClose(c) ==
  /\ cli[c] = "input"
  /\ cli' = [cli EXCEPT ![c] = "closing"]
  /\ UNCHANGED <<line, inbox, outbox, peer, end, backlog, listening>>

\* read() returns what is there, or 0 at the end of the stream, which the
\* client does not tell from an answer.  isRunning is false after StopLine.
ReadReply(c) ==
  /\ cli[c] = "reading"
  /\ outbox[c] # <<>> \/ end[c] \in {"fin", "finrst"}
  /\ cli' = [cli EXCEPT ![c] = IF line[c] = StopLine THEN "closing" ELSE "input"]
  /\ outbox' = [outbox EXCEPT ![c] = <<>>]
  /\ UNCHANGED <<line, inbox, peer, end, backlog, listening>>

ReadReset(c) ==
  /\ cli[c] = "reading"
  /\ outbox[c] = <<>> /\ end[c] = "rst"
  /\ cli' = [cli EXCEPT ![c] = "done"]
  /\ UNCHANGED <<line, inbox, outbox, peer, end, backlog, listening>>

\* The client's socket is closed: by close(), or by the kernel when the
\* process is killed.  Unread data makes the kernel send a reset.
HangUp(c) ==
  /\ cli' = [cli EXCEPT ![c] = "done"]
  /\ outbox' = [outbox EXCEPT ![c] = <<>>]
  /\ peer' = IF end[c] # "up" THEN peer
             ELSE [peer EXCEPT ![c] = IF outbox[c] = <<>> THEN "fin" ELSE "rst"]
  /\ UNCHANGED <<line, inbox, end, backlog, listening>>

Close(c) == cli[c] = "closing" /\ HangUp(c)

Kill(c) == cli[c] \in {"input", "reading"} /\ HangUp(c)

\* The reset provoked by a server's write to a closed peer arrives.
ResetArrives(c) ==
  /\ peer[c] = "finwr"
  /\ peer' = [peer EXCEPT ![c] = "finrst"]
  /\ UNCHANGED <<cli, line, inbox, outbox, end, backlog, listening>>

ClientStep(c) ==
  \/ Connect(c)
  \/ ConnectRefused(c)
  \/ \E l \in Lines : SendLine(c, l) \/ SendMore(c, l)
  \/ WriteFails(c)
  \/ TypeClose(c)
  \/ ReadReply(c)
  \/ ReadReset(c)
  \/ Close(c)
  \/ Kill(c)
  \/ ResetArrives(c)

-----------------------------------------------------------------------------
(***************************************************************************)
(* What the servers' system calls do to these variables.                   *)
(***************************************************************************)

\* select() and poll() report a session whose read() would return at once.
Readable(c) == inbox[c] # <<>> \/ peer[c] # "up"

AtEof(c)   == inbox[c] = <<>> /\ peer[c] \in {"fin", "finwr", "finrst"}
AtReset(c) == inbox[c] = <<>> /\ peer[c] = "rst"

\* accept() takes the oldest established connection, closed or not.
TakeConnection ==
  /\ backlog # <<>>
  /\ backlog' = Tail(backlog)
  /\ UNCHANGED <<cli, line, inbox, outbox, peer, end, listening>>

\* read() takes every byte that has arrived: no line ends it.
TakeData(c) ==
  /\ inbox[c] # <<>>
  /\ inbox' = [inbox EXCEPT ![c] = <<>>]
  /\ UNCHANGED <<cli, line, outbox, peer, end, backlog, listening>>

CanWrite(c) == peer[c] \in {"up", "fin", "finwr"}

\* write() of the lines ls on the session of c.
PutData(c, ls) ==
  /\ CanWrite(c)
  /\ outbox' = IF peer[c] = "up" THEN [outbox EXCEPT ![c] = @ \o ls] ELSE outbox
  /\ peer' = IF peer[c] = "fin" THEN [peer EXCEPT ![c] = "finwr"] ELSE peer
  /\ UNCHANGED <<cli, line, inbox, end, backlog, listening>>

\* The server's ends of the connections in cs are closed; a reset is sent
\* where data was left unread.
CloseEnds(cs) ==
  /\ end' = [c \in Clients |-> IF c \notin cs THEN end[c]
                               ELSE IF inbox[c] = <<>> THEN "fin" ELSE "rst"]
  /\ inbox' = [c \in Clients |-> IF c \in cs THEN <<>> ELSE inbox[c]]
  /\ UNCHANGED <<cli, line, outbox, peer, backlog, listening>>

InBacklog(c) == \E i \in DOMAIN backlog : backlog[i] = c

\* The listening socket and the ends of the connections in cs are closed.
\* The connections nobody accepted are reset.
CloseAll(cs) ==
  /\ end' = [c \in Clients |-> IF InBacklog(c) THEN "rst"
                               ELSE IF c \notin cs THEN end[c]
                               ELSE IF inbox[c] = <<>> THEN "fin" ELSE "rst"]
  /\ inbox' = [c \in Clients |-> IF c \in cs \/ InBacklog(c) THEN <<>> ELSE inbox[c]]
  /\ backlog' = <<>>
  /\ listening' = FALSE
  /\ UNCHANGED <<cli, line, outbox, peer>>

\* Where a client is as the echo service sees it: cut when the server's end of
\* its connection is closed.
Place(c) == IF cli[c] = "start" THEN "out"
            ELSE IF cli[c] = "done" THEN "left"
            ELSE IF end[c] # "up" THEN "cut" ELSE "in"

\* The kernel and the client program run on; the user need not type.  No two
\* of the four are enabled together.
ClientFairness ==
  \A c \in Clients :
    WF_cliVars(ReadReply(c) \/ ReadReset(c) \/ Close(c) \/ ResetArrives(c))
=============================================================================
