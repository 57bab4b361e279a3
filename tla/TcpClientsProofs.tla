--------------------------- MODULE TcpClientsProofs ---------------------------
(***************************************************************************)
(* Facts about the clients and the connections that the proofs about the   *)
(* TCP servers share.                                                      *)
(***************************************************************************)
EXTENDS TcpClients, SequenceFacts

(***************************************************************************)
(* Typing.                                                                 *)
(***************************************************************************)

LEMMA ClientStepTyped ==
  ASSUME CliTypeOK, NEW c \in Clients, ClientStep(c)
  PROVE  CliTypeOK'
<1> USE DEF CliTypeOK, CliState, PeerState, EndState
<1>1. CASE Connect(c)
  BY <1>1 DEF Connect
<1>2. CASE ConnectRefused(c)
  BY <1>2 DEF ConnectRefused
<1>3. ASSUME NEW l \in Lines, SendLine(c, l) PROVE CliTypeOK'
  <2>1. Append(inbox[c], l) \in Seq(Lines)
    OBVIOUS
  <2> QED
    BY <1>3, <2>1 DEF SendLine
<1>4. ASSUME NEW l \in Lines, SendMore(c, l) PROVE CliTypeOK'
  <2>1. Append(inbox[c], l) \in Seq(Lines)
    OBVIOUS
  <2> QED
    BY <1>4, <2>1 DEF SendMore
<1>5. CASE WriteFails(c)
  BY <1>5 DEF WriteFails
<1>6. CASE TypeClose(c)
  BY <1>6 DEF TypeClose
<1>7. CASE ReadReply(c)
  BY <1>7 DEF ReadReply
<1>8. CASE ReadReset(c)
  BY <1>8 DEF ReadReset
<1>9. CASE Close(c)
  BY <1>9 DEF Close, HangUp
<1>10. CASE Kill(c)
  BY <1>10 DEF Kill, HangUp
<1>11. CASE ResetArrives(c)
  BY <1>11 DEF ResetArrives
<1> QED
  BY <1>1, <1>2, <1>3, <1>4, <1>5, <1>6, <1>7, <1>8, <1>9, <1>10, <1>11 DEF ClientStep

\* The system calls of a server keep the types of the connections.
LEMMA CallsTyped ==
  ASSUME CliTypeOK
  PROVE  /\ TakeConnection => CliTypeOK'
         /\ \A c : TakeData(c) => CliTypeOK'
         /\ \A c : \A ls \in Seq(Lines) : PutData(c, ls) => CliTypeOK'
         /\ \A cs : CloseEnds(cs) => CliTypeOK'
         /\ \A cs : CloseAll(cs) => CliTypeOK'
<1> USE DEF CliTypeOK, CliState, PeerState, EndState
<1>1. TakeConnection => CliTypeOK'
  BY DEF TakeConnection
<1>2. ASSUME NEW c, TakeData(c) PROVE CliTypeOK'
  <2>1. <<>> \in Seq(Lines)
    BY EmptySeq
  <2>2. inbox' = [inbox EXCEPT ![c] = <<>>]
    BY <1>2 DEF TakeData
  <2>3. inbox' \in [Clients -> Seq(Lines)]
    BY <2>1, <2>2
  <2> QED
    BY <1>2, <2>3 DEF TakeData
<1>3. ASSUME NEW c, NEW ls \in Seq(Lines), PutData(c, ls) PROVE CliTypeOK'
  <2>1. c \in Clients => outbox[c] \o ls \in Seq(Lines)
    BY ConcatProperties
  <2>2. outbox' \in [Clients -> Seq(Lines)]
    BY <1>3, <2>1 DEF PutData
  <2>3. peer' \in [Clients -> PeerState]
    BY <1>3 DEF PutData
  <2> QED
    BY <1>3, <2>2, <2>3 DEF PutData
<1>4. ASSUME NEW cs, CloseEnds(cs) PROVE CliTypeOK'
  BY <1>4 DEF CloseEnds
<1>5. ASSUME NEW cs, CloseAll(cs) PROVE CliTypeOK'
  <2>1. inbox' \in [Clients -> Seq(Lines)]
    BY <1>5 DEF CloseAll
  <2>2. end' \in [Clients -> EndState]
    BY <1>5 DEF CloseAll
  <2>3. backlog' \in Seq(Clients) /\ listening' \in BOOLEAN
    BY <1>5, EmptySeq DEF CloseAll
  <2> QED
    BY <1>5, <2>1, <2>2, <2>3 DEF CloseAll
<1> QED
  BY <1>1, <1>2, <1>3, <1>4, <1>5

-----------------------------------------------------------------------------
(***************************************************************************)
(* What a client's step does.                                              *)
(***************************************************************************)

\* A client's step neither takes a connection out of the queue nor makes a
\* readable session unreadable.
LEMMA ClientStepEffect ==
  ASSUME CliTypeOK, NEW c \in Clients, ClientStep(c)
  PROVE  /\ \A d \in Clients : cli'[d] = "start" => cli[d] = "start"
         /\ \A d \in Clients : Readable(d) => Readable(d)'
         /\ \/ backlog' = backlog
            \/ cli[c] = "start" /\ cli'[c] # "start" /\ backlog' = Append(backlog, c)
<1> USE DEF CliTypeOK, CliState, PeerState, EndState, Readable
<1>1. CASE Connect(c)
  BY <1>1 DEF Connect
<1>2. CASE ConnectRefused(c)
  BY <1>2 DEF ConnectRefused
<1>3. ASSUME NEW l \in Lines, SendLine(c, l) \/ SendMore(c, l)
      PROVE  /\ \A d \in Clients : cli'[d] = "start" => cli[d] = "start"
             /\ \A d \in Clients : Readable(d) => Readable(d)'
             /\ backlog' = backlog
  <2>1. Append(inbox[c], l) # <<>>
    <3>1. inbox[c] \in Seq(Lines)
      OBVIOUS
    <3>2. ASSUME NEW s \in Seq(Lines) PROVE Append(s, l) # <<>>
      BY ONLY <3>2, AppendProperties
    <3> QED
      BY ONLY <3>1, <3>2
  <2>2. inbox' = inbox \/ inbox' = [inbox EXCEPT ![c] = Append(inbox[c], l)]
    BY <1>3 DEF SendLine, SendMore
  <2>3. \A d \in Clients : inbox[d] # <<>> => inbox'[d] # <<>>
    BY <2>1, <2>2
  <2>4. peer' = peer /\ backlog' = backlog
    BY <1>3 DEF SendLine, SendMore
  <2>5. \A d \in Clients : cli'[d] = "start" => cli[d] = "start"
    BY <1>3 DEF SendLine, SendMore
  <2> QED
    BY <2>3, <2>4, <2>5
<1>4. CASE WriteFails(c)
  BY <1>4 DEF WriteFails
<1>5. CASE TypeClose(c)
  BY <1>5 DEF TypeClose
<1>6. CASE ReadReply(c)
  BY <1>6 DEF ReadReply
<1>7. CASE ReadReset(c)
  BY <1>7 DEF ReadReset
<1>8. CASE Close(c)
  BY <1>8 DEF Close, HangUp
<1>9. CASE Kill(c)
  BY <1>9 DEF Kill, HangUp
<1>10. CASE ResetArrives(c)
  BY <1>10 DEF ResetArrives
<1> QED
  BY <1>1, <1>2, <1>3, <1>4, <1>5, <1>6, <1>7, <1>8, <1>9, <1>10 DEF ClientStep

\* A client's step concerns its own connection.  It writes a line, which is
\* the line it wrote last, or none; it takes its answers or leaves them; and
\* it leaves once, in order unless it left an answer unread.
LEMMA ClientStepOwn ==
  ASSUME CliTypeOK, NEW c \in Clients, ClientStep(c)
  PROVE  /\ \A d \in Clients \ {c} :
              /\ cli'[d] = cli[d] /\ line'[d] = line[d] /\ inbox'[d] = inbox[d]
              /\ outbox'[d] = outbox[d] /\ peer'[d] = peer[d] /\ end'[d] = end[d]
         /\ \/ /\ UNCHANGED <<line, inbox>>
               /\ outbox'[c] \in {outbox[c], <<>>}
               /\ \/ peer'[c] = peer[c]
                  \/ peer'[c] = "fin" /\ cli[c] # "done"
                  \/ peer'[c] = "rst" /\ cli[c] # "done" /\ outbox[c] # <<>>
                  \/ peer'[c] = "finrst" /\ peer[c] = "finwr"
            \/ /\ cli[c] = "input" \/ (cli[c] = "reading" /\ c \in Eager)
               /\ \E l \in Lines :
                    /\ line'[c] = l
                    /\ inbox'[c] = IF end[c] = "up" THEN Append(inbox[c], l) ELSE inbox[c]
               /\ UNCHANGED <<outbox, peer>>
<1> USE DEF CliTypeOK, CliState, PeerState, EndState
<1>1. CASE Connect(c)
  BY <1>1 DEF Connect
<1>2. CASE ConnectRefused(c)
  BY <1>2 DEF ConnectRefused
<1>3. ASSUME NEW l \in Lines, SendLine(c, l)
      PROVE  /\ \A d \in Clients \ {c} :
                  /\ cli'[d] = cli[d] /\ line'[d] = line[d] /\ inbox'[d] = inbox[d]
                  /\ outbox'[d] = outbox[d] /\ peer'[d] = peer[d] /\ end'[d] = end[d]
             /\ cli[c] = "input" /\ UNCHANGED <<outbox, peer>> /\ line'[c] = l
             /\ inbox'[c] = IF end[c] = "up" THEN Append(inbox[c], l) ELSE inbox[c]
  BY <1>3 DEF SendLine
<1>4. ASSUME NEW l \in Lines, SendMore(c, l)
      PROVE  /\ \A d \in Clients \ {c} :
                  /\ cli'[d] = cli[d] /\ line'[d] = line[d] /\ inbox'[d] = inbox[d]
                  /\ outbox'[d] = outbox[d] /\ peer'[d] = peer[d] /\ end'[d] = end[d]
             /\ cli[c] = "reading" /\ c \in Eager /\ UNCHANGED <<outbox, peer>>
             /\ line'[c] = l
             /\ inbox'[c] = IF end[c] = "up" THEN Append(inbox[c], l) ELSE inbox[c]
  BY <1>4 DEF SendMore
<1>5. CASE WriteFails(c)
  BY <1>5 DEF WriteFails
<1>6. CASE TypeClose(c)
  BY <1>6 DEF TypeClose
<1>7. CASE ReadReply(c)
  BY <1>7 DEF ReadReply
<1>8. CASE ReadReset(c)
  BY <1>8 DEF ReadReset
<1>9. CASE Close(c)
  BY <1>9 DEF Close, HangUp
<1>10. CASE Kill(c)
  BY <1>10 DEF Kill, HangUp
<1>11. CASE ResetArrives(c)
  BY <1>11 DEF ResetArrives
<1>12. CASE \E l \in Lines : SendLine(c, l) \/ SendMore(c, l)
  <2>1. PICK l \in Lines : SendLine(c, l) \/ SendMore(c, l)
    BY <1>12
  <2>2. \A d \in Clients \ {c} :
          /\ cli'[d] = cli[d] /\ line'[d] = line[d] /\ inbox'[d] = inbox[d]
          /\ outbox'[d] = outbox[d] /\ peer'[d] = peer[d] /\ end'[d] = end[d]
    BY <1>3, <1>4, <2>1
  <2>3. /\ cli[c] = "input" \/ (cli[c] = "reading" /\ c \in Eager)
        /\ UNCHANGED <<outbox, peer>> /\ line'[c] = l
        /\ inbox'[c] = IF end[c] = "up" THEN Append(inbox[c], l) ELSE inbox[c]
    BY <1>3, <1>4, <2>1
  <2> QED
    BY <2>2, <2>3
<1> QED
  BY <1>1, <1>2, <1>5, <1>6, <1>7, <1>8, <1>9, <1>10, <1>11, <1>12 DEF ClientStep

\* A client that waits for its answer, on an open connection that brings none,
\* goes on waiting or is killed.
LEMMA ReaderStays ==
  ASSUME CliTypeOK, NEW c \in Clients \ Eager, ClientStep(c),
         cli[c] \in {"reading", "done"}, outbox[c] = <<>>, end[c] = "up"
  PROVE  /\ line'[c] = line[c] /\ inbox'[c] = inbox[c]
         /\ cli'[c] \in {"reading", "done"}
<1> USE DEF CliTypeOK
<1>1. CASE Connect(c) \/ ConnectRefused(c) \/ WriteFails(c) \/ TypeClose(c)
  BY <1>1 DEF Connect, ConnectRefused, WriteFails, TypeClose
<1>2. CASE \E l \in Lines : SendLine(c, l) \/ SendMore(c, l)
  BY <1>2 DEF SendLine, SendMore
<1>3. CASE ReadReply(c) \/ ReadReset(c) \/ ResetArrives(c)
  BY <1>3 DEF ReadReply, ReadReset, ResetArrives
<1>4. CASE Close(c) \/ Kill(c)
  BY <1>4 DEF Close, Kill, HangUp
<1> QED
  BY <1>1, <1>2, <1>3, <1>4 DEF ClientStep

-----------------------------------------------------------------------------
(***************************************************************************)
(* What holds of the connections of any of the TCP servers, when S is the  *)
(* set of the clients with an open session.                                *)
(***************************************************************************)

\* A client that has not connected has no connection.
FreshConnection(c, S) ==
  cli[c] = "start" =>
    /\ ~InBacklog(c) /\ c \notin S
    /\ inbox[c] = <<>> /\ outbox[c] = <<>> /\ peer[c] = "up" /\ end[c] = "up"

\* Nobody has written to a connection that waits to be accepted.
QueuedConnection(c, S) ==
  InBacklog(c) => c \notin S /\ outbox[c] = <<>> /\ peer[c] \in {"up", "fin"}

\* The server's end of a connection it has or will have is open, and it has
\* seen the client leave if and only if the client has left.
OpenConnection(c, S) ==
  InBacklog(c) \/ c \in S => end[c] = "up" /\ (cli[c] = "done" => peer[c] # "up")

LeftConnection(c) == peer[c] # "up" => cli[c] = "done"

ClosedConnection(c) == end[c] # "up" => inbox[c] = <<>>

Connection(c, S) ==
  /\ FreshConnection(c, S)
  /\ QueuedConnection(c, S)
  /\ OpenConnection(c, S)
  /\ LeftConnection(c)
  /\ ClosedConnection(c)

QueuedOnce == \A j, k \in DOMAIN backlog : backlog[j] = backlog[k] => j = k

Connected(S) == QueuedOnce /\ \A c \in Clients : Connection(c, S)

\* Connect appends its client to the queue, and a client is queued once.
LEMMA QueueGrows ==
  ASSUME CliTypeOK, QueuedOnce, NEW c \in Clients, ~InBacklog(c),
         backlog' = Append(backlog, c)
  PROVE  /\ QueuedOnce'
         /\ \A d \in Clients : InBacklog(d)' <=> InBacklog(d) \/ d = c
<1>1. backlog \in Seq(Clients)
  BY DEF CliTypeOK
<1>2. /\ DOMAIN backlog = 1 .. Len(backlog) /\ Len(backlog) \in Nat
      /\ DOMAIN backlog' = 1 .. Len(backlog) + 1
      /\ \A j \in 1 .. Len(backlog) : backlog'[j] = backlog[j]
      /\ backlog'[Len(backlog) + 1] = c
  BY <1>1, AppendProperties
<1>3. \A j \in 1 .. Len(backlog) : backlog[j] # c
  BY <1>2 DEF InBacklog
<1>4. QueuedOnce'
  BY <1>2, <1>3 DEF QueuedOnce
<1>5. ASSUME NEW d \in Clients PROVE InBacklog(d)' <=> InBacklog(d) \/ d = c
  <2>1. Len(backlog) + 1 \in DOMAIN backlog'
    BY <1>2
  <2> QED
    BY <1>2, <2>1 DEF InBacklog
<1> QED
  BY <1>4, <1>5

\* accept() takes the client at the head, which is queued nowhere else.
LEMMA QueueShrinks ==
  ASSUME CliTypeOK, QueuedOnce, backlog # <<>>, backlog' = Tail(backlog)
  PROVE  /\ QueuedOnce'
         /\ Head(backlog) \in Clients /\ InBacklog(Head(backlog))
         /\ \A d \in Clients : InBacklog(d)' <=> InBacklog(d) /\ d # Head(backlog)
<1>1. backlog \in Seq(Clients)
  BY DEF CliTypeOK
<1>2. /\ DOMAIN backlog = 1 .. Len(backlog) /\ Len(backlog) \in Nat \ {0}
      /\ backlog[1] = Head(backlog)
  BY <1>1
<1>3. /\ Head(backlog) \in Clients
      /\ DOMAIN backlog' = 1 .. Len(backlog) - 1
      /\ \A j \in 1 .. Len(backlog) - 1 : backlog'[j] = backlog[j + 1]
  <2>1. /\ Head(backlog) \in Clients
        /\ Tail(backlog) \in Seq(Clients) /\ Len(Tail(backlog)) = Len(backlog) - 1
        /\ \A j \in 1 .. Len(Tail(backlog)) : Tail(backlog)[j] = backlog[j + 1]
    BY <1>1, HeadTailProperties
  <2> QED
    BY <1>2, <2>1
<1>4. ASSUME NEW j \in DOMAIN backlog', NEW k \in DOMAIN backlog', backlog'[j] = backlog'[k]
      PROVE  j = k
  <2>1. /\ j \in Nat /\ k \in Nat
        /\ j + 1 \in DOMAIN backlog /\ k + 1 \in DOMAIN backlog
        /\ backlog[j + 1] = backlog[k + 1]
    BY <1>2, <1>3, <1>4
  <2>2. j + 1 = k + 1
    BY <2>1 DEF QueuedOnce
  <2> QED
    BY <2>1, <2>2
<1>5. ASSUME NEW d \in Clients, InBacklog(d)' PROVE InBacklog(d) /\ d # Head(backlog)
  <2>1. PICK j \in DOMAIN backlog' : backlog'[j] = d
    BY <1>5 DEF InBacklog
  <2>2. j + 1 \in DOMAIN backlog /\ 1 \in DOMAIN backlog /\ j + 1 # 1 /\ backlog[j + 1] = d
    BY <1>2, <1>3, <2>1
  <2> QED
    BY <1>2, <2>2 DEF InBacklog, QueuedOnce
<1>6. ASSUME NEW d \in Clients, InBacklog(d), d # Head(backlog) PROVE InBacklog(d)'
  <2>1. PICK j \in DOMAIN backlog : backlog[j] = d
    BY <1>6 DEF InBacklog
  <2>2. j # 1
    BY <1>2, <1>6, <2>1
  <2>3. j - 1 \in DOMAIN backlog' /\ backlog'[j - 1] = d
    BY <1>2, <1>3, <2>1, <2>2
  <2> QED
    BY <2>3 DEF InBacklog
<1>7. InBacklog(Head(backlog))
  BY <1>2 DEF InBacklog
<1> QED
  BY <1>3, <1>4, <1>5, <1>6, <1>7 DEF QueuedOnce

\* A client's step concerns its own connection, and keeps it in order.
LEMMA ConnectedClientStep ==
  ASSUME CliTypeOK, NEW S, Connected(S), NEW c \in Clients, ClientStep(c)
  PROVE  Connected(S)'
<1> USE DEF CliTypeOK, CliState, PeerState, EndState
<1>1. QueuedOnce /\ \A d \in Clients : Connection(d, S)
  BY DEF Connected
<1>2. ASSUME UNCHANGED backlog
      PROVE  QueuedOnce' /\ \A d : InBacklog(d)' <=> InBacklog(d)
  BY <1>1, <1>2 DEF QueuedOnce, InBacklog
<1> DEFINE Rest == /\ FreshConnection(c, S)'
                   /\ QueuedConnection(c, S)'
                   /\ OpenConnection(c, S)'
                   /\ LeftConnection(c)'
                   /\ ClosedConnection(c)'
<1>3. ASSUME UNCHANGED backlog,
             \A d \in Clients \ {c} : /\ cli'[d] = cli[d] /\ inbox'[d] = inbox[d]
                                      /\ outbox'[d] = outbox[d] /\ peer'[d] = peer[d]
                                      /\ end'[d] = end[d],
             Rest
      PROVE  Connected(S)'
  <2>1. ASSUME NEW d \in Clients PROVE Connection(d, S)'
    <3>1. CASE d = c
      BY <1>3, <3>1 DEF Connection
    <3>2. CASE d # c
      BY <1>1, <1>2, <1>3, <3>2
         DEF Connection, FreshConnection, QueuedConnection, OpenConnection,
             LeftConnection, ClosedConnection
    <3> QED
      BY <3>1, <3>2
  <2> QED
    BY <1>2, <1>3, <2>1 DEF Connected
<1> USE DEF FreshConnection, QueuedConnection, OpenConnection, LeftConnection,
            ClosedConnection
<1>4. CASE Connect(c)
  <2>1. ~InBacklog(c) /\ backlog' = Append(backlog, c)
    BY <1>1, <1>4 DEF Connect, Connection
  <2>2. QueuedOnce' /\ \A d \in Clients : InBacklog(d)' <=> InBacklog(d) \/ d = c
    BY <1>1, <2>1, QueueGrows
  <2>3. \A d \in Clients : Connection(d, S)'
    BY <1>1, <1>4, <2>2 DEF Connect, Connection
  <2> QED
    BY <2>2, <2>3 DEF Connected
<1>5. Connection(c, S)
  BY <1>1
<1>6. CASE ConnectRefused(c)
  BY <1>2, <1>3, <1>5, <1>6 DEF ConnectRefused, Connection
<1>7. ASSUME NEW l \in Lines, SendLine(c, l) \/ SendMore(c, l) PROVE Connected(S)'
  <2>1. \A d \in Clients \ {c} : inbox'[d] = inbox[d]
    BY <1>7 DEF SendLine, SendMore
  <2>2. end[c] # "up" => inbox'[c] = inbox[c]
    BY <1>7 DEF SendLine, SendMore
  <2>3. cli'[c] # "start" /\ (cli'[c] = "done" => cli[c] = "done") /\ cli[c] # "start"
        /\ cli[c] # "done"
    BY <1>7 DEF SendLine, SendMore
  <2>4. end'[c] = end[c] \/ (end[c] = "fin" /\ end'[c] = "finrst")
    BY <1>7 DEF SendLine, SendMore
  <2>5. UNCHANGED <<outbox, peer, backlog>>
        /\ \A d \in Clients \ {c} : cli'[d] = cli[d] /\ end'[d] = end[d]
    BY <1>7 DEF SendLine, SendMore
  <2>6. Rest
    BY <1>2, <1>5, <2>2, <2>3, <2>4, <2>5 DEF Connection
  <2> QED
    BY <1>3, <2>1, <2>5, <2>6
<1>8. CASE WriteFails(c)
  BY <1>2, <1>3, <1>5, <1>8 DEF WriteFails, Connection
<1>9. CASE TypeClose(c)
  BY <1>2, <1>3, <1>5, <1>9 DEF TypeClose, Connection
<1>10. CASE ReadReply(c)
  BY <1>2, <1>3, <1>5, <1>10 DEF ReadReply, Connection
<1>11. CASE ReadReset(c)
  BY <1>2, <1>3, <1>5, <1>11 DEF ReadReset, Connection
<1>12. CASE Close(c) \/ Kill(c)
  <2>1. HangUp(c) /\ cli[c] # "start"
    BY <1>12 DEF Close, Kill
  <2> QED
    BY <1>2, <1>3, <1>5, <2>1 DEF HangUp, Connection
<1>13. CASE ResetArrives(c)
  BY <1>2, <1>3, <1>5, <1>13 DEF ResetArrives, Connection
<1> QED
  BY <1>4, <1>6, <1>7, <1>8, <1>9, <1>10, <1>11, <1>12, <1>13 DEF ClientStep

\* So do the system calls of a server: accept() moves a connection from the
\* queue to the sessions, and read() and write() concern a session.
LEMMA ConnectedCalls ==
  ASSUME CliTypeOK, NEW S, NEW T, Connected(S)
  PROVE  /\ TakeConnection /\ T = S \cup {Head(backlog)} => Connected(T)'
         /\ T \subseteq S /\ UNCHANGED cliVars => Connected(T)'
         /\ \A c \in S \cap Clients : TakeData(c) /\ T = S => Connected(T)'
         /\ \A c \in S \cap Clients : \A ls : PutData(c, ls) /\ T = S => Connected(T)'
         /\ \A cs : CloseEnds(cs) /\ cs \subseteq S /\ T = S \ cs => Connected(T)'
         /\ \A cs : CloseAll(cs) /\ cs \subseteq S /\ T = S \ cs => Connected(T)'
<1> USE DEF CliTypeOK, CliState, PeerState, EndState
<1>1. QueuedOnce /\ \A d \in Clients : Connection(d, S)
  BY DEF Connected
<1>2. ASSUME UNCHANGED backlog
      PROVE  QueuedOnce' /\ \A d : InBacklog(d)' <=> InBacklog(d)
  BY <1>1, <1>2 DEF QueuedOnce, InBacklog
<1> USE DEF Connection, FreshConnection, QueuedConnection, OpenConnection,
            LeftConnection, ClosedConnection
<1>3. ASSUME TakeConnection, T = S \cup {Head(backlog)} PROVE Connected(T)'
  <2>1. /\ QueuedOnce'
        /\ InBacklog(Head(backlog)) /\ Head(backlog) \in Clients
        /\ \A d \in Clients : InBacklog(d)' <=> InBacklog(d) /\ d # Head(backlog)
    BY <1>1, <1>3, QueueShrinks DEF TakeConnection
  <2>2. \A d \in Clients : Connection(d, T)'
    BY <1>1, <1>3, <2>1 DEF TakeConnection
  <2> QED
    BY <2>1, <2>2 DEF Connected
<1>4. ASSUME T \subseteq S, UNCHANGED cliVars PROVE Connected(T)'
  <2>1. \A d \in Clients : Connection(d, T)'
    BY <1>1, <1>2, <1>4 DEF cliVars
  <2> QED
    BY <1>2, <1>4, <2>1 DEF Connected, cliVars
<1>5. ASSUME NEW c \in S \cap Clients, TakeData(c), T = S PROVE Connected(T)'
  <2>1. UNCHANGED backlog
    BY <1>5 DEF TakeData
  <2>2. \A d \in Clients : Connection(d, T)'
    BY <1>1, <1>2, <1>5, <2>1 DEF TakeData
  <2> QED
    BY <1>2, <2>1, <2>2 DEF Connected
<1>6. ASSUME NEW c \in S \cap Clients, NEW ls, PutData(c, ls), T = S PROVE Connected(T)'
  <2>1. UNCHANGED <<cli, inbox, end, backlog>>
    BY <1>6 DEF PutData
  <2>2. \A d \in Clients \ {c} : outbox'[d] = outbox[d] /\ peer'[d] = peer[d]
    BY <1>6 DEF PutData
  <2>3. peer'[c] = peer[c] \/ (peer[c] = "fin" /\ peer'[c] = "finwr")
    BY <1>6 DEF PutData
  <2>4. \A d \in Clients \ {c} : Connection(d, T)'
    BY <1>1, <1>2, <1>6, <2>1, <2>2
  <2>5. Connection(c, T)'
    BY <1>1, <1>2, <1>6, <2>1, <2>3
  <2> QED
    BY <1>2, <2>1, <2>4, <2>5 DEF Connected
<1>7. ASSUME NEW cs, CloseEnds(cs), cs \subseteq S, T = S \ cs PROVE Connected(T)'
  <2>1. UNCHANGED <<cli, outbox, peer, backlog>>
    BY <1>7 DEF CloseEnds
  <2>2. \A d \in Clients : /\ inbox'[d] = IF d \in cs THEN <<>> ELSE inbox[d]
                           /\ d \notin cs => end'[d] = end[d]
    BY <1>7 DEF CloseEnds
  <2>3. \A d \in Clients : Connection(d, T)'
    BY <1>1, <1>2, <1>7, <2>1, <2>2
  <2> QED
    BY <1>2, <2>1, <2>3 DEF Connected
<1>8. ASSUME NEW cs, CloseAll(cs), cs \subseteq S, T = S \ cs PROVE Connected(T)'
  <2>1. UNCHANGED <<cli, outbox, peer>> /\ backlog' = <<>>
    BY <1>8 DEF CloseAll
  <2>2. \A d \in Clients : /\ inbox'[d] = IF d \in cs \/ InBacklog(d) THEN <<>> ELSE inbox[d]
                           /\ ~InBacklog(d) /\ d \notin cs => end'[d] = end[d]
    BY <1>8 DEF CloseAll
  <2>3. QueuedOnce' /\ \A d : ~InBacklog(d)'
    BY <2>1 DEF QueuedOnce, InBacklog
  <2>4. \A d \in Clients : Connection(d, T)'
    BY <1>1, <1>8, <2>1, <2>2, <2>3
  <2> QED
    BY <2>3, <2>4 DEF Connected
<1> QED
  BY <1>3, <1>4, <1>5, <1>6, <1>7, <1>8

-----------------------------------------------------------------------------
(***************************************************************************)
(* A client that waits for each answer has at most one line under way: at  *)
(* the server's end of the connection, in the hands of the server, or back *)
(* at its own end.                                                         *)
(***************************************************************************)

\* held is what the server has read from c and not written back.  A client
\* that typed its last line, and one that was reset, has none under way.
OneLineUnderWay(c, held) ==
  /\ {inbox[c], held, outbox[c]} \subseteq {<<>>, <<line[c]>>}
  /\ inbox[c] = <<>> \/ held = <<>>
  /\ inbox[c] = <<>> \/ outbox[c] = <<>>
  /\ held = <<>> \/ outbox[c] = <<>>

Waiting(c, held) ==
  /\ OneLineUnderWay(c, held)
  /\ cli[c] \in {"start", "input", "closing"} =>
       inbox[c] = <<>> /\ held = <<>> /\ outbox[c] = <<>>
  /\ peer[c] \in {"finwr", "finrst", "rst"} \/ end[c] # "up" =>
       inbox[c] = <<>> /\ held = <<>>

LEMMA WaitingClientStep ==
  ASSUME CliTypeOK, NEW c \in Clients \ Eager, NEW held, Waiting(c, held),
         LeftConnection(c), NEW d \in Clients, ClientStep(d)
  PROVE  Waiting(c, held)'
<1> USE DEF CliTypeOK, CliState, PeerState, EndState, Waiting, OneLineUnderWay
<1>1. ASSUME cli'[c] = cli[c], line'[c] = line[c], inbox'[c] = inbox[c],
             outbox'[c] = outbox[c], peer'[c] = peer[c], end'[c] = end[c]
      PROVE  Waiting(c, held)'
  BY <1>1
<1>2. CASE Connect(d)
  BY <1>2 DEF Connect
<1>3. CASE ConnectRefused(d)
  BY <1>3 DEF ConnectRefused
<1>4. ASSUME NEW l \in Lines, SendLine(d, l) PROVE Waiting(c, held)'
  <2>1. CASE d # c
    BY <1>1, <1>4, <2>1 DEF SendLine
  <2>2. CASE d = c
    <3>1. inbox[c] = <<>> /\ held = <<>> /\ outbox[c] = <<>> /\ peer[c] = "up"
      BY <1>4, <2>2 DEF SendLine, LeftConnection
    <3>2. line'[c] = l /\ cli'[c] = "reading" /\ peer' = peer /\ outbox' = outbox
      BY <1>4, <2>2 DEF SendLine
    <3>3. CASE end[c] = "up"
      <4>1. inbox'[c] = Append(inbox[c], l) /\ end'[c] = "up"
        BY <1>4, <2>2, <3>3 DEF SendLine
      <4>2. Append(inbox[c], l) = <<l>>
        BY <3>1
      <4> QED
        BY <3>1, <3>2, <4>1, <4>2
    <3>4. CASE end[c] # "up"
      <4>1. inbox'[c] = inbox[c]
        BY <1>4, <2>2, <3>4 DEF SendLine
      <4> QED
        BY <3>1, <3>2, <4>1
    <3> QED
      BY <3>3, <3>4
  <2> QED
    BY <2>1, <2>2
<1>5. ASSUME NEW l \in Lines, SendMore(d, l) PROVE Waiting(c, held)'
  BY <1>1, <1>5 DEF SendMore
<1>6. CASE WriteFails(d)
  BY <1>6 DEF WriteFails
<1>7. CASE TypeClose(d)
  BY <1>7 DEF TypeClose
<1>8. CASE ReadReply(d)
  BY <1>8 DEF ReadReply
<1>9. CASE ReadReset(d)
  BY <1>9 DEF ReadReset
<1>10. CASE Close(d) \/ Kill(d)
  <2>1. HangUp(d)
    BY <1>10 DEF Close, Kill
  <2>2. CASE d # c
    BY <1>1, <2>1, <2>2 DEF HangUp
  <2>3. CASE d = c
    <3>1. cli'[c] = "done" /\ outbox'[c] = <<>> /\ UNCHANGED <<line, inbox, end>>
      BY <2>1, <2>3 DEF HangUp
    <3>2. \/ peer'[c] = peer[c]
          \/ peer'[c] = "fin" /\ end[c] = "up"
          \/ peer'[c] = "rst" /\ outbox[c] # <<>> /\ end[c] = "up"
      BY <2>1, <2>3 DEF HangUp
    <3> QED
      BY <3>1, <3>2
  <2> QED
    BY <2>2, <2>3
<1>11. CASE ResetArrives(d)
  BY <1>11 DEF ResetArrives
<1> QED
  BY <1>2, <1>3, <1>4, <1>5, <1>6, <1>7, <1>8, <1>9, <1>10, <1>11 DEF ClientStep

\* read() takes the line into the server's hands, write() brings it back, and
\* a close makes an end of it.
LEMMA WaitingCalls ==
  ASSUME CliTypeOK, NEW c \in Clients, NEW held, Waiting(c, held)
  PROVE  /\ TakeConnection \/ UNCHANGED cliVars => Waiting(c, held)'
         /\ \A d : d # c /\ TakeData(d) => Waiting(c, held)'
         /\ \A d, ls : d # c /\ PutData(d, ls) => Waiting(c, held)'
         /\ \A cs : c \notin cs /\ CloseEnds(cs) => Waiting(c, held)'
         /\ \A cs : CloseEnds(cs) \/ CloseAll(cs) => Waiting(c, <<>>)'
         /\ \A new \in {<<>>, inbox[c]} :
              TakeData(c) /\ held = <<>> => Waiting(c, new)'
         /\ PutData(c, held) /\ (held = <<>> => inbox[c] = <<>>) => Waiting(c, <<>>)'
<1> USE DEF CliTypeOK, CliState, PeerState, EndState, Waiting, OneLineUnderWay
<1>1. TakeConnection \/ UNCHANGED cliVars => Waiting(c, held)'
  BY DEF TakeConnection, cliVars
<1>2. ASSUME NEW d, d # c, TakeData(d) PROVE Waiting(c, held)'
  BY <1>2 DEF TakeData
<1>3. ASSUME NEW d, NEW ls, d # c, PutData(d, ls) PROVE Waiting(c, held)'
  <2>1. outbox'[c] = outbox[c] /\ peer'[c] = peer[c]
    BY <1>3 DEF PutData
  <2> QED
    BY <1>3, <2>1 DEF PutData
<1>4. ASSUME NEW cs, c \notin cs, CloseEnds(cs) PROVE Waiting(c, held)'
  BY <1>4 DEF CloseEnds
<1>5. ASSUME NEW cs, CloseEnds(cs) PROVE Waiting(c, <<>>)'
  BY <1>5 DEF CloseEnds
<1>6. ASSUME NEW cs, CloseAll(cs) PROVE Waiting(c, <<>>)'
  BY <1>6 DEF CloseAll
<1>7. ASSUME NEW new \in {<<>>, inbox[c]}, TakeData(c), held = <<>> PROVE Waiting(c, new)'
  BY <1>7 DEF TakeData
<1>8. ASSUME PutData(c, held), held = <<>> => inbox[c] = <<>> PROVE Waiting(c, <<>>)'
  <2>1. UNCHANGED <<cli, line, inbox, end>> /\ inbox[c] = <<>>
    BY <1>8 DEF PutData
  <2>2. outbox'[c] = outbox[c] \/ outbox'[c] = outbox[c] \o held
    BY <1>8 DEF PutData
  <2>3. outbox[c] \o held \in {<<>>, <<line[c]>>}
    <3>1. /\ outbox[c] \in {<<>>, <<line[c]>>} /\ held \in {<<>>, <<line[c]>>}
          /\ held = <<>> \/ outbox[c] = <<>>
      OBVIOUS
    <3>2. \A s \in Seq({line[c]}) : s \o <<>> = s /\ <<>> \o s = s
      BY ConcatEmptySeq
    <3>3. <<>> \in Seq({line[c]}) /\ <<line[c]>> \in Seq({line[c]})
      BY ONLY EmptySeq
    <3> QED
      BY ONLY <3>1, <3>2, <3>3
  <2>4. cli[c] \in {"start", "input", "closing"} => outbox'[c] = <<>>
    BY <2>2
  <2> QED
    BY <2>1, <2>2, <2>3, <2>4
<1> QED
  BY <1>1, <1>2, <1>3, <1>4, <1>5, <1>6, <1>7, <1>8

LEMMA InitConnections ==
  ASSUME CliInit
  PROVE  CliTypeOK /\ Connected({}) /\ \A c \in Clients : Waiting(c, <<>>)
<1> USE DEF CliInit
<1>1. CliTypeOK
  BY EmptySeq DEF CliTypeOK, CliState, PeerState, EndState
<1>2. Connected({})
  BY DEF Connected, QueuedOnce, Connection, FreshConnection, QueuedConnection,
         OpenConnection, LeftConnection, ClosedConnection, InBacklog
<1>3. \A c \in Clients : Waiting(c, <<>>)
  BY DEF Waiting, OneLineUnderWay
<1> QED
  BY <1>1, <1>2, <1>3

-----------------------------------------------------------------------------
(***************************************************************************)
(* What select() or poll() reported of a connection.                       *)
(***************************************************************************)

\* The client has closed in order.
Ended(c) == peer[c] \in {"fin", "finwr", "finrst"}

\* read() on this session neither blocks nor fails.
Answerable(c) == inbox[c] # <<>> \/ Ended(c)

\* Nothing was written to this session.
Unanswered(c) == outbox[c] = <<>> /\ peer[c] \in {"up", "fin"}

\* A client can make a read() return, and neither block it nor fail it.
LEMMA ClientKeepsReadable ==
  ASSUME CliTypeOK, NEW d \in Clients, LeftConnection(d), NEW c \in Clients, ClientStep(c)
  PROVE  /\ Answerable(d) => Answerable(d)'
         /\ Ended(d) => Ended(d)'
         /\ Unanswered(d) => Unanswered(d)'
<1> USE DEF Answerable, Ended, Unanswered
<1>1. CASE d # c
  BY <1>1, ClientStepOwn
<1>2. CASE d = c /\ UNCHANGED <<line, inbox>>
  <2>1. /\ outbox'[c] \in {outbox[c], <<>>}
        /\ \/ peer'[c] = peer[c]
           \/ peer'[c] = "fin" /\ cli[c] # "done"
           \/ peer'[c] = "rst" /\ cli[c] # "done" /\ outbox[c] # <<>>
           \/ peer'[c] = "finrst" /\ peer[c] = "finwr"
           \/ UNCHANGED <<outbox, peer>>
    BY <1>2, ClientStepOwn
  <2> QED
    BY <1>2, <2>1 DEF LeftConnection
<1>3. CASE d = c /\ ~UNCHANGED <<line, inbox>>
  <2>1. /\ UNCHANGED <<outbox, peer>>
        /\ \E l \in Lines : inbox'[c] = IF end[c] = "up" THEN Append(inbox[c], l) ELSE inbox[c]
    BY <1>3, ClientStepOwn
  <2>2. inbox[c] \in Seq(Lines)
    BY DEF CliTypeOK
  <2>3. ASSUME NEW q \in Seq(Lines), NEW l \in Lines PROVE Append(q, l) # <<>>
    BY ONLY <2>3, AppendProperties
  <2>4. inbox[c] # <<>> => inbox'[c] # <<>>
    BY <2>1, <2>2, <2>3
  <2> QED
    BY <1>3, <2>1, <2>4
<1> QED
  BY <1>1, <1>2, <1>3

-----------------------------------------------------------------------------
(***************************************************************************)
(* The clients as the echo service sees them.                              *)
(***************************************************************************)

Places == [c \in Clients |-> Place(c)]

\* A client's step is one of the echo service's: the client joins, asks,
\* collects or leaves, or nothing is to be seen.
LEMMA ClientStepServed ==
  ASSUME CliTypeOK, NEW S, NEW c \in Clients, Connection(c, S), ClientStep(c)
  PROVE  \/ /\ Place(c) = "out"
            /\ Places' = [Places EXCEPT ![c] = "in"]
            /\ UNCHANGED <<inbox, outbox>>
         \/ /\ Place(c) = "in"
            /\ \E l \in Lines : inbox' = [inbox EXCEPT ![c] = Append(@, l)]
            /\ UNCHANGED <<Places, outbox>>
         \/ /\ Place(c) \in {"in", "cut"}
            /\ outbox' = [outbox EXCEPT ![c] = <<>>]
            /\ UNCHANGED <<Places, inbox>>
         \/ /\ Places' = [Places EXCEPT ![c] = "left"]
            /\ outbox' = [outbox EXCEPT ![c] = <<>>]
            /\ UNCHANGED inbox
         \/ UNCHANGED <<Places, inbox, outbox>>
<1> USE DEF CliTypeOK, CliState, PeerState, EndState
<1>1. \A p : (\A d \in Clients : Place(d)' = IF d = c THEN p ELSE Place(d))
               => Places' = [Places EXCEPT ![c] = p]
  BY DEF Places
<1>2. (\A d \in Clients : Place(d)' = Place(d)) => Places' = Places
  BY DEF Places
<1>3. Connection(c, S) => (cli[c] = "start" => end[c] = "up" /\ outbox[c] = <<>>)
  BY DEF Connection, FreshConnection
<1>4. outbox[c] = <<>> => outbox = [outbox EXCEPT ![c] = <<>>]
  OBVIOUS
<1>5. CASE Connect(c)
  <2>1. Place(c) = "out" /\ \A d \in Clients : Place(d)' = IF d = c THEN "in" ELSE Place(d)
    BY <1>3, <1>5 DEF Connect, Place
  <2> QED
    BY <1>1, <1>5, <2>1 DEF Connect
<1>6. CASE ConnectRefused(c)
  <2>1. \A d \in Clients : Place(d)' = IF d = c THEN "left" ELSE Place(d)
    BY <1>6 DEF ConnectRefused, Place
  <2> QED
    BY <1>1, <1>3, <1>4, <1>6, <2>1 DEF ConnectRefused
<1>7. ASSUME NEW l \in Lines, SendLine(c, l)
      PROVE  \/ /\ Place(c) = "in"
                /\ inbox' = [inbox EXCEPT ![c] = Append(@, l)]
                /\ UNCHANGED <<Places, outbox>>
             \/ UNCHANGED <<Places, inbox, outbox>>
  <2>1. \A d \in Clients : Place(d)' = Place(d)
    BY <1>7 DEF SendLine, Place
  <2>2. CASE end[c] = "up"
    <3>1. Place(c) = "in" /\ inbox' = [inbox EXCEPT ![c] = Append(@, l)]
      BY <1>7, <2>2 DEF SendLine, Place
    <3> QED
      BY <1>2, <1>7, <2>1, <3>1 DEF SendLine
  <2>3. CASE end[c] # "up"
    BY <1>2, <1>7, <2>1, <2>3 DEF SendLine
  <2> QED
    BY <2>2, <2>3
<1>8. ASSUME NEW l \in Lines, SendMore(c, l)
      PROVE  /\ Place(c) = "in"
             /\ inbox' = [inbox EXCEPT ![c] = Append(@, l)]
             /\ UNCHANGED <<Places, outbox>>
  <2>1. Place(c) = "in" /\ \A d \in Clients : Place(d)' = Place(d)
    BY <1>8 DEF SendMore, Place
  <2> QED
    BY <1>2, <1>8, <2>1 DEF SendMore
<1>9. CASE WriteFails(c)
  <2>1. \A d \in Clients : Place(d)' = IF d = c THEN "left" ELSE Place(d)
    BY <1>9 DEF WriteFails, Place
  <2> QED
    BY <1>1, <1>9, <2>1 DEF WriteFails
<1>10. CASE TypeClose(c)
  <2>1. \A d \in Clients : Place(d)' = Place(d)
    BY <1>10 DEF TypeClose, Place
  <2> QED
    BY <1>2, <1>10, <2>1 DEF TypeClose
<1>11. CASE ReadReply(c)
  <2>1. Place(c) \in {"in", "cut"} /\ \A d \in Clients : Place(d)' = Place(d)
    BY <1>11 DEF ReadReply, Place
  <2> QED
    BY <1>2, <1>11, <2>1 DEF ReadReply
<1>12. CASE ReadReset(c)
  <2>1. \A d \in Clients : Place(d)' = IF d = c THEN "left" ELSE Place(d)
    BY <1>12 DEF ReadReset, Place
  <2> QED
    BY <1>1, <1>4, <1>12, <2>1 DEF ReadReset
<1>13. CASE Close(c) \/ Kill(c)
  <2>1. HangUp(c)
    BY <1>13 DEF Close, Kill
  <2>2. \A d \in Clients : Place(d)' = IF d = c THEN "left" ELSE Place(d)
    BY <2>1 DEF HangUp, Place
  <2> QED
    BY <1>1, <2>1, <2>2 DEF HangUp
<1>14. CASE ResetArrives(c)
  <2>1. \A d \in Clients : Place(d)' = Place(d)
    BY <1>14 DEF ResetArrives, Place
  <2> QED
    BY <1>2, <1>14, <2>1 DEF ResetArrives
<1> QED
  BY <1>5, <1>6, <1>7, <1>8, <1>9, <1>10, <1>11, <1>12, <1>13, <1>14 DEF ClientStep

\* Closing the ends of connections cuts off the clients that have not left.
Cut(cs) == [c \in Clients |-> IF c \in cs /\ Places[c] = "in" THEN "cut" ELSE Places[c]]

Cleared(lines, cs) == [c \in Clients |-> IF c \in cs THEN <<>> ELSE lines[c]]

Queued == {c \in Clients : InBacklog(c)}

\* What the calls of a server are to the echo service: an answer reaches a
\* client that is there, the end of a session whose client left is not seen.
LEMMA CallsServed ==
  ASSUME CliTypeOK, NEW S \in SUBSET Clients, Connected(S)
  PROVE  /\ \A c \in S : Places[c] = "in" <=> peer[c] = "up"
         /\ UNCHANGED <<cli, end>> => UNCHANGED Places
         /\ UNCHANGED cliVars \/ TakeConnection => UNCHANGED <<Places, inbox, outbox>>
         /\ \A c : TakeData(c) =>
              UNCHANGED <<Places, outbox>> /\ inbox' = [inbox EXCEPT ![c] = <<>>]
         /\ \A c \in S : \A ls : PutData(c, ls) =>
              /\ UNCHANGED <<Places, inbox>>
              /\ outbox' = IF Places[c] = "in" THEN [outbox EXCEPT ![c] = @ \o ls] ELSE outbox
         /\ \A c \in Clients : AtEof(c) /\ CloseEnds({c}) => UNCHANGED <<Places, inbox, outbox>>
         /\ \A cs \in SUBSET S : CloseEnds(cs) =>
              Places' = Cut(cs) /\ inbox' = Cleared(inbox, cs) /\ UNCHANGED outbox
         /\ \A cs \in SUBSET S : CloseAll(cs) =>
              /\ Places' = Cut(cs \cup Queued) /\ inbox' = Cleared(inbox, cs \cup Queued)
              /\ UNCHANGED outbox
<1> USE DEF CliTypeOK, CliState, PeerState, EndState
<1>1. (\A d \in Clients : Place(d)' = Place(d)) => Places' = Places
  BY DEF Places
<1>2. UNCHANGED <<cli, end>> => UNCHANGED Places
  BY <1>1 DEF Place
<1>3. \A d \in Clients : Connection(d, S)
  BY DEF Connected
<1>4. UNCHANGED cliVars \/ TakeConnection => UNCHANGED <<Places, inbox, outbox>>
  BY <1>2 DEF cliVars, TakeConnection
<1>5. ASSUME NEW c, TakeData(c)
      PROVE  UNCHANGED <<Places, outbox>> /\ inbox' = [inbox EXCEPT ![c] = <<>>]
  BY <1>2, <1>5 DEF TakeData
<1>11. ASSUME NEW c \in S PROVE Places[c] = "in" <=> peer[c] = "up"
  BY <1>3 DEF Places, Place, Connection, FreshConnection, OpenConnection, LeftConnection
<1>6. ASSUME NEW c \in S, NEW ls, PutData(c, ls)
      PROVE  /\ UNCHANGED <<Places, inbox>>
             /\ outbox' = IF Places[c] = "in" THEN [outbox EXCEPT ![c] = @ \o ls] ELSE outbox
  <2>1. UNCHANGED <<cli, end, inbox>>
    BY <1>6 DEF PutData
  <2> QED
    BY <1>2, <1>6, <1>11, <2>1 DEF PutData
<1>7. ASSUME NEW c \in Clients, AtEof(c), CloseEnds({c})
      PROVE  UNCHANGED <<Places, inbox, outbox>>
  <2>1. inbox' = inbox
    BY <1>7 DEF AtEof, CloseEnds
  <2>2. cli[c] = "done"
    BY <1>3, <1>7 DEF AtEof, Connection, LeftConnection
  <2>3. \A d \in Clients : Place(d)' = Place(d)
    BY <1>7, <2>2 DEF CloseEnds, Place
  <2> QED
    BY <1>1, <1>7, <2>1, <2>3 DEF CloseEnds
<1>8. ASSUME NEW cs \in SUBSET Clients, cli' = cli,
             \A d \in cs : end'[d] # "up" /\ cli[d] # "start",
             \A d \in Clients \ cs : end'[d] = end[d]
      PROVE  Places' = Cut(cs)
  <2>1. \A d \in Clients :
          Place(d)' = IF d \in cs /\ Place(d) = "in" THEN "cut" ELSE Place(d)
    BY <1>8 DEF Place
  <2> QED
    BY <2>1 DEF Places, Cut
<1>9. ASSUME NEW cs \in SUBSET S, CloseEnds(cs)
      PROVE  Places' = Cut(cs) /\ inbox' = Cleared(inbox, cs) /\ UNCHANGED outbox
  <2>1. Places' = Cut(cs)
    BY <1>3, <1>8, <1>9 DEF CloseEnds, Connection, FreshConnection
  <2> QED
    BY <1>9, <2>1 DEF CloseEnds, Cleared
<1>10. ASSUME NEW cs \in SUBSET S, CloseAll(cs)
       PROVE  /\ Places' = Cut(cs \cup Queued) /\ inbox' = Cleared(inbox, cs \cup Queued)
              /\ UNCHANGED outbox
  <2>1. \A d \in cs \cup Queued : cli[d] # "start"
    BY <1>3 DEF Connection, FreshConnection, Queued
  <2>2. \A d \in Clients : d \in cs \cup Queued <=> d \in cs \/ InBacklog(d)
    BY DEF Queued
  <2>3. Places' = Cut(cs \cup Queued)
    <3>1. \A d \in cs \cup Queued : end'[d] # "up"
      BY <1>10, <2>2 DEF CloseAll, Queued
    <3>2. \A d \in Clients \ (cs \cup Queued) : end'[d] = end[d]
      BY <1>10, <2>2 DEF CloseAll
    <3>3. cs \cup Queued \in SUBSET Clients /\ cli' = cli
      BY <1>10 DEF CloseAll, Queued
    <3> QED
      BY <1>8, <2>1, <3>1, <3>2, <3>3
  <2>4. inbox' = Cleared(inbox, cs \cup Queued)
    BY <1>10, <2>2 DEF CloseAll, Cleared
  <2> QED
    BY <1>10, <2>3, <2>4 DEF CloseAll
<1> QED
  BY <1>2, <1>4, <1>5, <1>6, <1>7, <1>9, <1>10, <1>11

\* The lines of each client the server has still to deal with: held are those
\* it has read and not written back, arrived those it has not read.
UnderWay(held, arrived) == [c \in Clients |-> held[c] \o arrived[c]]

Appends(q, r, c, l) == r = [q EXCEPT ![c] = Append(@, l)]

Empties(q, r, c) == r = [q EXCEPT ![c] = <<>>]

Takes(q, r, c, ls) == r = [q EXCEPT ![c] = ls]

\* q begins with ls for c, and r goes on from there.
Consumes(q, r, c, ls) ==
  /\ Len(ls) \in 1 .. Len(q[c]) /\ SubSeq(q[c], 1, Len(ls)) = ls
  /\ r = [q EXCEPT ![c] = SubSeq(@, Len(ls) + 1, Len(@))]

\* A line that arrives is the last under way.
LEMMA LineArrives ==
  ASSUME NEW held \in [Clients -> Seq(Lines)], NEW arrived \in [Clients -> Seq(Lines)],
         NEW next, NEW c \in Clients, NEW l \in Lines, Appends(arrived, next, c, l)
  PROVE  Appends(UnderWay(held, arrived), UnderWay(held, next), c, l)
<1>1. held[c] \o Append(arrived[c], l) = Append(held[c] \o arrived[c], l)
  BY UnderWayProperties
<1> QED
  BY <1>1 DEF UnderWay, Appends

\* What is read with nothing in hand is all that is under way.
LEMMA LinesLost ==
  ASSUME NEW held \in [Clients -> Seq(Lines)], NEW arrived \in [Clients -> Seq(Lines)],
         NEW next, NEW c \in Clients, held[c] = <<>>, Empties(arrived, next, c)
  PROVE  /\ UnderWay(held, arrived)[c] = arrived[c]
         /\ Empties(UnderWay(held, arrived), UnderWay(held, next), c)
<1>1. held[c] \o arrived[c] = arrived[c] /\ held[c] \o <<>> = <<>>
  BY ConcatEmptySeq, EmptySeq
<1> QED
  BY <1>1 DEF UnderWay, Empties

\* What is in hand is dealt with before what arrived later.
LEMMA LinesDone ==
  ASSUME NEW held \in [Clients -> Seq(Lines)], NEW arrived \in [Clients -> Seq(Lines)],
         NEW new, NEW c \in Clients, held[c] # <<>>, Empties(held, new, c)
  PROVE  Consumes(UnderWay(held, arrived), UnderWay(new, arrived), c, held[c])
<1>1. /\ SubSeq(held[c] \o arrived[c], 1, Len(held[c])) = held[c]
      /\ SubSeq(held[c] \o arrived[c], Len(held[c]) + 1, Len(held[c] \o arrived[c]))
           = arrived[c]
      /\ Len(held[c]) \in 1 .. Len(held[c] \o arrived[c])
  BY UnderWayProperties
<1>2. <<>> \o arrived[c] = arrived[c]
  BY ConcatEmptySeq
<1>3. UnderWay(held, arrived)[c] = held[c] \o arrived[c]
  BY DEF UnderWay
<1> QED
  BY <1>1, <1>2, <1>3 DEF UnderWay, Consumes, Empties

\* The end of a connection is the end of what was under way there.
LEMMA LinesDropped ==
  ASSUME NEW held \in [Clients -> Seq(Lines)], NEW arrived \in [Clients -> Seq(Lines)],
         NEW cs
  PROVE  UnderWay(Cleared(held, cs), Cleared(arrived, cs))
           = Cleared(UnderWay(held, arrived), cs)
<1>1. <<>> \o <<>> = <<>>
  BY ConcatEmptySeq, EmptySeq
<1> QED
  BY <1>1 DEF Cleared, UnderWay

-----------------------------------------------------------------------------
(***************************************************************************)
(* The steps of EchoService that steps of a client and of a server are.    *)
(* new is what the server has in hand after the step.                      *)
(***************************************************************************)

\* Join, Ask, Collect, Leave, or nothing.
ClientServed(held) ==
  LET asked == UnderWay(held, inbox)
      now == UnderWay(held, inbox')
  IN  \/ \E c \in Clients :
           \/ /\ Places[c] = "out"
              /\ Places' = [Places EXCEPT ![c] = "in"]
              /\ now = asked /\ UNCHANGED outbox
           \/ /\ Places[c] = "in"
              /\ \E l \in Lines : Appends(asked, now, c, l)
              /\ UNCHANGED Places /\ UNCHANGED outbox
           \/ /\ Places[c] \in {"in", "cut"}
              /\ Empties(outbox, outbox', c)
              /\ now = asked /\ UNCHANGED Places
           \/ /\ Places' = [Places EXCEPT ![c] = "left"]
              /\ Empties(outbox, outbox', c)
              /\ now = asked
      \/ now = asked /\ UNCHANGED <<Places, outbox>>

\* Answer, HearStop, or nothing.
ServerServed(stop, held, new) ==
  LET asked == UnderWay(held, inbox)
      now == UnderWay(new, inbox')
  IN  /\ UNCHANGED Places
      /\ \/ \E c \in Clients :
              /\ held[c] # <<stop>>
              /\ Consumes(asked, now, c, held[c])
              /\ outbox' = IF Places[c] = "in" THEN [outbox EXCEPT ![c] = @ \o held[c]]
                           ELSE outbox
         \/ \E c \in Clients :
              asked[c] = <<stop>> /\ Empties(asked, now, c) /\ UNCHANGED outbox
         \/ now = asked /\ UNCHANGED outbox

\* End(cs).
EndServed(cs, held, new) ==
  /\ cs \in SUBSET Clients
  /\ Places' = Cut(cs)
  /\ UnderWay(new, inbox') = Cleared(UnderWay(held, inbox), cs)
  /\ UNCHANGED outbox

LEMMA ClientServes ==
  ASSUME CliTypeOK, NEW S, Connected(S), NEW held \in [Clients -> Seq(Lines)],
         \/ UNCHANGED cliVars
         \/ \E c \in Clients : ClientStep(c)
  PROVE  ClientServed(held)
<1> DEFINE asked == UnderWay(held, inbox)
           now == UnderWay(held, inbox')
<1>1. CASE UNCHANGED cliVars
  BY <1>1 DEF ClientServed, cliVars, Places, Place
<1>2. ASSUME NEW c \in Clients, ClientStep(c)
      PROVE  ClientServed(held)
  <2>1. \/ /\ Place(c) = "out"
           /\ Places' = [Places EXCEPT ![c] = "in"]
           /\ UNCHANGED <<inbox, outbox>>
        \/ /\ Place(c) = "in"
           /\ \E l \in Lines : inbox' = [inbox EXCEPT ![c] = Append(@, l)]
           /\ UNCHANGED <<Places, outbox>>
        \/ /\ Place(c) \in {"in", "cut"}
           /\ outbox' = [outbox EXCEPT ![c] = <<>>]
           /\ UNCHANGED <<Places, inbox>>
        \/ /\ Places' = [Places EXCEPT ![c] = "left"]
           /\ outbox' = [outbox EXCEPT ![c] = <<>>]
           /\ UNCHANGED inbox
        \/ UNCHANGED <<Places, inbox, outbox>>
    BY <1>2, ClientStepServed DEF Connected
  <2>2. Places[c] = Place(c)
    BY DEF Places
  <2>3. ASSUME NEW l \in Lines, inbox' = [inbox EXCEPT ![c] = Append(@, l)]
        PROVE  Appends(asked, now, c, l)
    <3>1. Appends(inbox, inbox', c, l) /\ inbox \in [Clients -> Seq(Lines)]
      BY <2>3 DEF Appends, CliTypeOK
    <3> QED
      BY <3>1, LineArrives
  <2>4. outbox' = [outbox EXCEPT ![c] = <<>>] => Empties(outbox, outbox', c)
    BY DEF Empties
  <2>5. UNCHANGED inbox => now = asked
    OBVIOUS
  <2> HIDE DEF asked, now
  <2>6. CASE /\ Place(c) = "in"
             /\ \E l \in Lines : inbox' = [inbox EXCEPT ![c] = Append(@, l)]
             /\ UNCHANGED <<Places, outbox>>
    <3>1. \E l \in Lines : Appends(asked, now, c, l)
      BY <2>3, <2>6
    <3>2. Places[c] = "in" /\ Places' = Places /\ outbox' = outbox
          /\ \E l \in Lines : Appends(asked, now, c, l)
      BY <2>2, <2>6, <3>1
    <3> QED
      BY <3>2 DEF ClientServed, asked, now
  <2> QED
    BY <2>1, <2>2, <2>4, <2>5, <2>6 DEF ClientServed, asked, now
<1> QED
  BY <1>1, <1>2

LEMMA CallsServe ==
  ASSUME CliTypeOK, NEW S \in SUBSET Clients, Connected(S),
         NEW held \in [Clients -> Seq(Lines)], NEW new, NEW stop
  PROVE  /\ UNCHANGED cliVars \/ TakeConnection => ServerServed(stop, held, held)
         /\ UNCHANGED <<cli, end, inbox, outbox>> =>
              /\ ServerServed(stop, held, held)
              /\ \A c \in S : /\ peer[c] # "up" /\ held[c] # <<stop>>
                              /\ Empties(held, new, c)
                   => ServerServed(stop, held, new)
         /\ \A c \in Clients : TakeData(c) /\ held[c] = <<>> =>
              /\ Takes(held, new, c, inbox[c]) => ServerServed(stop, held, new)
              /\ inbox[c] = <<stop>> => ServerServed(stop, held, held)
         /\ \A c \in S : /\ PutData(c, held[c]) /\ held[c] # <<stop>>
                         /\ Empties(held, new, c)
              => ServerServed(stop, held, new)
         /\ \A c \in Clients : AtEof(c) /\ CloseEnds({c}) => ServerServed(stop, held, held)
         /\ \A cs \in SUBSET S :
              CloseEnds(cs) /\ new = Cleared(held, cs) => EndServed(cs, held, new)
         /\ \A cs \in SUBSET S :
              CloseAll(cs) /\ new = Cleared(held, cs \cup Queued) =>
                EndServed(cs \cup Queued, held, new)
<1>1. inbox \in [Clients -> Seq(Lines)]
  BY DEF CliTypeOK
<1>2. ASSUME UNCHANGED <<Places, inbox, outbox>> PROVE ServerServed(stop, held, held)
  BY <1>2 DEF ServerServed
<1>3. ASSUME NEW c \in Clients, TakeData(c), held[c] = <<>>
      PROVE  /\ Takes(held, new, c, inbox[c]) => ServerServed(stop, held, new)
             /\ inbox[c] = <<stop>> => ServerServed(stop, held, held)
  <2>1. UNCHANGED <<Places, outbox>> /\ Empties(inbox, inbox', c)
    BY <1>3, CallsServed DEF Empties
  <2>2. ASSUME Takes(held, new, c, inbox[c])
        PROVE  UnderWay(new, inbox') = UnderWay(held, inbox)
    <3>1. /\ held[c] \o inbox[c] = inbox[c] /\ inbox[c] \o <<>> = inbox[c]
          /\ held[c] \o <<>> = <<>>
      BY <1>1, <1>3, ConcatEmptySeq, EmptySeq
    <3> QED
      BY <1>1, <1>3, <2>1, <2>2, <3>1 DEF UnderWay, Takes, Empties
  <2>3. /\ UnderWay(held, inbox)[c] = inbox[c]
        /\ Empties(UnderWay(held, inbox), UnderWay(held, inbox'), c)
    BY <1>1, <1>3, <2>1, LinesLost
  <2> QED
    BY <2>1, <2>2, <2>3 DEF ServerServed
<1>4. ASSUME NEW c \in S, held[c] # <<stop>>, Empties(held, new, c),
             UNCHANGED <<Places, inbox>>,
             outbox' = IF Places[c] = "in" THEN [outbox EXCEPT ![c] = @ \o held[c]]
                       ELSE outbox
      PROVE  ServerServed(stop, held, new)
  <2>2. CASE held[c] = <<>>
    <3>1. new = held
      BY <1>4, <2>2 DEF Empties
    <3>2. outbox[c] \o <<>> = outbox[c]
      BY ConcatEmptySeq DEF CliTypeOK
    <3>3. outbox' = outbox
      BY <1>4, <2>2, <3>2 DEF CliTypeOK
    <3> QED
      BY <1>2, <1>4, <3>1, <3>3
  <2>3. CASE held[c] # <<>>
    <3>1. Consumes(UnderWay(held, inbox), UnderWay(new, inbox'), c, held[c])
      BY <1>1, <1>4, <2>3, LinesDone
    <3> QED
      BY <1>4, <3>1 DEF ServerServed
  <2> QED
    BY <2>2, <2>3
<1>10. ASSUME NEW c \in S, PutData(c, held[c]), held[c] # <<stop>>, Empties(held, new, c)
       PROVE  ServerServed(stop, held, new)
  <2>1. /\ UNCHANGED <<Places, inbox>>
        /\ outbox' = IF Places[c] = "in" THEN [outbox EXCEPT ![c] = @ \o held[c]] ELSE outbox
    BY <1>10, CallsServed
  <2> QED
    BY <1>4, <1>10, <2>1
<1>11. ASSUME UNCHANGED <<cli, end, inbox, outbox>>
       PROVE  /\ ServerServed(stop, held, held)
              /\ \A c \in S : /\ peer[c] # "up" /\ held[c] # <<stop>>
                              /\ Empties(held, new, c)
                   => ServerServed(stop, held, new)
  <2>1. UNCHANGED Places /\ \A c \in S : peer[c] # "up" => Places[c] # "in"
    BY <1>11, CallsServed
  <2> QED
    BY <1>2, <1>4, <1>11, <2>1
<1>5. ASSUME NEW cs, new = Cleared(held, cs), inbox' = Cleared(inbox, cs)
      PROVE  UnderWay(new, inbox') = Cleared(UnderWay(held, inbox), cs)
  BY <1>1, <1>5, LinesDropped
<1>6. ASSUME NEW cs \in SUBSET S, CloseEnds(cs), new = Cleared(held, cs)
      PROVE  EndServed(cs, held, new)
  BY <1>5, <1>6, CallsServed DEF EndServed
<1>7. ASSUME NEW cs \in SUBSET S, CloseAll(cs), new = Cleared(held, cs \cup Queued)
      PROVE  EndServed(cs \cup Queued, held, new)
  <2>1. cs \cup Queued \in SUBSET Clients
    BY DEF Queued
  <2> QED
    BY <1>5, <1>7, <2>1, CallsServed DEF EndServed
<1>8. UNCHANGED cliVars \/ TakeConnection => ServerServed(stop, held, held)
  BY <1>2, CallsServed
<1>9. \A c \in Clients : AtEof(c) /\ CloseEnds({c}) => ServerServed(stop, held, held)
  BY <1>2, CallsServed
<1> QED
  BY <1>3, <1>6, <1>7, <1>8, <1>9, <1>10, <1>11
=============================================================================
