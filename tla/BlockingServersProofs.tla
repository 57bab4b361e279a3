------------------------ MODULE BlockingServersProofs ------------------------
(***************************************************************************)
(* Proofs about BlockingServers, for every number of clients, sessions and *)
(* lines, eager peers included, and for both programs.                     *)
(***************************************************************************)
EXTENDS BlockingServers, TcpClientsProofs, FiniteSetTheorems

(***************************************************************************)
(* The inductive invariant.                                                *)
(***************************************************************************)

\* The simple server has a session in handleConnect() only, and one at most.
\* The threads never leave pollingLoop().
SessionsWhileServing ==
  /\ \A c, d \in Sessions : Simple => c = d
  /\ Sessions # {} => pc = IF Simple THEN "serve" ELSE "accept"
  /\ Threads => pc \in {"accept", "dead"}

\* A buffer is left empty by the end of a stream or by an error only, and
\* nothing arrives after that.
NothingRead ==
  \A c \in Clients :
    at[c] = "write" /\ buff[c] = <<>> => inbox[c] = <<>> /\ peer[c] # "up"

\* A client that waits for each answer has one line under way at most.
OneAtATime == \A c \in Clients \ Eager : Waiting(c, InService(c))

HasLeftTrace(c) ==
  inbox[c] # <<>> \/ outbox[c] # <<>> \/ InService(c) # <<>> \/ peer[c] = "rst"

\* Whoever has a line under way, and whoever left an answer unread, has
\* written.  A session the simple server answers is one of these.
HasWritten ==
  \A c \in Clients :
    /\ cli[c] = "start" => line[c] = NoLine
    /\ HasLeftTrace(c) \/ (Simple /\ at[c] = "write") => line[c] # NoLine

\* The simple server does not answer StopLine, and unless it was told to stop
\* it closes a session at the end of the stream only.
SimpleAnswers ==
  Simple => \A c \in Clients :
    /\ at[c] = "write" => buff[c] # <<StopLine>>
    /\ at[c] = "over" /\ isRunServer => AtEof(c)

\* The thread of a client whose last line was StopLine has that line before
\* it, or is done.
StopEndsThread ==
  Threads => \A c \in Clients \ Eager :
    (c \in Sessions \/ InBacklog(c)) /\ line[c] = StopLine =>
      \/ inbox[c] = <<StopLine>>
      \/ InService(c) = <<StopLine>>
      \/ at[c] = "over"

IInv ==
  /\ TypeOK
  /\ SessionsWhileServing
  /\ Connected(Sessions)
  /\ NothingRead
  /\ OneAtATime
  /\ HasWritten
  /\ SimpleAnswers
  /\ StopEndsThread

-----------------------------------------------------------------------------
(***************************************************************************)
(* What the steps do to the sessions.                                      *)
(***************************************************************************)

\* A step of a session that goes on, or that is done and not closed yet.
Work(c) == ReadEof(c) \/ ReadStop(c) \/ ReadLine(c) \/ Answer(c) \/ ThreadRead(c) \/ ThreadWrite(c)

\* A read() or write() concerns one session, which it leaves open.
LEMMA WorkEffect ==
  ASSUME TypeOK, NEW c \in Clients, Work(c)
  PROVE  /\ c \in Sessions /\ Sessions' = Sessions
         /\ at[c] \in {"read", "write"} /\ at'[c] \in {"read", "write", "over"}
         /\ \A d \in Clients \ {c} : at'[d] = at[d] /\ buff'[d] = buff[d]
         /\ UNCHANGED <<program, pc>>
         /\ \/ TakeData(c) \/ PutData(c, buff[c]) \/ Reported(c)
            \/ AtEof(c) /\ UNCHANGED cliVars
<1> USE DEF Work, ReadEof, ReadStop, ReadLine, Answer, ThreadRead, ThreadWrite
<1>1. at[c] \in {"read", "write"} /\ UNCHANGED <<program, pc>>
  OBVIOUS
<1>2. \E w \in {"read", "write", "over"} : at' = [at EXCEPT ![c] = w]
  BY DEF Goto
<1>3. at'[c] \in {"read", "write", "over"} /\ \A d \in Clients \ {c} : at'[d] = at[d]
  BY <1>2 DEF TypeOK
<1>4. c \in Sessions /\ Sessions' = Sessions
  BY <1>1, <1>3 DEF Sessions
<1>5. \A d \in Clients \ {c} : buff'[d] = buff[d]
  BY DEF ReadFrom, WriteTo, TypeOK
<1>6. \/ TakeData(c) \/ PutData(c, buff[c]) \/ Reported(c)
      \/ AtEof(c) /\ UNCHANGED cliVars
  BY DEF ReadFrom, WriteTo
<1> QED
  BY <1>1, <1>3, <1>4, <1>5, <1>6

LEMMA AcceptEffect ==
  ASSUME TypeOK, Accept \/ AcceptThread
  PROVE  /\ TakeConnection /\ Head(backlog) \in Clients
         /\ Sessions' = Sessions \cup {Head(backlog)}
         /\ at'[Head(backlog)] = "read"
         /\ \A d \in Clients \ {Head(backlog)} : at'[d] = at[d]
         /\ UNCHANGED <<program, buff, isRunServer>>
<1>1. TakeConnection /\ NewSession /\ UNCHANGED <<program, buff, isRunServer>>
  BY DEF Accept, AcceptThread
<1>2. Head(backlog) \in Clients
  BY <1>1, HeadTailProperties DEF TakeConnection, TypeOK, CliTypeOK
<1>3. /\ at'[Head(backlog)] = "read"
      /\ \A d \in Clients \ {Head(backlog)} : at'[d] = at[d]
  BY <1>1, <1>2 DEF NewSession, TypeOK
<1>4. Sessions' = Sessions \cup {Head(backlog)}
  BY <1>2, <1>3 DEF Sessions
<1> QED
  BY <1>1, <1>2, <1>3, <1>4

LEMMA CloseConnectionEffect ==
  ASSUME TypeOK, NEW c \in Clients, CloseConnection(c)
  PROVE  /\ CloseEnds({c}) /\ c \in Sessions /\ Sessions' = Sessions \ {c}
         /\ at'[c] = "none"
         /\ \A d \in Clients \ {c} : at'[d] = at[d]
         /\ UNCHANGED <<program, buff, isRunServer>>
<1>1. at[c] = "over" /\ Goto(c, "none")
  BY DEF CloseConnection
<1>2. at'[c] = "none" /\ \A d \in Clients \ {c} : at'[d] = at[d]
  BY <1>1 DEF Goto, TypeOK
<1> QED
  BY <1>1, <1>2 DEF CloseConnection, Sessions

\* The process ends, with all of its sessions.
LEMMA DieEffect ==
  ASSUME Die
  PROVE  /\ CloseAll(Sessions) /\ Sessions' = {} /\ pc' = "dead"
         /\ \A c \in Clients : at'[c] = "none" /\ buff'[c] = <<>>
         /\ UNCHANGED <<program, isRunServer>>
BY DEF Die, Sessions

LEMMA NextServing ==
  ASSUME TypeOK, SessionsWhileServing, [Next]_vars
  PROVE  SessionsWhileServing'
<1> USE DEF SessionsWhileServing, Simple, Threads
<1>1. CASE UNCHANGED vars \/ EnvStep
  BY <1>1 DEF EnvStep, vars, srvVars, Sessions
<1>2. CASE Accept
  <2>1. Sessions = {} /\ Simple /\ pc' = "serve"
    BY <1>2 DEF Accept
  <2>2. Sessions' = Sessions \cup {Head(backlog)} /\ UNCHANGED program
    BY <1>2, AcceptEffect
  <2> QED
    BY <2>1, <2>2
<1>3. CASE AcceptThread
  <2>1. Threads /\ ~Simple /\ pc = "accept" /\ UNCHANGED <<program, pc>>
    BY <1>3 DEF AcceptThread
  <2> QED
    BY <2>1
<1>4. ASSUME NEW c \in Clients, Work(c) PROVE SessionsWhileServing'
  BY <1>4, WorkEffect
<1>5. ASSUME NEW c \in Clients, CloseConnection(c) PROVE SessionsWhileServing'
  <2>1. /\ c \in Sessions /\ Sessions' = Sessions \ {c}
        /\ UNCHANGED program /\ Simple /\ ~Threads
    BY <1>5, CloseConnectionEffect DEF CloseConnection
  <2>2. Sessions' = {}
    BY <2>1
  <2> QED
    BY <2>1, <2>2
<1>6. CASE CloseListener
  <2>1. /\ pc = "close" /\ pc' = "stopped" /\ UNCHANGED <<program, at>>
    BY <1>6 DEF CloseListener
  <2> QED
    BY <2>1 DEF Sessions
<1>7. CASE Die
  BY <1>7, DieEffect
<1> QED
  BY <1>1, <1>2, <1>3, <1>4, <1>5, <1>6, <1>7
     DEF Next, MainStep, SessionStep, AcceptFails, WriteKills, Work

LEMMA NextTyped ==
  ASSUME TypeOK, SessionsWhileServing', [Next]_vars
  PROVE  TypeOK'
<1>1. CliTypeOK
  BY DEF TypeOK
<1>2. (Simple => Cardinality({c \in Clients : at[c] # "none"}) <= 1)'
  <2> SUFFICES ASSUME Simple' PROVE Cardinality(Sessions') <= 1
    BY DEF Sessions
  <2>1. CASE Sessions' = {}
    BY <2>1, FS_EmptySet
  <2>2. CASE Sessions' # {}
    <3>1. PICK c : Sessions' = {c}
      BY <2>2 DEF SessionsWhileServing
    <3> QED
      BY <3>1, FS_Singleton
  <2> QED
    BY <2>1, <2>2
<1>3. CASE UNCHANGED vars
  BY <1>2, <1>3 DEF vars, cliVars, srvVars, TypeOK, CliTypeOK
<1>4. CASE EnvStep
  <2>1. CliTypeOK'
    BY <1>1, <1>4, ClientStepTyped DEF EnvStep
  <2> QED
    BY <1>2, <1>4, <2>1 DEF EnvStep, srvVars, TypeOK
<1>5. CASE Accept \/ AcceptThread
  <2>1. CliTypeOK' /\ Head(backlog) \in Clients /\ UNCHANGED <<program, buff, isRunServer>>
    BY <1>1, <1>5, CallsTyped, AcceptEffect
  <2>2. /\ pc' \in {"accept", "serve"}
        /\ at' \in [Clients -> {"none", "read", "write", "over"}]
    BY <1>5, <2>1 DEF Accept, AcceptThread, NewSession, TypeOK
  <2> QED
    BY <1>2, <2>1, <2>2 DEF TypeOK
<1>6. ASSUME NEW c \in Clients, Work(c) PROVE TypeOK'
  <2>1. CliTypeOK'
    <3>1. buff[c] \in Seq(Lines)
      BY DEF TypeOK
    <3>2. Reported(c) => CliTypeOK'
      BY <1>1 DEF Reported, CliTypeOK, PeerState
    <3>3. UNCHANGED cliVars => CliTypeOK'
      BY <1>1 DEF cliVars, CliTypeOK
    <3> QED
      BY <1>1, <1>6, <3>1, <3>2, <3>3, WorkEffect, CallsTyped
  <2>2. at' \in [Clients -> {"none", "read", "write", "over"}]
    BY <1>6 DEF Work, ReadEof, ReadStop, ReadLine, Answer, ThreadRead, ThreadWrite, Goto,
                TypeOK
  <2>3. buff' \in [Clients -> Seq(Lines)]
    <3>1. inbox[c] \in Seq(Lines) /\ <<>> \in Seq(Lines)
      BY <1>1, EmptySeq DEF CliTypeOK
    <3>2. \/ buff' = buff \/ buff' = [buff EXCEPT ![c] = inbox[c]]
          \/ buff' = [buff EXCEPT ![c] = <<>>]
      BY <1>6 DEF Work, ReadEof, ReadStop, ReadLine, Answer, ThreadRead, ThreadWrite,
                  ReadFrom, WriteTo
    <3> QED
      BY <3>1, <3>2 DEF TypeOK
  <2>4. isRunServer' \in BOOLEAN
    BY <1>6 DEF Work, ReadEof, ReadStop, ReadLine, Answer, ThreadRead, ThreadWrite, TypeOK
  <2>5. UNCHANGED <<program, pc>>
    BY <1>6, WorkEffect
  <2> QED
    BY <1>2, <2>1, <2>2, <2>3, <2>4, <2>5 DEF TypeOK
<1>7. ASSUME NEW c \in Clients, CloseConnection(c) PROVE TypeOK'
  <2>1. CliTypeOK'
    BY <1>1, <1>7, CallsTyped DEF CloseConnection
  <2> QED
    BY <1>2, <1>7, <2>1 DEF CloseConnection, Goto, TypeOK
<1>8. CASE CloseListener
  <2>1. CliTypeOK'
    BY <1>1, <1>8, CallsTyped DEF CloseListener
  <2> QED
    BY <1>2, <1>8, <2>1 DEF CloseListener, TypeOK
<1>9. CASE Die
  <2>1. CliTypeOK'
    BY <1>1, <1>9, CallsTyped DEF Die
  <2>2. buff' \in [Clients -> Seq(Lines)]
    BY <1>9, EmptySeq DEF Die
  <2> QED
    BY <1>2, <1>9, <2>1, <2>2 DEF Die, TypeOK
<1> QED
  BY <1>3, <1>4, <1>5, <1>6, <1>7, <1>8, <1>9
     DEF Next, MainStep, SessionStep, AcceptFails, WriteKills, Work

-----------------------------------------------------------------------------
(***************************************************************************)
(* The connections.                                                        *)
(***************************************************************************)

\* An error that is returned once changes nothing else about a session.
LEMMA ConnectedReported ==
  ASSUME CliTypeOK, NEW S, Connected(S), NEW c \in S \cap Clients, Reported(c)
  PROVE  Connected(S)'
<1> USE DEF CliTypeOK, PeerState
<1>1. QueuedOnce /\ \A d \in Clients : Connection(d, S)
  BY DEF Connected
<1>2. /\ UNCHANGED <<cli, line, inbox, outbox, end, backlog>>
      /\ peer[c] = "rst" /\ peer'[c] = "finrst"
      /\ \A d \in Clients \ {c} : peer'[d] = peer[d]
  BY DEF Reported
<1>3. QueuedOnce' /\ \A d : InBacklog(d)' <=> InBacklog(d)
  BY <1>1, <1>2 DEF QueuedOnce, InBacklog
<1>4. \A d \in Clients : Connection(d, S)'
  BY <1>1, <1>2, <1>3 DEF Connection, FreshConnection, QueuedConnection,
                          OpenConnection, LeftConnection, ClosedConnection
<1> QED
  BY <1>3, <1>4 DEF Connected

LEMMA NextConnected ==
  ASSUME TypeOK, SessionsWhileServing, Connected(Sessions), [Next]_vars
  PROVE  Connected(Sessions)'
<1>1. PICK S : S = Sessions
  OBVIOUS
<1>2. PICK T : T = Sessions'
  OBVIOUS
<1>3. CliTypeOK /\ Connected(S)
  BY <1>1 DEF TypeOK
<1> SUFFICES Connected(T)'
  BY <1>2 DEF Connected, Connection, FreshConnection, QueuedConnection, OpenConnection,
              QueuedOnce
<1>4. T \subseteq S /\ UNCHANGED cliVars => Connected(T)'
  BY <1>3, ConnectedCalls
<1>5. CASE UNCHANGED vars
  <2>1. UNCHANGED cliVars /\ T = S
    BY <1>1, <1>2, <1>5 DEF vars, srvVars, Sessions
  <2> QED
    BY <1>4, <2>1
<1>6. CASE EnvStep
  <2>1. T = S
    BY <1>1, <1>2, <1>6 DEF EnvStep, srvVars, Sessions
  <2> QED
    BY <1>3, <1>6, <2>1, ConnectedClientStep DEF EnvStep
<1>7. CASE Accept \/ AcceptThread
  <2>1. TakeConnection /\ T = S \cup {Head(backlog)}
    BY <1>1, <1>2, <1>7, AcceptEffect
  <2> QED
    BY <1>3, <2>1, ConnectedCalls
<1>8. ASSUME NEW c \in Clients, Work(c) PROVE Connected(T)'
  <2>1. /\ c \in S \cap Clients /\ T = S
        /\ \/ TakeData(c) \/ PutData(c, buff[c]) \/ Reported(c) \/ UNCHANGED cliVars
    BY <1>1, <1>2, <1>8, WorkEffect
  <2>2. Reported(c) => Connected(T)'
    BY <1>3, <2>1, ConnectedReported
  <2> QED
    BY <1>3, <1>4, <2>1, <2>2, ConnectedCalls
<1>9. ASSUME NEW c \in Clients, CloseConnection(c) PROVE Connected(T)'
  <2>1. CloseEnds({c}) /\ {c} \subseteq S /\ T = S \ {c}
    BY <1>1, <1>2, <1>9, CloseConnectionEffect
  <2> QED
    BY <1>3, <2>1, ConnectedCalls
<1>10. CASE CloseListener
  <2>1. CloseAll({}) /\ T = S \ {} /\ {} \subseteq S
    BY <1>1, <1>2, <1>10 DEF CloseListener, Sessions
  <2> QED
    BY <1>3, <2>1, ConnectedCalls
<1>11. CASE Die
  <2>1. CloseAll(S) /\ T = S \ S
    BY <1>1, <1>2, <1>11, DieEffect
  <2> QED
    BY <1>3, <2>1, ConnectedCalls
<1> QED
  BY <1>5, <1>6, <1>7, <1>8, <1>9, <1>10, <1>11
     DEF Next, MainStep, SessionStep, AcceptFails, WriteKills, Work

-----------------------------------------------------------------------------
(***************************************************************************)
(* What was read and not written back.                                     *)
(***************************************************************************)

LEMMA NextNothingRead ==
  ASSUME TypeOK, SessionsWhileServing, Connected(Sessions), NothingRead, [Next]_vars
  PROVE  NothingRead'
<1> SUFFICES ASSUME NEW c \in Clients, at'[c] = "write", buff'[c] = <<>>
             PROVE  inbox'[c] = <<>> /\ peer'[c] # "up"
  BY DEF NothingRead
<1>1. ASSUME at[c] = "write", buff[c] = <<>>
      PROVE  inbox[c] = <<>> /\ peer[c] # "up"
  BY <1>1 DEF NothingRead
<1>2. LeftConnection(c)
  BY DEF Connected, Connection
<1>3. CASE UNCHANGED vars
  BY <1>1, <1>3 DEF vars, cliVars, srvVars
<1>4. CASE EnvStep
  <2>1. inbox[c] = <<>> /\ peer[c] # "up" /\ cli[c] = "done"
    BY <1>1, <1>2, <1>4 DEF EnvStep, srvVars, LeftConnection
  <2>2. PICK d \in Clients : ClientStep(d)
    BY <1>4 DEF EnvStep
  <2>3. CASE d # c
    BY <2>1, <2>2, <2>3, ClientStepOwn DEF TypeOK
  <2>4. CASE d = c
    BY <2>1, <2>2, <2>4, ClientStepOwn DEF TypeOK
  <2> QED
    BY <2>3, <2>4
<1>5. CASE Accept \/ AcceptThread
  <2>1. c # Head(backlog) /\ at[c] = "write" /\ buff[c] = <<>> /\ TakeConnection
    BY <1>5, AcceptEffect
  <2> QED
    BY <1>1, <2>1 DEF TakeConnection
<1>6. ASSUME NEW d \in Clients, d # c, Work(d)
      PROVE  inbox'[c] = <<>> /\ peer'[c] # "up"
  <2>1. /\ at[c] = "write" /\ buff[c] = <<>>
        /\ TakeData(d) \/ PutData(d, buff[d]) \/ Reported(d) \/ UNCHANGED cliVars
    BY <1>6, WorkEffect
  <2>2. inbox'[c] = inbox[c] /\ peer'[c] = peer[c]
    BY <1>6, <2>1 DEF TakeData, PutData, Reported, cliVars, TypeOK, CliTypeOK
  <2> QED
    BY <1>1, <2>1, <2>2
<1>7. CASE Work(c)
  <2>1. ReadLine(c) \/ ThreadRead(c)
    BY <1>7 DEF Work, ReadEof, ReadStop, Answer, ThreadWrite, Goto, TypeOK
  <2>2. /\ buff'[c] = inbox[c]
        /\ TakeData(c) \/ (AtEof(c) /\ UNCHANGED cliVars) \/ (AtReset(c) /\ Reported(c))
    BY <2>1 DEF ReadLine, ThreadRead, ReadFrom, TypeOK
  <2> QED
    BY <2>2 DEF TakeData, AtEof, cliVars, AtReset, Reported, TypeOK, CliTypeOK
<1>8. ASSUME NEW d \in Clients, CloseConnection(d)
      PROVE  inbox'[c] = <<>> /\ peer'[c] # "up"
  <2>1. d # c /\ at[c] = "write" /\ buff[c] = <<>> /\ CloseEnds({d})
    BY <1>8, CloseConnectionEffect
  <2> QED
    BY <1>1, <2>1 DEF CloseEnds
<1>9. CASE CloseListener
  <2>1. at[c] = "write" /\ c \in Sessions /\ pc = "close"
    BY <1>9 DEF CloseListener, Sessions
  <2> QED
    BY <2>1 DEF SessionsWhileServing
<1>10. CASE Die
  BY <1>10, DieEffect
<1> QED
  BY <1>3, <1>4, <1>5, <1>6, <1>7, <1>8, <1>9, <1>10
     DEF Next, MainStep, SessionStep, AcceptFails, WriteKills, Work

LEMMA NextOneAtATime ==
  ASSUME TypeOK, SessionsWhileServing, Connected(Sessions), NothingRead, OneAtATime,
         [Next]_vars
  PROVE  OneAtATime'
<1> SUFFICES ASSUME NEW c \in Clients \ Eager
             PROVE  Waiting(c, InService(c))'
  BY DEF OneAtATime
<1>1. PICK held : held = InService(c)
  OBVIOUS
<1>2. PICK new : new = InService(c)'
  OBVIOUS
<1> SUFFICES Waiting(c, new)'
  BY <1>2 DEF Waiting, OneLineUnderWay
<1>3. CliTypeOK /\ Waiting(c, held)
  BY <1>1 DEF TypeOK, OneAtATime
<1>4. TakeConnection \/ UNCHANGED cliVars => Waiting(c, held)'
  BY <1>3, WaitingCalls
<1>5. Reported(c) /\ held = <<>> => Waiting(c, <<>>)'
  BY <1>3 DEF Reported, Waiting, OneLineUnderWay, TypeOK, CliTypeOK, PeerState
<1>6. \A d \in Clients \ {c} : Reported(d) => Waiting(c, held)'
  BY <1>3 DEF Reported, Waiting, OneLineUnderWay, TypeOK, CliTypeOK
<1>7. CASE UNCHANGED vars
  <2>1. new = held
    BY <1>1, <1>2, <1>7 DEF vars, srvVars, InService
  <2> QED
    BY <1>4, <1>7, <2>1 DEF vars
<1>8. CASE EnvStep
  <2>1. new = held
    BY <1>1, <1>2, <1>8 DEF EnvStep, srvVars, InService
  <2>2. LeftConnection(c)
    BY DEF Connected, Connection
  <2> QED
    BY <1>3, <1>8, <2>1, <2>2, WaitingClientStep DEF EnvStep
<1>9. CASE Accept \/ AcceptThread
  <2>1. TakeConnection /\ UNCHANGED buff
        /\ IF c = Head(backlog) THEN at'[c] = "read" ELSE at'[c] = at[c]
    BY <1>9, AcceptEffect
  <2>2. c = Head(backlog) => at[c] = "none"
    <3>1. CliTypeOK /\ QueuedOnce /\ QueuedConnection(c, Sessions)
      BY DEF TypeOK, Connected, Connection
    <3>2. InBacklog(Head(backlog))
      BY <2>1, <3>1, QueueShrinks DEF TakeConnection
    <3> QED
      BY <3>1, <3>2 DEF QueuedConnection, Sessions
  <2>3. new = held
    BY <1>1, <1>2, <2>1, <2>2 DEF InService
  <2> QED
    BY <1>4, <2>1, <2>3
<1>10. ASSUME NEW d \in Clients, d # c, Work(d) PROVE Waiting(c, new)'
  <2>1. new = held
    BY <1>1, <1>2, <1>10, WorkEffect DEF InService
  <2>2. TakeData(d) \/ PutData(d, buff[d]) \/ Reported(d) \/ UNCHANGED cliVars
    BY <1>10, WorkEffect
  <2> QED
    BY <1>3, <1>4, <1>6, <1>10, <2>1, <2>2, WaitingCalls
<1>11. CASE ReadEof(c)
  <2>1. held = <<>> /\ new = <<>> /\ UNCHANGED cliVars
    BY <1>1, <1>2, <1>11
       DEF ReadEof, ReadFrom, AtEof, AtReset, TakeData, InService, Goto, TypeOK
  <2> QED
    BY <1>4, <2>1
<1>12. CASE ReadStop(c)
  <2>1. held = <<>> /\ new = <<>> /\ TakeData(c)
    BY <1>1, <1>2, <1>12 DEF ReadStop, InService, Goto, TypeOK
  <2> QED
    BY <1>3, <2>1, WaitingCalls
<1>13. CASE ReadLine(c) \/ ThreadRead(c)
  <2>1. held = <<>> /\ new = inbox[c]
    BY <1>1, <1>2, <1>13 DEF ReadLine, ThreadRead, ReadFrom, InService, Goto, TypeOK
  <2>2. \/ TakeData(c)
        \/ inbox[c] = <<>> /\ (UNCHANGED cliVars \/ Reported(c))
    BY <1>13 DEF ReadLine, ThreadRead, ReadFrom, AtEof, AtReset
  <2> QED
    BY <1>3, <1>4, <1>5, <2>1, <2>2, WaitingCalls
<1>14. CASE Answer(c) \/ ThreadWrite(c)
  <2>1. /\ held = buff[c] /\ new = <<>> /\ (PutData(c, held) \/ Reported(c))
        /\ held = <<>> => inbox[c] = <<>>
    BY <1>1, <1>2, <1>14
       DEF Answer, ThreadWrite, WriteTo, InService, Goto, TypeOK, NothingRead
  <2>2. Reported(c) => held = <<>>
    BY <1>3 DEF Reported, Waiting
  <2> QED
    BY <1>3, <1>5, <2>1, <2>2, WaitingCalls
<1>15. ASSUME NEW d \in Clients, CloseConnection(d) PROVE Waiting(c, new)'
  <2>1. /\ CloseEnds({d})
        /\ IF c = d THEN new = <<>> ELSE new = held
    BY <1>1, <1>2, <1>15, CloseConnectionEffect DEF InService
  <2> QED
    BY <1>3, <2>1, WaitingCalls
<1>16. CASE CloseListener
  <2>1. CloseAll({}) /\ pc = "close" /\ UNCHANGED at
    BY <1>16 DEF CloseListener
  <2>2. new = <<>>
    BY <1>2, <2>1 DEF InService, SessionsWhileServing, Sessions
  <2> QED
    BY <1>3, <2>1, <2>2, WaitingCalls
<1>17. CASE Die
  <2>1. CloseAll(Sessions) /\ new = <<>>
    BY <1>2, <1>17, DieEffect DEF InService
  <2> QED
    BY <1>3, <2>1, WaitingCalls
<1> QED
  BY <1>7, <1>8, <1>9, <1>10, <1>11, <1>12, <1>13, <1>14, <1>15, <1>16, <1>17
     DEF Next, MainStep, SessionStep, AcceptFails, WriteKills, Work

-----------------------------------------------------------------------------
(***************************************************************************)
(* What the clients have written.                                          *)
(***************************************************************************)

LEMMA NextHasWritten ==
  ASSUME TypeOK, SessionsWhileServing, Connected(Sessions), HasWritten, [Next]_vars
  PROVE  HasWritten'
<1> DEFINE Trace(c) == HasLeftTrace(c) \/ (Simple /\ at[c] = "write")
<1>1. SUFFICES ASSUME NEW c \in Clients
               PROVE  (cli[c] = "start" => line[c] = NoLine)' /\ (Trace(c) => line[c] # NoLine)'
  BY DEF HasWritten
<1>2. cli[c] = "start" => line[c] = NoLine
  BY DEF HasWritten
<1>3. Trace(c) => line[c] # NoLine
  BY DEF HasWritten
<1> DEFINE Goal == (cli[c] = "start" => line[c] = NoLine)' /\ (Trace(c) => line[c] # NoLine)'
<1>4. ASSUME cli'[c] = cli[c], line'[c] = line[c], Trace(c)' => Trace(c)
      PROVE  Goal
  BY <1>2, <1>3, <1>4
<1> USE DEF HasLeftTrace, InService, Simple
<1>5. CASE UNCHANGED vars
  BY <1>4, <1>5 DEF vars, cliVars, srvVars
<1>6. CASE EnvStep
  <2>1. PICK d \in Clients : ClientStep(d)
    BY <1>6 DEF EnvStep
  <2>2. UNCHANGED <<program, at, buff>>
    BY <1>6 DEF EnvStep, srvVars
  <2>3. CASE d # c
    <3>1. /\ cli'[c] = cli[c] /\ line'[c] = line[c] /\ inbox'[c] = inbox[c]
          /\ outbox'[c] = outbox[c] /\ peer'[c] = peer[c]
      BY <2>1, <2>3, ClientStepOwn DEF TypeOK
    <3> QED
      BY <1>4, <2>2, <3>1
  <2>4. CASE d = c
    <3>1. cli'[c] = "start" => cli[c] = "start"
      BY <2>1, ClientStepEffect DEF TypeOK
    <3>2. \/ /\ UNCHANGED <<line, inbox>> /\ outbox'[c] \in {outbox[c], <<>>}
             /\ peer'[c] = "rst" => peer[c] = "rst" \/ outbox[c] # <<>>
          \/ cli[c] # "start" /\ \E l \in Lines : line'[c] = l
      BY <2>1, <2>4, ClientStepOwn DEF TypeOK
    <3>3. CASE /\ UNCHANGED <<line, inbox>> /\ outbox'[c] \in {outbox[c], <<>>}
               /\ peer'[c] = "rst" => peer[c] = "rst" \/ outbox[c] # <<>>
      BY <1>2, <1>3, <2>2, <3>1, <3>3
    <3>4. CASE cli[c] # "start" /\ \E l \in Lines : line'[c] = l
      BY <3>1, <3>4, ClientsAssumption
    <3> QED
      BY <3>2, <3>3, <3>4
  <2> QED
    BY <2>3, <2>4
<1>7. CASE Accept \/ AcceptThread
  <2>1. /\ UNCHANGED <<program, buff>> /\ TakeConnection
        /\ at'[c] = at[c] \/ at'[c] = "read"
    BY <1>7, AcceptEffect
  <2> QED
    BY <1>4, <2>1 DEF TakeConnection
<1>8. ASSUME NEW d \in Clients, d # c, Work(d) PROVE Goal
  <2>1. /\ at'[c] = at[c] /\ buff'[c] = buff[c] /\ UNCHANGED program
        /\ TakeData(d) \/ PutData(d, buff[d]) \/ Reported(d) \/ UNCHANGED cliVars
    BY <1>8, WorkEffect
  <2>2. /\ UNCHANGED <<cli, line>>
        /\ inbox'[c] = inbox[c] /\ outbox'[c] = outbox[c] /\ peer'[c] = peer[c]
    BY <1>8, <2>1 DEF TakeData, PutData, Reported, cliVars, TypeOK, CliTypeOK
  <2> QED
    BY <1>4, <2>1, <2>2
<1>9. CASE ReadEof(c) \/ ReadStop(c)
  <2>1. /\ at'[c] = "over"
        /\ TakeData(c) \/ Reported(c) \/ UNCHANGED cliVars
    BY <1>9 DEF ReadEof, ReadStop, ReadFrom, Goto, TypeOK
  <2>2. /\ UNCHANGED <<cli, line, outbox>>
        /\ inbox'[c] # <<>> => inbox[c] # <<>>
        /\ peer'[c] = "rst" => peer[c] = "rst"
    BY <2>1 DEF TakeData, Reported, cliVars, TypeOK, CliTypeOK
  <2> QED
    BY <1>4, <2>1, <2>2
<1>10. CASE ReadLine(c) \/ ThreadRead(c)
  <2>1. /\ ReadFrom(c) /\ at'[c] = "write" /\ buff'[c] = inbox[c] /\ UNCHANGED program
        /\ Simple => ~AtEof(c)
    BY <1>10 DEF ReadLine, ThreadRead, ReadFrom, Goto, TypeOK, Threads
  <2>2. /\ UNCHANGED <<cli, line, outbox>>
        /\ inbox'[c] # <<>> => inbox[c] # <<>>
        /\ peer'[c] = "rst" => peer[c] = "rst"
        /\ Simple => inbox[c] # <<>> \/ peer[c] = "rst"
    BY <2>1 DEF ReadFrom, TakeData, Reported, cliVars, TypeOK, CliTypeOK, AtReset
  <2> QED
    BY <1>4, <2>1, <2>2
<1>11. CASE Answer(c) \/ ThreadWrite(c)
  <2>1. /\ PutData(c, buff[c]) \/ Reported(c)
        /\ at[c] = "write" /\ at'[c] # "write"
    BY <1>11 DEF Answer, ThreadWrite, WriteTo, Goto, TypeOK
  <2>2. /\ UNCHANGED <<cli, line, inbox>>
        /\ peer'[c] = "rst" => peer[c] = "rst"
    BY <2>1 DEF PutData, Reported, TypeOK, CliTypeOK
  <2>3. outbox'[c] # <<>> => outbox[c] # <<>> \/ buff[c] # <<>>
    <3>1. outbox[c] = <<>> /\ buff[c] = <<>> => outbox[c] \o buff[c] = <<>>
      BY ConcatEmptySeq, EmptySeq
    <3>2. outbox'[c] = outbox[c] \/ outbox'[c] = outbox[c] \o buff[c]
      BY <2>1 DEF PutData, Reported, TypeOK, CliTypeOK
    <3> QED
      BY <3>1, <3>2
  <2> QED
    BY <1>4, <2>1, <2>2, <2>3
<1>12. ASSUME NEW d \in Clients, CloseConnection(d) PROVE Goal
  <2>1. /\ CloseEnds({d}) /\ UNCHANGED <<program, buff>>
        /\ at'[c] = at[c] \/ at'[c] = "none"
    BY <1>12, CloseConnectionEffect
  <2> QED
    BY <1>4, <2>1 DEF CloseEnds
<1>13. CASE CloseListener
  BY <1>4, <1>13 DEF CloseListener, CloseAll
<1>14. CASE Die
  <2>1. CloseAll(Sessions) /\ at'[c] = "none"
    BY <1>14, DieEffect
  <2> QED
    BY <1>4, <2>1 DEF CloseAll
<1> QED
  BY <1>5, <1>6, <1>7, <1>8, <1>9, <1>10, <1>11, <1>12, <1>13, <1>14
     DEF Next, MainStep, SessionStep, AcceptFails, WriteKills, Work

LEMMA NextSimpleAnswers ==
  ASSUME TypeOK, SessionsWhileServing, Connected(Sessions), SimpleAnswers, [Next]_vars
  PROVE  SimpleAnswers'
<1> SUFFICES ASSUME Simple', NEW c \in Clients
             PROVE  /\ at'[c] = "write" => buff'[c] # <<StopLine>>
                    /\ at'[c] = "over" /\ isRunServer' => AtEof(c)'
  BY DEF SimpleAnswers
<1> DEFINE Goal == /\ at'[c] = "write" => buff'[c] # <<StopLine>>
                   /\ at'[c] = "over" /\ isRunServer' => AtEof(c)'
<1>1. Simple /\ ~Threads
  <2>1. UNCHANGED program
    BY WorkEffect, AcceptEffect, CloseConnectionEffect, DieEffect
       DEF Next, MainStep, SessionStep, AcceptFails, WriteKills, Work, CloseListener,
           EnvStep, srvVars, vars
  <2> QED
    BY <2>1 DEF Simple, Threads
<1>2. /\ at[c] = "write" => buff[c] # <<StopLine>>
      /\ at[c] = "over" /\ isRunServer => AtEof(c)
  BY <1>1 DEF SimpleAnswers
<1>3. CASE UNCHANGED vars
  BY <1>2, <1>3 DEF vars, cliVars, srvVars, AtEof
<1>4. CASE EnvStep
  <2>1. UNCHANGED <<at, buff, isRunServer>>
    BY <1>4 DEF EnvStep, srvVars
  <2>2. PICK d \in Clients : ClientStep(d)
    BY <1>4 DEF EnvStep
  <2>3. ASSUME AtEof(c) PROVE AtEof(c)'
    <3>1. cli[c] = "done"
      BY <2>3 DEF AtEof, Connected, Connection, LeftConnection
    <3>2. CASE d # c
      BY <2>2, <2>3, <3>2, ClientStepOwn DEF TypeOK, AtEof
    <3>3. CASE d = c
      <4>1. /\ UNCHANGED inbox
            /\ peer'[c] = peer[c] \/ peer'[c] = "finrst"
        BY <2>2, <3>1, <3>3, ClientStepOwn DEF TypeOK
      <4> QED
        BY <2>3, <4>1 DEF AtEof
    <3> QED
      BY <3>2, <3>3
  <2> QED
    BY <1>2, <2>1, <2>3
<1>5. CASE Accept
  <2>1. /\ UNCHANGED <<buff, isRunServer>> /\ TakeConnection
        /\ at'[c] = at[c] \/ at'[c] = "read"
    BY <1>5, AcceptEffect
  <2> QED
    BY <1>2, <2>1 DEF TakeConnection, AtEof
<1>6. ASSUME NEW d \in Clients, d # c, Work(d) PROVE Goal
  <2>1. d \in Sessions /\ at'[c] = at[c]
    BY <1>6, WorkEffect
  <2>2. c \notin Sessions
    BY <1>1, <1>6, <2>1 DEF SessionsWhileServing
  <2> QED
    BY <2>1, <2>2 DEF Sessions
<1>7. CASE ReadEof(c)
  <2>1. UNCHANGED cliVars /\ AtEof(c) /\ at'[c] = "over"
    BY <1>7 DEF ReadEof, ReadFrom, AtEof, AtReset, TakeData, Goto, TypeOK
  <2> QED
    BY <2>1 DEF AtEof, cliVars
<1>8. CASE ReadStop(c)
  BY <1>8 DEF ReadStop, Goto, TypeOK
<1>9. CASE ReadLine(c)
  <2>1. at'[c] = "write" /\ buff'[c] = inbox[c] /\ inbox[c] # <<StopLine>>
    BY <1>9 DEF ReadLine, ReadFrom, Goto, TypeOK
  <2> QED
    BY <2>1
<1>10. CASE Answer(c)
  <2>1. at'[c] = "read"
    BY <1>10 DEF Answer, Goto, TypeOK
  <2> QED
    BY <2>1
<1>11. ASSUME NEW d \in Clients, CloseConnection(d) PROVE Goal
  <2>1. d \in Sessions /\ Sessions' = Sessions \ {d}
    BY <1>11, CloseConnectionEffect
  <2>2. c \notin Sessions'
    BY <1>1, <2>1 DEF SessionsWhileServing
  <2> QED
    BY <2>2 DEF Sessions
<1>12. CASE CloseListener
  <2>1. pc = "close" /\ UNCHANGED at
    BY <1>12 DEF CloseListener
  <2>2. c \notin Sessions
    BY <1>1, <2>1 DEF SessionsWhileServing
  <2> QED
    BY <2>1, <2>2 DEF Sessions
<1>13. CASE Die
  BY <1>13, DieEffect
<1> QED
  BY <1>1, <1>3, <1>4, <1>5, <1>6, <1>7, <1>8, <1>9, <1>10, <1>11, <1>12, <1>13
     DEF Next, MainStep, SessionStep, AcceptFails, AcceptThread, WriteKills, Work,
         ThreadRead, ThreadWrite

LEMMA NextStopEndsThread ==
  ASSUME TypeOK, SessionsWhileServing, Connected(Sessions), OneAtATime, HasWritten,
         StopEndsThread, [Next]_vars
  PROVE  StopEndsThread'
<1> SUFFICES ASSUME Threads', NEW c \in Clients \ Eager,
                    (c \in Sessions \/ InBacklog(c))', line'[c] = StopLine
             PROVE  \/ inbox'[c] = <<StopLine>>
                    \/ InService(c)' = <<StopLine>>
                    \/ at'[c] = "over"
  BY DEF StopEndsThread
<1> DEFINE Goal == \/ inbox'[c] = <<StopLine>>
                   \/ InService(c)' = <<StopLine>>
                   \/ at'[c] = "over"
<1>1. Threads /\ ~Simple
  <2>1. UNCHANGED program
    BY WorkEffect, AcceptEffect, CloseConnectionEffect, DieEffect
       DEF Next, MainStep, SessionStep, AcceptFails, WriteKills, Work, CloseListener,
           EnvStep, srvVars, vars
  <2> QED
    BY <2>1 DEF Simple, Threads
<1>2. ASSUME c \in Sessions \/ InBacklog(c), line[c] = StopLine
      PROVE  \/ inbox[c] = <<StopLine>>
             \/ InService(c) = <<StopLine>>
             \/ at[c] = "over"
  BY <1>1, <1>2 DEF StopEndsThread
<1>3. UNCHANGED backlog => (InBacklog(c)' <=> InBacklog(c))
  BY DEF InBacklog
<1>4. CASE UNCHANGED vars
  <2>1. c \in Sessions \/ InBacklog(c)
    BY <1>3, <1>4 DEF vars, cliVars, srvVars, Sessions
  <2> QED
    BY <1>2, <1>4, <2>1 DEF vars, cliVars, srvVars, InService
<1>5. CASE EnvStep
  <2>1. UNCHANGED <<at, buff>> /\ Sessions' = Sessions
    BY <1>5 DEF EnvStep, srvVars, Sessions
  <2>2. PICK d \in Clients : ClientStep(d)
    BY <1>5 DEF EnvStep
  <2>3. /\ CliTypeOK /\ QueuedOnce /\ Connection(c, Sessions) /\ Connection(d, Sessions)
        /\ Waiting(c, InService(c))
    BY DEF Connected, OneAtATime, TypeOK
  <2>4. CASE c \in Sessions \/ InBacklog(c)
    <3>1. CASE d # c
      <4>1. line'[c] = line[c] /\ inbox'[c] = inbox[c]
        BY <2>2, <2>3, <3>1, ClientStepOwn
      <4> QED
        BY <1>2, <2>1, <2>4, <4>1 DEF InService
    <3>2. CASE d = c /\ UNCHANGED <<line, inbox>>
      BY <1>2, <2>1, <2>4, <3>2 DEF InService
    <3>3. CASE d = c /\ ~UNCHANGED <<line, inbox>>
      <4>1. /\ cli[c] = "input"
            /\ \E l \in Lines :
                 /\ line'[c] = l
                 /\ inbox'[c] = IF end[c] = "up" THEN Append(inbox[c], l) ELSE inbox[c]
        BY <2>2, <2>3, <3>3, ClientStepOwn
      <4>2. inbox[c] = <<>> /\ end[c] = "up"
        BY <2>3, <2>4, <4>1 DEF Waiting, Connection, OpenConnection
      <4>3. inbox'[c] = Append(<<>>, StopLine)
        BY <4>1, <4>2
      <4> QED
        BY <4>3
    <3> QED
      BY <3>1, <3>2, <3>3
  <2>5. CASE ~(c \in Sessions \/ InBacklog(c))
    <3>1. backlog' # backlog
      BY <1>3, <2>1, <2>5
    <3>2. cli[d] = "start" /\ backlog' = Append(backlog, d)
      BY <2>2, <2>3, <3>1, ClientStepEffect
    <3>3. ~InBacklog(d)
      BY <2>3, <3>2 DEF Connection, FreshConnection
    <3>4. d = c
      BY <2>1, <2>3, <2>5, <3>2, <3>3, QueueGrows
    <3>5. line[c] = NoLine
      BY <3>2, <3>4 DEF HasWritten
    <3>6. UNCHANGED line
      BY <2>2, <2>3, <3>2, <3>4, ClientStepOwn
    <3> QED
      BY <3>5, <3>6, ClientsAssumption
  <2> QED
    BY <2>4, <2>5
<1>6. CASE AcceptThread
  <2>1. /\ TakeConnection /\ UNCHANGED buff /\ Sessions' = Sessions \cup {Head(backlog)}
        /\ at'[Head(backlog)] = "read"
        /\ \A d \in Clients \ {Head(backlog)} : at'[d] = at[d]
    BY <1>6, AcceptEffect
  <2>2. CliTypeOK /\ QueuedOnce /\ QueuedConnection(c, Sessions)
    BY DEF TypeOK, Connected, Connection
  <2>3. InBacklog(Head(backlog)) /\ (InBacklog(c)' => InBacklog(c))
    BY <2>1, <2>2, QueueShrinks DEF TakeConnection
  <2>4. c = Head(backlog) => at[c] = "none"
    BY <2>2, <2>3 DEF QueuedConnection, Sessions
  <2>5. c \in Sessions \/ InBacklog(c)
    BY <2>1, <2>3
  <2>6. UNCHANGED <<line, inbox>>
    BY <2>1 DEF TakeConnection
  <2>7. InService(c)' = InService(c) /\ (at[c] = "over" => at'[c] = "over")
    BY <2>1, <2>4 DEF InService
  <2> QED
    BY <1>2, <2>5, <2>6, <2>7
<1>7. ASSUME NEW d \in Clients, Work(d) PROVE Goal
  <2>1. /\ Sessions' = Sessions
        /\ \/ TakeData(d) \/ PutData(d, buff[d]) \/ Reported(d)
           \/ AtEof(d) /\ UNCHANGED cliVars
    BY <1>7, WorkEffect
  <2>2. UNCHANGED <<line, backlog>>
    BY <2>1 DEF TakeData, PutData, Reported, cliVars
  <2>3. \/ inbox[c] = <<StopLine>>
        \/ InService(c) = <<StopLine>>
        \/ at[c] = "over"
    BY <1>2, <1>3, <2>1, <2>2
  <2>4. CASE d # c
    <3>1. at'[c] = at[c] /\ buff'[c] = buff[c]
      BY <1>7, <2>4, WorkEffect
    <3>2. inbox'[c] = inbox[c]
      BY <2>1, <2>4 DEF TakeData, PutData, Reported, cliVars, TypeOK, CliTypeOK
    <3> QED
      BY <2>3, <3>1, <3>2 DEF InService
  <2>5. CASE d = c
    <3>1. CASE ThreadRead(c)
      <4>1. inbox[c] = <<StopLine>>
        BY <2>3, <3>1 DEF ThreadRead, InService
      <4>2. at'[c] = "write" /\ buff'[c] = inbox[c]
        BY <3>1 DEF ThreadRead, ReadFrom, Goto, TypeOK
      <4> QED
        BY <4>1, <4>2 DEF InService
    <3>2. CASE ThreadWrite(c)
      <4>1. at[c] = "write" /\ UNCHANGED inbox
        BY <3>2 DEF ThreadWrite, WriteTo, PutData, Reported
      <4>2. buff[c] = <<StopLine>> => at'[c] = "over"
        BY <3>2 DEF ThreadWrite, Goto, TypeOK
      <4> QED
        BY <2>3, <4>1, <4>2 DEF InService
    <3> QED
      BY <1>1, <1>7, <2>5, <3>1, <3>2 DEF Work, ReadEof, ReadStop, ReadLine, Answer
  <2> QED
    BY <2>4, <2>5
<1>8. CASE CloseListener
  BY <1>1, <1>8 DEF CloseListener, SessionsWhileServing
<1>9. CASE Die
  <2>1. Sessions' = {} /\ backlog' = <<>>
    BY <1>9, DieEffect DEF CloseAll
  <2> QED
    BY <2>1 DEF InBacklog
<1> QED
  BY <1>1, <1>4, <1>5, <1>6, <1>7, <1>8, <1>9
     DEF Next, MainStep, SessionStep, Accept, CloseConnection, AcceptFails, WriteKills, Work

-----------------------------------------------------------------------------
(***************************************************************************)
(* The theorems.                                                           *)
(***************************************************************************)

LEMMA InitIInv == Init => IInv
<1> SUFFICES ASSUME Init PROVE IInv
  OBVIOUS
<1> USE DEF Init, CliInit
<1>1. Sessions = {} /\ {c \in Clients : at[c] # "none"} = {}
  BY DEF Sessions
<1>2. CliTypeOK /\ Connected({}) /\ \A c \in Clients : Waiting(c, <<>>)
  BY InitConnections DEF Init
<1>3. TypeOK
  <2>1. <<>> \in Seq(Lines)
    BY EmptySeq
  <2>2. Cardinality({c \in Clients : at[c] # "none"}) <= 1
    BY <1>1, FS_EmptySet
  <2> QED
    BY <1>2, <2>1, <2>2 DEF TypeOK
<1>4. SessionsWhileServing
  BY <1>1 DEF SessionsWhileServing, Simple, Threads
<1>5. Connected(Sessions)
  BY <1>1, <1>2
<1>6. NothingRead /\ OneAtATime /\ SimpleAnswers
  BY <1>2 DEF NothingRead, OneAtATime, SimpleAnswers, InService
<1>7. HasWritten
  BY DEF HasWritten, HasLeftTrace, InService
<1>8. StopEndsThread
  BY <1>1, ClientsAssumption DEF StopEndsThread
<1> QED
  BY <1>3, <1>4, <1>5, <1>6, <1>7, <1>8 DEF IInv

LEMMA NextIInv == IInv /\ [Next]_vars => IInv'
<1> SUFFICES ASSUME IInv, [Next]_vars PROVE IInv'
  OBVIOUS
<1>1. SessionsWhileServing'
  BY NextServing DEF IInv
<1>2. TypeOK'
  BY <1>1, NextTyped DEF IInv
<1>3. Connected(Sessions)'
  BY NextConnected DEF IInv
<1>4. NothingRead'
  BY NextNothingRead DEF IInv
<1>5. OneAtATime'
  BY NextOneAtATime DEF IInv
<1>6. HasWritten'
  BY NextHasWritten DEF IInv
<1>7. SimpleAnswers'
  BY NextSimpleAnswers DEF IInv
<1>8. StopEndsThread'
  BY NextStopEndsThread DEF IInv
<1> QED
  BY <1>1, <1>2, <1>3, <1>4, <1>5, <1>6, <1>7, <1>8 DEF IInv

\* The inductive invariant holds in every state either program reaches.
THEOREM IInvHolds == Spec => []IInv
BY InitIInv, NextIInv, PTL DEF Spec

\* Every variable keeps its type, and the simple server never has more than
\* one session, whenever it is told to stop.
THEOREM TypeCorrect == Spec => []TypeOK
<1>1. IInv => TypeOK
  BY DEF IInv
<1> QED
  BY <1>1, IInvHolds, PTL

LEMMA NextKills ==
  ASSUME IInv, [Next]_vars, pc # "dead", pc' = "dead"
  PROVE  \/ Threads /\ Cardinality(Sessions) = MaxSessions
         \/ \E c \in Clients :
              /\ at[c] = "write" /\ peer[c] = "finrst" /\ cli[c] = "done"
              /\ Simple => line[c] # NoLine
              /\ Threads => line[c] # StopLine \/ c \in Eager
<1>1. CASE AcceptFails
  BY <1>1 DEF AcceptFails
<1>2. ASSUME NEW c \in Clients, WriteKills(c)
      PROVE  /\ at[c] = "write" /\ peer[c] = "finrst" /\ cli[c] = "done"
             /\ Simple => line[c] # NoLine
             /\ Threads => line[c] # StopLine \/ c \in Eager
  <2>1. at[c] = "write" /\ peer[c] = "finrst"
    BY <1>2 DEF WriteKills
  <2>2. cli[c] = "done"
    BY <2>1 DEF IInv, Connected, Connection, LeftConnection
  <2>3. Simple => line[c] # NoLine
    BY <2>1 DEF IInv, HasWritten
  <2>4. ASSUME Threads, line[c] = StopLine, c \notin Eager PROVE FALSE
    <3>1. Waiting(c, InService(c)) /\ c \in Sessions
      BY <2>1, <2>4 DEF IInv, OneAtATime, Sessions
    <3>2. inbox[c] = <<>> /\ InService(c) = <<>>
      BY <2>1, <3>1 DEF Waiting
    <3> QED
      BY <2>1, <2>4, <3>1, <3>2 DEF IInv, StopEndsThread
  <2> QED
    BY <2>1, <2>2, <2>3, <2>4
<1>3. ASSUME ~AcceptFails, \A c \in Clients : ~WriteKills(c) PROVE pc' # "dead" \/ pc = "dead"
  <2>1. CASE UNCHANGED vars \/ EnvStep
    BY <2>1 DEF EnvStep, vars, srvVars
  <2>2. CASE MainStep
    BY <1>3, <2>2 DEF MainStep, Accept, CloseListener, AcceptThread
  <2>3. ASSUME NEW c \in Clients, SessionStep(c) PROVE pc' # "dead" \/ pc = "dead"
    BY <1>3, <2>3 DEF SessionStep, ReadEof, ReadStop, ReadLine, Answer, CloseConnection,
                      ThreadRead, ThreadWrite
  <2> QED
    BY <2>1, <2>2, <2>3 DEF Next
<1> QED
  BY <1>1, <1>2, <1>3

\* No client that stays ends either server: the write() that raises SIGPIPE
\* is to a client that has left, and not to one that was answered its
\* StopLine.  Only the threads run out of descriptors.
THEOREM LeaversKill == Spec => OnlyLeaversKill
<1>1. IInv /\ [Next]_vars =>
        [pc # "dead" /\ pc' = "dead" =>
           \/ Threads /\ Cardinality(Sessions) = MaxSessions
           \/ \E c \in Clients :
                /\ at[c] = "write" /\ peer[c] = "finrst" /\ cli[c] = "done"
                /\ Simple => line[c] # NoLine
                /\ Threads => line[c] # StopLine \/ c \in Eager]_vars
  BY NextKills
<1> QED
  BY <1>1, IInvHolds, PTL DEF Spec, OnlyLeaversKill

-----------------------------------------------------------------------------
(***************************************************************************)
(* The refinement of EchoService.                                          *)
(***************************************************************************)

InHands == [c \in Clients |-> InService(c)]

Asked == [c \in Clients |-> InService(c) \o inbox[c]]

Serving == pc \in {"accept", "serve"}

LEMMA InitServed == Init => Echo(StopLine)!Init
<1> SUFFICES ASSUME Init PROVE Echo(StopLine)!Init
  OBVIOUS
<1>1. [c \in Clients |-> Place(c)] = [c \in Clients |-> "out"]
  BY DEF Init, CliInit, Place
<1>2. [c \in Clients |-> InService(c) \o inbox[c]] = [c \in Clients |-> <<>>]
  <2>1. <<>> \o <<>> = <<>>
    OBVIOUS
  <2> QED
    BY <2>1 DEF Init, CliInit, InService
<1> QED
  BY <1>1, <1>2 DEF Init, CliInit, Echo!Init

\* What a step of a session does to the lines in the hands of the server.
LEMMA WorkInHands ==
  ASSUME TypeOK, NEW c \in Clients, Work(c)
  PROVE  /\ ReadEof(c) \/ ReadStop(c) => InHands' = InHands
         /\ ReadLine(c) \/ ThreadRead(c) => Takes(InHands, InHands', c, inbox[c])
         /\ Answer(c) \/ ThreadWrite(c) => Empties(InHands, InHands', c)
         /\ at[c] = "read" => InHands[c] = <<>>
         /\ at[c] = "write" => InHands[c] = buff[c]
<1> USE DEF InHands, InService, Takes, Empties
<1>1. \A d \in Clients \ {c} : InService(d)' = InService(d)
  BY WorkEffect
<1>2. ASSUME ReadEof(c) \/ ReadStop(c) PROVE InHands' = InHands
  <2>1. at[c] = "read" /\ at'[c] = "over"
    BY <1>2 DEF ReadEof, ReadStop, Goto, TypeOK
  <2> QED
    BY <1>1, <2>1
<1>3. ASSUME ReadLine(c) \/ ThreadRead(c) PROVE Takes(InHands, InHands', c, inbox[c])
  <2>1. at'[c] = "write" /\ buff'[c] = inbox[c]
    BY <1>3 DEF ReadLine, ThreadRead, ReadFrom, Goto, TypeOK
  <2> QED
    BY <1>1, <2>1
<1>4. ASSUME Answer(c) \/ ThreadWrite(c) PROVE Empties(InHands, InHands', c)
  <2>1. at'[c] # "write"
    BY <1>4 DEF Answer, ThreadWrite, Goto, TypeOK
  <2> QED
    BY <1>1, <2>1
<1> QED
  BY <1>2, <1>3, <1>4

LEMMA NextServed ==
  ASSUME IInv, [Next]_vars, NEW stop, stop = IF Simple THEN StopLine ELSE NoLine
  PROVE  [Echo(stop)!Next]_(Echo(stop)!vars)
<1>1. PICK held : held = InHands
  OBVIOUS
<1>2. PICK new : new = InHands'
  OBVIOUS
<1>3. PICK S : S = Sessions
  OBVIOUS
<1>4. Asked = UnderWay(held, inbox) /\ Asked' = UnderWay(new, inbox')
  BY <1>1, <1>2 DEF Asked, InHands, UnderWay
<1>5. /\ CliTypeOK /\ S \in SUBSET Clients /\ Connected(S)
      /\ held \in [Clients -> Seq(Lines)]
  <2>1. Sessions \in SUBSET Clients
    BY DEF Sessions
  <2>2. \A c \in Clients : InService(c) \in Seq(Lines)
    BY EmptySeq DEF InService, IInv, TypeOK
  <2> QED
    BY <1>1, <1>3, <2>1, <2>2 DEF IInv, TypeOK, InHands
<1>6. ASSUME ClientServed(held), new = held, UNCHANGED Serving
      PROVE  [Echo(stop)!Next]_(Echo(stop)!vars)
  <2> USE <1>4, <1>6 DEF Appends, Empties, Asked, Places, Serving
  <2>1. ASSUME NEW c \in Clients, Places[c] = "out",
               Places' = [Places EXCEPT ![c] = "in"], Asked' = Asked, UNCHANGED outbox
        PROVE  Echo(stop)!Join(c)
    BY <2>1 DEF Echo!Join
  <2>2. ASSUME NEW c \in Clients, NEW l \in Lines, Places[c] = "in",
               Appends(Asked, Asked', c, l), UNCHANGED Places, UNCHANGED outbox
        PROVE  Echo(stop)!Ask(c, l)
    BY <2>2 DEF Echo!Ask
  <2>3. ASSUME NEW c \in Clients, Places[c] \in {"in", "cut"},
               Empties(outbox, outbox', c), Asked' = Asked, UNCHANGED Places
        PROVE  Echo(stop)!Collect(c)
    BY <2>3 DEF Echo!Collect
  <2>4. ASSUME NEW c \in Clients, Places' = [Places EXCEPT ![c] = "left"],
               Empties(outbox, outbox', c), Asked' = Asked
        PROVE  Echo(stop)!Leave(c)
    BY <2>4 DEF Echo!Leave
  <2>5. Asked' = Asked /\ UNCHANGED <<Places, outbox>> => UNCHANGED Echo(stop)!vars
    BY DEF Echo!vars
  <2> QED
    BY <2>1, <2>2, <2>3, <2>4, <2>5 DEF ClientServed, Echo!Next
<1>7. ASSUME ServerServed(stop, held, new), Serving, Serving'
      PROVE  [Echo(stop)!Next]_(Echo(stop)!vars)
  <2> USE DEF Serving
  <2>1. ASSUME NEW c \in Clients, held[c] # <<stop>>,
               Consumes(Asked, Asked', c, held[c]), UNCHANGED Places,
               outbox' = IF Places[c] = "in" THEN [outbox EXCEPT ![c] = @ \o held[c]]
                         ELSE outbox
        PROVE  Echo(stop)!Next
    <3>1. Echo(stop)!Answer(c, Len(held[c]))
      BY <1>7, <2>1 DEF Echo!Answer, Consumes, Asked, Places
    <3> QED
      BY <2>1, <3>1 DEF Echo!Next, Consumes, Asked
  <2>2. ASSUME NEW c \in Clients, Asked[c] = <<stop>>, Empties(Asked, Asked', c),
               UNCHANGED outbox, UNCHANGED Places
        PROVE  Echo(stop)!HearStop(c)
    BY <1>7, <2>2 DEF Echo!HearStop, Empties, Asked, Places
  <2>3. Asked' = Asked /\ UNCHANGED outbox /\ UNCHANGED Places => UNCHANGED Echo(stop)!vars
    BY <1>7 DEF Echo!vars, Asked, Places
  <2> QED
    BY <1>4, <1>7, <2>1, <2>2, <2>3 DEF ServerServed, Echo!Next
<1>8. ASSUME NEW cs, EndServed(cs, held, new), ~Serving'
      PROVE  [Echo(stop)!Next]_(Echo(stop)!vars)
  <2>1. /\ cs \in SUBSET Clients /\ Places' = Cut(cs)
        /\ Asked' = Cleared(Asked, cs) /\ UNCHANGED outbox
    BY <1>4, <1>8 DEF EndServed
  <2>2. Echo(stop)!End(cs)
    BY <1>8, <2>1 DEF Echo!End, Cut, Cleared, Asked, Places, Serving
  <2> QED
    BY <2>1, <2>2 DEF Echo!Next
<1>9. ASSUME NEW c \in Clients \ S PROVE held[c] = <<>>
  BY <1>1, <1>3, <1>9 DEF Sessions, InHands, InService
<1>10. CASE UNCHANGED vars \/ EnvStep
  <2>1. new = held /\ UNCHANGED Serving
    BY <1>1, <1>2, <1>10 DEF EnvStep, vars, srvVars, InHands, InService, Serving
  <2>2. UNCHANGED cliVars \/ \E c \in Clients : ClientStep(c)
    BY <1>10 DEF EnvStep, vars
  <2> QED
    BY <1>5, <1>6, <2>1, <2>2, ClientServes
<1>11. CASE Accept \/ AcceptThread
  <2>1. /\ TakeConnection /\ UNCHANGED buff
        /\ Head(backlog) \in Clients /\ at'[Head(backlog)] = "read"
        /\ \A d \in Clients \ {Head(backlog)} : at'[d] = at[d]
    BY <1>11, AcceptEffect DEF IInv
  <2>2. Head(backlog) \notin S
    BY <1>5, <2>1, QueueShrinks
       DEF TakeConnection, Connected, Connection, QueuedConnection
  <2>3. new = held
    BY <1>1, <1>2, <1>3, <2>1, <2>2 DEF InHands, InService, Sessions
  <2>4. Serving /\ Serving'
    BY <1>11 DEF Accept, AcceptThread, Serving
  <2> QED
    BY <1>5, <1>7, <2>1, <2>3, <2>4, CallsServe
<1>12. ASSUME NEW c \in Clients, Work(c)
       PROVE  /\ c \in S /\ Serving /\ Serving'
              /\ ReadEof(c) \/ ReadStop(c) => new = held
              /\ ReadLine(c) \/ ThreadRead(c) => Takes(held, new, c, inbox[c])
              /\ Answer(c) \/ ThreadWrite(c) => Empties(held, new, c)
              /\ at[c] = "read" => held[c] = <<>>
              /\ at[c] = "write" => held[c] = buff[c]
  <2>1. c \in Sessions /\ UNCHANGED pc
    BY <1>12, WorkEffect DEF IInv
  <2>2. Serving /\ Serving'
    BY <2>1 DEF Serving, IInv, SessionsWhileServing
  <2> QED
    BY <1>1, <1>2, <1>3, <1>12, <2>1, <2>2, WorkInHands DEF IInv
<1>13. ASSUME NEW c \in Clients, ReadEof(c) PROVE [Echo(stop)!Next]_(Echo(stop)!vars)
  <2>1. UNCHANGED cliVars
    BY <1>13 DEF ReadEof, ReadFrom, AtEof, AtReset, TakeData
  <2> QED
    BY <1>5, <1>7, <1>12, <1>13, <2>1, CallsServe DEF Work
<1>14. ASSUME NEW c \in Clients, ReadStop(c) PROVE [Echo(stop)!Next]_(Echo(stop)!vars)
  <2>1. TakeData(c) /\ inbox[c] = <<stop>> /\ at[c] = "read"
    BY <1>14 DEF ReadStop
  <2> QED
    BY <1>5, <1>7, <1>12, <1>14, <2>1, CallsServe DEF Work
<1>15. ASSUME NEW c \in Clients, ReadLine(c) \/ ThreadRead(c)
       PROVE  [Echo(stop)!Next]_(Echo(stop)!vars)
  <2>1. /\ Takes(held, new, c, inbox[c]) /\ c \in S /\ Serving /\ Serving'
        /\ held[c] = <<>>
    BY <1>12, <1>15 DEF Work, ReadLine, ThreadRead
  <2>2. CASE TakeData(c)
    BY <1>5, <1>7, <2>1, <2>2, CallsServe
  <2>3. CASE inbox[c] = <<>> /\ UNCHANGED <<cli, end, inbox, outbox>>
    <3>1. new = held
      BY <1>5, <2>1, <2>3 DEF Takes
    <3> QED
      BY <1>5, <1>7, <2>1, <2>3, <3>1, CallsServe
  <2> QED
    BY <1>15, <2>2, <2>3
       DEF ReadLine, ThreadRead, ReadFrom, AtEof, AtReset, Reported, cliVars
<1>16. ASSUME NEW c \in Clients, Answer(c) \/ ThreadWrite(c)
       PROVE  [Echo(stop)!Next]_(Echo(stop)!vars)
  <2>1. /\ Empties(held, new, c) /\ c \in S /\ Serving /\ Serving'
        /\ held[c] = buff[c] /\ at[c] = "write"
    BY <1>12, <1>16 DEF Work, Answer, ThreadWrite
  <2>2. held[c] # <<stop>>
    <3>1. CASE Simple
      BY <2>1, <3>1 DEF IInv, SimpleAnswers
    <3>2. CASE ~Simple
      <4>1. NoLine \notin Lines /\ held[c] \in Seq(Lines)
        BY <1>5, ClientsAssumption
      <4>2. ASSUME NEW q \in Seq(Lines), NoLine \notin Lines PROVE q # <<NoLine>>
        BY ONLY <4>2
      <4> QED
        BY <3>2, <4>1, <4>2
    <3> QED
      BY <3>1, <3>2
  <2>3. \/ PutData(c, held[c])
        \/ peer[c] # "up" /\ UNCHANGED <<cli, end, inbox, outbox>>
    BY <1>16, <2>1 DEF Answer, ThreadWrite, WriteTo, Reported
  <2> QED
    BY <1>5, <1>7, <2>1, <2>2, <2>3, CallsServe
<1>17. ASSUME NEW c \in Clients, CloseConnection(c)
       PROVE  [Echo(stop)!Next]_(Echo(stop)!vars)
  <2>1. /\ CloseEnds({c}) /\ c \in S /\ UNCHANGED buff
        /\ at[c] = "over" /\ at'[c] = "none"
        /\ \A d \in Clients \ {c} : at'[d] = at[d]
    BY <1>3, <1>17, CloseConnectionEffect DEF IInv, CloseConnection
  <2>2. new = held /\ held[c] = <<>>
    BY <1>1, <1>2, <2>1 DEF InHands, InService
  <2>3. CASE isRunServer
    <3>1. AtEof(c)
      BY <1>17, <2>1, <2>3 DEF CloseConnection, IInv, SimpleAnswers
    <3>2. Serving /\ Serving'
      BY <1>3, <1>17, <2>1, <2>3 DEF CloseConnection, IInv, SessionsWhileServing, Serving
    <3> QED
      BY <1>5, <1>7, <2>1, <2>2, <3>1, <3>2, CallsServe
  <2>4. CASE ~isRunServer
    <3>1. new = Cleared(held, {c})
      BY <1>5, <2>2 DEF Cleared
    <3>2. ~Serving' /\ {c} \in SUBSET S
      BY <1>17, <2>1, <2>4 DEF CloseConnection, Serving
    <3> QED
      BY <1>5, <1>8, <2>1, <3>1, <3>2, CallsServe
  <2> QED
    BY <2>3, <2>4
<1>18. CASE CloseListener
  <2>1. CloseAll({}) /\ ~Serving' /\ S = {} /\ UNCHANGED at
    BY <1>3, <1>18 DEF CloseListener, Serving, IInv, SessionsWhileServing
  <2>2. new = [c \in Clients |-> <<>>] /\ held = [c \in Clients |-> <<>>]
    BY <1>1, <1>2, <1>3, <2>1 DEF InHands, InService, Sessions
  <2>3. new = Cleared(held, {} \cup Queued)
    BY <2>2 DEF Cleared
  <2> QED
    BY <1>5, <1>8, <2>1, <2>3, CallsServe
<1>19. CASE Die
  <2>1. CloseAll(S) /\ ~Serving' /\ \A c \in Clients : at'[c] = "none"
    BY <1>3, <1>19, DieEffect DEF Serving
  <2>2. new = [c \in Clients |-> <<>>]
    BY <1>2, <2>1 DEF InHands, InService
  <2>3. new = Cleared(held, S \cup Queued)
    BY <1>9, <2>2 DEF Cleared
  <2> QED
    BY <1>5, <1>8, <2>1, <2>3, CallsServe
<1> QED
  BY <1>10, <1>11, <1>13, <1>14, <1>15, <1>16, <1>17, <1>18, <1>19
     DEF Next, MainStep, SessionStep, AcceptFails, WriteKills

\* Both programs keep the promise of the echo service in every behaviour;
\* the threads send back every line, StopLine too.
THEOREM Implements == Spec => ImplementsEchoService
<1>1. IInv /\ [Next]_vars =>
        [IF Simple THEN Echo(StopLine)!Next ELSE Echo(NoLine)!Next]_(Echo(StopLine)!vars)
  <2> SUFFICES ASSUME IInv, [Next]_vars
               PROVE  [IF Simple THEN Echo(StopLine)!Next
                       ELSE Echo(NoLine)!Next]_(Echo(StopLine)!vars)
    OBVIOUS
  <2>1. CASE Simple
    BY <2>1, NextServed
  <2>2. CASE ~Simple
    <3>1. [Echo(NoLine)!Next]_(Echo(NoLine)!vars)
      BY <2>2, NextServed
    <3>2. UNCHANGED Echo(NoLine)!vars => UNCHANGED Echo(StopLine)!vars
      BY DEF Echo!vars
    <3> QED
      BY <2>2, <3>1, <3>2
  <2> QED
    BY <2>1, <2>2
<1> QED
  BY <1>1, InitServed, IInvHolds, PTL DEF Spec, ImplementsEchoService
=============================================================================
