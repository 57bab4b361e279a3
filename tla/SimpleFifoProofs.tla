-------------------------- MODULE SimpleFifoProofs --------------------------
(***************************************************************************)
(* Proofs about SimpleFifo: its types are right, and its server ends in    *)
(* order only after somebody got the greeting or was there to get it.      *)
(***************************************************************************)
EXTENDS SimpleFifo, SequenceFacts

-----------------------------------------------------------------------------
(***************************************************************************)
(* The inductive invariant.                                                *)
(***************************************************************************)

\* c is a client of the current run: it has opened the FIFO of that run.
InRun(c) == cli[c] # "start" /\ opened[c] = run

\* No server finds a name that was sent to another one: what is left in the
\* FIFO when a server ends is lost, and nobody can write there before the
\* next one has opened it.
NamesAreOfRun ==
  /\ \A k \in DOMAIN pub : InRun(pub[k])
  /\ ~Serving => pub = <<>>

\* So the client whose FIFO the server opens is one of its own run.
ServedIsOfRun ==
  /\ pc = "open" /\ fifoName \in Clients => InRun(fifoName)
  /\ pc = "write" => wfd \in Clients /\ InRun(wfd)

\* A greeting lies only in a FIFO that is open; what a client has read it
\* read before it closed.
GreetingsHold ==
  \A c \in Clients :
    /\ priv[c] => cli[c] \in {"read", "close"}
    /\ cli[c] = "close" => msg[c] # "none"
    /\ msg[c] # "none" => cli[c] \in {"close"} \cup Gone

\* c was greeted, or has read zeros while the greeting was on its way, or
\* was killed with the greeting in its FIFO.
Served(c) == opened[c] = run /\ (priv[c] \/ msg[c] # "none" \/ cli[c] = "killed")

\* From the greeting on there is such a client, until another server starts.
SomebodyServed ==
  pc = "close" \/ (pc = "off" /\ run > 0) => \E c \in Clients : Served(c)

IInv ==
  /\ TypeOK
  /\ NamesAreOfRun
  /\ ServedIsOfRun
  /\ GreetingsHold
  /\ SomebodyServed
-----------------------------------------------------------------------------
(***************************************************************************)
(* Every step preserves each part of it.                                   *)
(***************************************************************************)

LEMMA TypeStep == TypeOK /\ [Next]_vars => TypeOK'
<1> SUFFICES ASSUME TypeOK, [Next]_vars PROVE TypeOK'
  OBVIOUS
<1> USE DEF TypeOK
<1>1. /\ <<>> \in Seq(Clients)
      /\ pub # <<>> => Head(pub) \in Clients /\ Tail(pub) \in Seq(Clients)
      /\ \A c \in Clients : Append(pub, c) \in Seq(Clients)
  BY FifoProperties
<1>2. CASE OpenFifo \/ ReadName \/ ReadNoName \/ OpenClient
  BY <1>1, <1>2 DEF OpenFifo, ReadName, ReadNoName, OpenClient, Readers, SrvState
<1>3. CASE Greet
  BY <1>3 DEF Greet, Readers, SrvState
<1>4. CASE OpenClientFails \/ GreetFails \/ Leave \/ KillServer
  BY <1>1, <1>4 DEF OpenClientFails, GreetFails, Leave, KillServer, Crash, End, SrvState
<1>5. CASE MakeFifo
  BY <1>5, SimpleFifoAssumption DEF MakeFifo, SrvState
<1>6. ASSUME NEW c \in Clients, OpenServer(c) PROVE TypeOK'
  BY <1>6 DEF OpenServer, Move, srvVars, CliState, Gone
<1>7. ASSUME NEW c \in Clients, CreateOwn(c) \/ SendName(c) \/ SendNameFails(c) \/ OpenOwn(c)
      PROVE  TypeOK'
  BY <1>1, <1>7 DEF CreateOwn, SendName, SendNameFails, OpenOwn, Move, srvVars, CliState, Gone
<1>8. ASSUME NEW c \in Clients, ReadGreeting(c) \/ ReadZeros(c) PROVE TypeOK'
  BY <1>8 DEF ReadGreeting, ReadZeros, Move, srvVars, CliState, Gone
<1>9. ASSUME NEW c \in Clients, Finish(c) \/ Kill(c) PROVE TypeOK'
  BY <1>9 DEF Finish, Kill, Quit, Move, srvVars, CliState, Gone
<1>10. CASE UNCHANGED vars
  BY <1>10 DEF vars, srvVars
<1>11. QED BY <1>2, <1>3, <1>4, <1>5, <1>6, <1>7, <1>8, <1>9, <1>10
           DEF Next, ServerStep, ClientStep

\* A client that has opened the FIFO of the run belongs to it as long as the
\* run lasts: a step of a client neither starts a server nor reopens the FIFO.
LEMMA InRunLasts ==
  ASSUME TypeOK, [Next]_vars, ~MakeFifo, NEW d \in Clients, InRun(d)
  PROVE  InRun(d)'
<1>1. CASE ServerStep \/ KillServer
  BY <1>1 DEF InRun, TypeOK, ServerStep, OpenFifo, ReadName, ReadNoName, OpenClient,
              OpenClientFails, Greet, GreetFails, Leave, Crash, End, KillServer
<1>2. ASSUME NEW c \in Clients, OpenServer(c) \/ ClientStep(c) \/ Kill(c)
      PROVE  InRun(d)'
  BY <1>2 DEF InRun, TypeOK, OpenServer, ClientStep, CreateOwn, SendName, SendNameFails,
              OpenOwn, ReadGreeting, ReadZeros, Finish, Kill, Quit, Move, srvVars, Gone
<1>3. CASE UNCHANGED vars
  BY <1>3 DEF InRun, vars, srvVars
<1>4. QED BY <1>1, <1>2, <1>3 DEF Next

LEMMA NamesStep == IInv /\ [Next]_vars => NamesAreOfRun'
<1> SUFFICES ASSUME IInv, [Next]_vars PROVE NamesAreOfRun'
  OBVIOUS
<1>1. TypeOK /\ NamesAreOfRun
  BY DEF IInv
<1>2. CASE pub' = <<>>
  BY <1>2, EmptySeq DEF NamesAreOfRun
<1>3. CASE MakeFifo
  BY <1>1, <1>3, <1>2 DEF NamesAreOfRun, MakeFifo, Serving, Running
<1>4. ASSUME ~MakeFifo, Serving' \/ pub' = <<>>,
             \A k \in DOMAIN pub' : (pub')[k] \in Clients /\ InRun((pub')[k])
      PROVE  NamesAreOfRun'
  <2>1. \A c \in Clients : InRun(c) => InRun(c)'
    BY <1>1, <1>4, InRunLasts
  <2>2. QED BY <1>4, <2>1 DEF NamesAreOfRun
<1>5. ASSUME ~MakeFifo, Serving' \/ pub' = <<>>, pub' = pub
      PROVE  NamesAreOfRun'
  BY <1>1, <1>4, <1>5, FifoProperties DEF NamesAreOfRun, TypeOK
<1>6. CASE ServerStep
  <2>1. CASE ReadName
    <3>1. \A k \in DOMAIN Tail(pub) : Tail(pub)[k] \in Clients /\ InRun(Tail(pub)[k])
      BY <1>1, <2>1, FifoProperties DEF NamesAreOfRun, ReadName, TypeOK
    <3>2. ~MakeFifo /\ Serving' /\ pub' = Tail(pub)
      BY <2>1 DEF ReadName, MakeFifo, Running, Serving
    <3>3. QED BY <1>4, <3>1, <3>2
  <2>2. CASE ReadNoName \/ OpenClient \/ Greet
    BY <1>5, <2>2 DEF ReadNoName, OpenClient, Greet, MakeFifo, Running, Serving
  <2>3. CASE OpenFifo
    BY <1>5, <2>3 DEF OpenFifo, MakeFifo, Running, Serving
  <2>4. CASE OpenClientFails \/ GreetFails \/ Leave
    BY <1>2, <2>4 DEF OpenClientFails, GreetFails, Leave, Crash, End
  <2>5. QED BY <1>6, <2>1, <2>2, <2>3, <2>4 DEF ServerStep
<1>7. CASE KillServer
  BY <1>2, <1>7 DEF KillServer, End
<1>8. ASSUME NEW c \in Clients, OpenServer(c) \/ ClientStep(c) \/ Kill(c)
      PROVE  NamesAreOfRun'
  <2>1. ~MakeFifo /\ pc' = pc
    BY <1>1, <1>8 DEF MakeFifo, OpenServer, ClientStep, CreateOwn, SendName, SendNameFails,
              OpenOwn, ReadGreeting, ReadZeros, Finish, Kill, Quit, srvVars, TypeOK
  <2>2. CASE SendName(c)
    <3>1. InRun(c) /\ Serving /\ pub' = Append(pub, c)
      BY <2>2 DEF SendName, ServerReads, InRun
    <3>2. \A k \in DOMAIN Append(pub, c) :
             Append(pub, c)[k] \in Clients /\ InRun(Append(pub, c)[k])
      BY <1>1, <3>1, FifoProperties DEF NamesAreOfRun, TypeOK
    <3>3. QED BY <1>4, <2>1, <3>1, <3>2 DEF Serving
  <2>3. CASE ~SendName(c)
    <3>1. pub' = pub
      BY <1>8, <2>3 DEF OpenServer, ClientStep, CreateOwn, SendNameFails,
                OpenOwn, ReadGreeting, ReadZeros, Finish, Kill, Quit
    <3>2. QED BY <1>1, <1>5, <2>1, <3>1 DEF NamesAreOfRun, Serving
  <2>4. QED BY <2>2, <2>3
<1>9. CASE UNCHANGED vars
  BY <1>1, <1>9 DEF NamesAreOfRun, InRun, Serving, vars, srvVars
<1>10. QED BY <1>3, <1>6, <1>7, <1>8, <1>9 DEF Next

LEMMA ServedIsOfRunStep == IInv /\ [Next]_vars => ServedIsOfRun'
<1> SUFFICES ASSUME IInv, [Next]_vars PROVE ServedIsOfRun'
  OBVIOUS
<1>1. TypeOK /\ NamesAreOfRun /\ ServedIsOfRun
  BY DEF IInv
<1>2. CASE pc' \notin {"open", "write"}
  BY <1>2 DEF ServedIsOfRun
<1>3. \A d \in Clients : ~MakeFifo /\ InRun(d) => InRun(d)'
  BY <1>1, InRunLasts
<1>4. CASE ReadName
  <2>1. InRun(fifoName') /\ fifoName' \in Clients /\ ~MakeFifo /\ pc' = "open"
    BY <1>1, <1>4, FifoProperties DEF ReadName, NamesAreOfRun, TypeOK, MakeFifo, Running
  <2>2. QED BY <1>3, <2>1 DEF ServedIsOfRun, InRun
<1>5. CASE ReadNoName
  BY <1>5, SimpleFifoAssumption DEF ReadNoName, ServedIsOfRun
<1>6. CASE OpenClient
  <2>1. InRun(wfd') /\ wfd' \in Clients /\ ~MakeFifo /\ pc' = "write"
    BY <1>1, <1>6 DEF OpenClient, Readers, ServedIsOfRun, MakeFifo, Running
  <2>2. QED BY <1>3, <2>1 DEF ServedIsOfRun, InRun
<1>7. CASE OpenFifo \/ OpenClientFails \/ Greet \/ GreetFails \/ Leave \/ MakeFifo \/ KillServer
  BY <1>2, <1>7 DEF OpenFifo, OpenClientFails, Greet, GreetFails, Leave, MakeFifo,
                    KillServer, Crash, End
<1>8. ASSUME UNCHANGED srvVars PROVE ServedIsOfRun'
  <2>1. ~MakeFifo
    BY <1>1, <1>8 DEF MakeFifo, srvVars, TypeOK
  <2>2. \A d \in Clients : InRun(d) => InRun(d)'
    BY <1>3, <2>1
  <2>3. pc' = pc /\ fifoName' = fifoName /\ wfd' = wfd
    BY <1>8 DEF srvVars
  <2>4. ASSUME pc' = "open", fifoName' \in Clients PROVE InRun(fifoName)'
    BY <1>1, <2>2, <2>3, <2>4 DEF ServedIsOfRun, InRun
  <2>5. ASSUME pc' = "write" PROVE wfd' \in Clients /\ InRun(wfd)'
    BY <1>1, <2>2, <2>3, <2>5 DEF ServedIsOfRun, InRun
  <2>6. QED BY <2>4, <2>5 DEF ServedIsOfRun
<1>9. \A c \in Clients : OpenServer(c) \/ ClientStep(c) \/ Kill(c) => UNCHANGED srvVars
  BY DEF OpenServer, ClientStep, CreateOwn, SendName, SendNameFails,
         OpenOwn, ReadGreeting, ReadZeros, Finish, Kill, Quit
<1>10. QED BY <1>4, <1>5, <1>6, <1>7, <1>8, <1>9 DEF Next, ServerStep, vars

LEMMA GreetingsStep == IInv /\ [Next]_vars => GreetingsHold'
<1> SUFFICES ASSUME IInv, [Next]_vars, NEW d \in Clients
             PROVE  /\ priv'[d] => cli'[d] \in {"read", "close"}
                    /\ cli'[d] = "close" => msg'[d] # "none"
                    /\ msg'[d] # "none" => cli'[d] \in {"close"} \cup Gone
  BY DEF GreetingsHold
<1>1. /\ TypeOK
      /\ priv[d] => cli[d] \in {"read", "close"}
      /\ cli[d] = "close" => msg[d] # "none"
      /\ msg[d] # "none" => cli[d] \in {"close"} \cup Gone
  BY DEF IInv, GreetingsHold
<1>2. CASE Greet
  <2>1. cli' = cli /\ msg' = msg /\ cli[wfd] \in {"read", "close"} /\ wfd \in Clients
    BY <1>2 DEF Greet, Readers
  <2>2. priv' = [priv EXCEPT ![wfd] = TRUE]
    BY <1>2 DEF Greet
  <2>3. CASE d = wfd
    BY <1>1, <2>1, <2>3
  <2>4. CASE d # wfd
    BY <1>1, <2>1, <2>2, <2>4 DEF TypeOK
  <2>5. QED BY <2>3, <2>4
<1>3. CASE ServerStep \/ MakeFifo \/ KillServer
  <2>1. ~Greet => UNCHANGED <<cli, priv, msg>>
    BY <1>3 DEF ServerStep, OpenFifo, ReadName, ReadNoName, OpenClient, OpenClientFails,
              GreetFails, Leave, Crash, End, MakeFifo, KillServer
  <2>2. QED BY <1>1, <1>2, <2>1
<1>4. ASSUME NEW c \in Clients, OpenServer(c) \/ ClientStep(c) \/ Kill(c), c # d
      PROVE  cli'[d] = cli[d] /\ priv'[d] = priv[d] /\ msg'[d] = msg[d]
  BY <1>1, <1>4 DEF TypeOK, OpenServer, ClientStep, CreateOwn, SendName, SendNameFails,
            OpenOwn, ReadGreeting, ReadZeros, Finish, Kill, Quit, Move
<1>5. CASE OpenServer(d) \/ CreateOwn(d) \/ SendName(d) \/ SendNameFails(d) \/ OpenOwn(d)
  BY <1>1, <1>5 DEF TypeOK, OpenServer, CreateOwn, SendName, SendNameFails, OpenOwn, Move, Gone
<1>6. CASE ReadGreeting(d) \/ ReadZeros(d)
  BY <1>1, <1>6 DEF TypeOK, ReadGreeting, ReadZeros, Move
<1>7. CASE Finish(d) \/ Kill(d)
  BY <1>1, <1>7 DEF TypeOK, Finish, Kill, Quit, Move, Gone
<1>8. CASE UNCHANGED vars
  BY <1>1, <1>8 DEF vars
<1>9. QED BY <1>1, <1>3, <1>4, <1>5, <1>6, <1>7, <1>8 DEF Next, ClientStep

\* Who was served stays served.  Only a client that has not run opens a FIFO.
LEMMA ServedLasts ==
  ASSUME IInv, [Next]_vars, ~MakeFifo, NEW d \in Clients, Served(d)
  PROVE  Served(d)'
<1>1. /\ TypeOK /\ opened[d] = run
      /\ priv[d] \/ msg[d] # "none" \/ cli[d] = "killed"
      /\ priv[d] => cli[d] \in {"read", "close"}
      /\ cli[d] = "close" => msg[d] # "none"
      /\ msg[d] # "none" => cli[d] \in {"close"} \cup Gone
  BY DEF IInv, GreetingsHold, Served
<1>2. InRun(d)
  BY <1>1 DEF InRun, Gone
<1>3. opened'[d] = run'
  BY <1>1, <1>2, InRunLasts DEF InRun
<1>4. SUFFICES priv'[d] \/ msg'[d] # "none" \/ cli'[d] = "killed"
  BY <1>3 DEF Served
<1>5. CASE Greet
  BY <1>1, <1>5 DEF Greet, Readers, TypeOK
<1>6. CASE ServerStep \/ KillServer
  <2>1. ~Greet => UNCHANGED <<cli, priv, msg>>
    BY <1>6 DEF ServerStep, OpenFifo, ReadName, ReadNoName, OpenClient, OpenClientFails,
              GreetFails, Leave, Crash, End, KillServer
  <2>2. QED BY <1>1, <1>5, <2>1
<1>7. ASSUME NEW c \in Clients, OpenServer(c) \/ ClientStep(c) \/ Kill(c), c # d
      PROVE  cli'[d] = cli[d] /\ priv'[d] = priv[d] /\ msg'[d] = msg[d]
  BY <1>1, <1>7 DEF TypeOK, OpenServer, ClientStep, CreateOwn, SendName, SendNameFails,
            OpenOwn, ReadGreeting, ReadZeros, Finish, Kill, Quit, Move
<1>8. CASE OpenServer(d) \/ CreateOwn(d) \/ SendName(d) \/ SendNameFails(d) \/ OpenOwn(d)
  BY <1>1, <1>8 DEF TypeOK, OpenServer, CreateOwn, SendName, SendNameFails, OpenOwn, Move, Gone
<1>9. CASE ReadGreeting(d) \/ ReadZeros(d) \/ Finish(d) \/ Kill(d)
  BY <1>1, <1>9 DEF TypeOK, ReadGreeting, ReadZeros, Finish, Kill, Quit, Move, Gone
<1>10. CASE UNCHANGED vars
  BY <1>1, <1>10 DEF vars
<1>11. QED BY <1>1, <1>6, <1>7, <1>8, <1>9, <1>10 DEF Next, ClientStep

LEMMA SomebodyServedStep == IInv /\ [Next]_vars => SomebodyServed'
<1> SUFFICES ASSUME IInv, [Next]_vars PROVE SomebodyServed'
  OBVIOUS
<1>1. TypeOK /\ ServedIsOfRun /\ SomebodyServed
  BY DEF IInv
<1>2. CASE Greet
  <2>1. wfd \in Clients /\ opened[wfd] = run
    BY <1>1, <1>2 DEF Greet, ServedIsOfRun, InRun
  <2>2. priv'[wfd] /\ opened' = opened /\ run' = run
    BY <1>1, <1>2, <2>1 DEF Greet, TypeOK
  <2>3. \E c \in Clients : opened'[c] = run' /\ priv'[c]
    BY <2>1, <2>2
  <2>4. QED BY <2>3 DEF SomebodyServed, Served
<1>3. CASE MakeFifo
  BY <1>3 DEF MakeFifo, SomebodyServed
<1>4. CASE OpenFifo \/ ReadName \/ ReadNoName \/ OpenClient \/ OpenClientFails \/ GreetFails \/ KillServer
  BY <1>4 DEF OpenFifo, ReadName, ReadNoName, OpenClient, OpenClientFails, GreetFails,
            KillServer, Crash, End, SomebodyServed
<1>5. ASSUME ~MakeFifo, pc = "close" \/ pc = pc', run' = run PROVE SomebodyServed'
  <2>1. \A c \in Clients : Served(c) => Served(c)'
    BY <1>5, ServedLasts
  <2>2. QED BY <1>1, <1>5, <2>1 DEF SomebodyServed
<1>6. CASE Leave
  BY <1>5, <1>6 DEF Leave, End, MakeFifo, Running
<1>7. ASSUME UNCHANGED srvVars PROVE SomebodyServed'
  <2>1. ~MakeFifo /\ pc' = pc /\ run' = run
    BY <1>1, <1>7 DEF MakeFifo, srvVars, TypeOK
  <2>2. QED BY <1>5, <2>1
<1>8. \A c \in Clients : OpenServer(c) \/ ClientStep(c) \/ Kill(c) => UNCHANGED srvVars
  BY DEF OpenServer, ClientStep, CreateOwn, SendName, SendNameFails,
         OpenOwn, ReadGreeting, ReadZeros, Finish, Kill, Quit
<1>9. QED BY <1>2, <1>3, <1>4, <1>6, <1>7, <1>8 DEF Next, ServerStep, vars

-----------------------------------------------------------------------------
(***************************************************************************)
(* The theorems.                                                           *)
(***************************************************************************)

LEMMA IInvInit == Init => IInv
<1> SUFFICES ASSUME Init PROVE IInv
  OBVIOUS
<1>1. TypeOK
  <2>1. <<>> \in Seq(Clients) /\ 0 \in 0 .. MaxRuns
    BY SimpleFifoAssumption, EmptySeq
  <2>2. priv \in [Clients -> BOOLEAN] /\ pubName \in BOOLEAN
    BY DEF Init
  <2>3. QED BY <2>1, <2>2 DEF Init, TypeOK, SrvState, CliState
<1>2. NamesAreOfRun
  BY EmptySeq DEF Init, NamesAreOfRun
<1>3. ServedIsOfRun /\ GreetingsHold /\ SomebodyServed
  BY DEF Init, ServedIsOfRun, GreetingsHold, SomebodyServed
<1>4. QED BY <1>1, <1>2, <1>3 DEF IInv

\* The inductive invariant holds in every state, whoever is killed and
\* however often the server is started: no name reaches another server than
\* the one it was sent to, and who was greeted stays greeted.
THEOREM IInvHolds == Spec => []IInv
<1>1. IInv /\ [Next]_vars => IInv'
  BY TypeStep, NamesStep, ServedIsOfRunStep, GreetingsStep, SomebodyServedStep DEF IInv
<1>2. QED BY IInvInit, <1>1, PTL DEF Spec

\* The state of the simple FIFO server and of its clients has its types in
\* every state: the server's buffer and wfd are always a client's or empty.
THEOREM TypeCorrect == Spec => []TypeOK
<1>1. IInv => TypeOK
  BY DEF IInv
<1>2. QED BY IInvHolds, <1>1, PTL

\* A server that went through main() to its end greeted a client of that very
\* run: the client has read an answer, finds one in its FIFO, or was killed.
\* A server with nobody to greet crashes instead.
THEOREM OrderlyEnd == Spec => []OrderlyEndServed
<1>1. IInv => OrderlyEndServed
  BY DEF IInv, SomebodyServed, OrderlyEndServed, Of, Served
<1>2. QED BY IInvHolds, <1>1, PTL
=============================================================================
