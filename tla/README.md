# Unix-IPC in TLA+

The repository is a collection of small programs that talk over FIFOs and TCP
sockets: two FIFO server/client pairs, five TCP or UDP servers and clients
written straight on the system calls, and a C++ library (`socket/external/engine`)
with five example programs on top. This directory holds models of those
programs, the TLC configurations that check them, and proofs.

All paths below are relative to `src/`.

## 1. Inventory

| Part | State it keeps | Operations | Talks to |
|---|---|---|---|
| `socket/servers/multiplex_server` (select server) | `clients` (vector of descriptors), `allset`/`readset`, `maxfd`, `isRunning` | accept, handleRequest (read, close, stop, echo), updateMaxfd, CloseConnections | TCP clients |
| `socket/servers/multiplex_server_use_poll` (poll server) | `clients` (vector of `pollfd`, listener first), `nready`, `isRunning` | accept, handleRequest, CloseOpeningFileDescriptors | TCP clients |
| `socket/servers/simple_tcp_server` | `isRunServer` | accept one client, echo until it leaves | TCP clients |
| `socket/clients/tcp_client` | `isRunning`, `buff` | connect, write a line, read an answer, close | any TCP server |
| `fifo/echo_fifo_server_client` | server: `connections`; FIFOs: one public, one per client | Accept, CreateNewSession, SessionClose, ReadFrom, WriteTo | each other, through packages |
| `fifo/simple_fifo_server_client` | the two FIFOs | one name one way, one greeting back | each other |
| engine `TcpMultiplexAcceptor` | `clientPollFdSet_`, `tcpSessions_` | poll, call the handler of each ready session; sessions are never removed | handlers of the examples and of `TcpReceiver` |
| engine `TcpMultiThreadAcceptor` | `tcpSessions_` (threads) | accept, detach a thread per session | handler of the example |
| engine `TcpReceiver`, `TcpSender`, `TcpChannel` | `messages_` | collect until enough have come; send | the acceptor, `Socket` |
| engine `Buffer` family, `io_operation` | bytes, `size_`, `capacity_` | read, write, clear | `Socket` |
| engine `Socket`, `native_socket`, `TcpListener` | a descriptor shared by copies | bind, connect, accept, read, write, close | the kernel |
| engine `SocketAddressIpv4` | a `sockaddr_in`, a cached text | fellAddress, getAddressStr | `Socket` |
| engine `Result`, `ScopeGuard` | a value | none that changes shared state | |
| UDP server and client | none | one datagram | each other |

What is hard in them, and what makes them correct:

* **The multiplexing servers** are single threads whose every system call
  interleaves with every client. Readiness is asked once per round and used many
  calls later; a vector is erased from while it is walked; one table of sessions
  is kept twice or three times; a failing call ends the server for everybody.
  They are correct when the tables agree, when the thread blocks in `select()` or
  `poll()` and nowhere else, when every client gets its own lines back, and when
  nobody waits for ever.
* **The echo FIFO pair** multiplexes all clients through one FIFO and takes
  the next package of it for the next package of the client at hand. Reads
  are compared with a wrong error test, so a read can succeed without data.
  Descriptor 0 is confused with a session. Either process can die between any
  two calls, and the names of FIFOs survive. It is correct when the table of
  connections matches the open descriptors, when a client is greeted first, and
  when a client that has the server to itself gets its own message back.
* **The simple FIFO pair** opens everything without blocking, so each side may
  open, read or write before the other is ready. It is correct when a server that
  was sent a name ends, when an orderly end means that somebody was served, and when
  no client it opened waits for ever.
* **The engine's multiplex acceptor** appends to its two vectors from a handler that
  the loop over them calls, counts events it does not handle, and hides every
  error of `read()` and `write()` in a `size_t`. It is correct when the vectors stay
  parallel, when the early end of the loop loses nobody and when only what must
  end the server does.
* **`TcpReceiver`** runs on the same acceptor and takes whatever `read()` brought for
  a message. It is correct when no message is lost, repeated or made up, and when
  `receive()` returns.
* **The two servers that wait in `read()`**, one with a single thread and one with a
  thread per client, never see an error of `read()`, and the threads never see the
  end of a stream. A write to a client that is gone raises `SIGPIPE` under all
  sessions; no socket of a thread is ever closed. They are correct when only the
  clients that left can do harm, when nobody waits for anything but his turn, and
  when every client gets its own lines back.
* **The engine's acceptors** share descriptors between copies of `Socket` that
  never close them; sessions pile up.

The full list of hazards, each at its line and with the properties that cover it,
is in `PROJECT.json`.

## 2. Modules

| Module | Models | Built on |
|---|---|---|
| `TcpClients` | `tcp_client`'s `main()`, peers that pipeline lines, and loopback TCP as the servers' system calls see it | |
| `EchoService` | what an echo server promises (abstract) | |
| `SelectServer` | `multiplex_server/main.cpp` | `TcpClients`, refines `EchoService` |
| `PollServer` | `multiplex_server_use_poll/main.cpp` | `TcpClients`, refines `EchoService` |
| `EchoFifo` | both programs of `echo_fifo_server_client` | |
| `SimpleFifo` | both programs of `simple_fifo_server_client` | |
| `MultiplexAcceptor` | `TcpMultiplexAcceptor` with the handler of `examples/multiplex_server` or of `TcpReceiver` | `TcpClients`, refines `EchoService` |
| `BlockingServers` | `simple_tcp_server`, and `TcpMultiThreadAcceptor` with the handler of `examples/multithread_server` | `TcpClients`, refines `EchoService` |
| `SequenceFacts` | lemmas about vectors and FIFOs as sequences | |
| `TcpClientsProofs` | lemmas about clients and connections, for any server | `TcpClients`, `SequenceFacts` |
| `SelectServerProofs`, `PollServerProofs`, `MultiplexAcceptorProofs`, `BlockingServersProofs` | theorems about the module of that name | that module, `TcpClientsProofs` |
| `EchoFifoProofs` | theorems about `EchoFifo` | `EchoFifo`, `SequenceFacts` |
| `SimpleFifoProofs` | theorems about `SimpleFifo` | `SimpleFifo` |
| `MC...` | symmetry sets for TLC | |

### TcpClients

`cli` is where `main()` of each client is: `start`, `input` (waiting for the
user), `reading` (blocked in `read()`), `closing`, `done`. `line` is the line it
wrote last. The connection of a client with its server is two queues of lines
(`inbox`, `outbox`), what the server's end has seen of the client's (`peer`) and
the reverse (`end`). One action is one system call of the client, with the
kernel's answer: `Connect`, `SendLine`, `ReadReply`, `Close`, and so on. `Kill`
ends a client anywhere. `read()` takes everything that has arrived, because no
delimiter ends a line, so two lines can come back as one answer.

The kernel is modelled from what Linux does on loopback: a connection is
established while it waits in the accept queue; closing with unread data sends a
reset; the first write to a closed peer succeeds and brings a reset back
(`finwr`, then `finrst` by `ResetArrives`); the next one fails. A line is one
value: only its being `"stop\r\n"` matters to any server. Short writes, and lines
longer than the buffer, are left out.

`tcp_client` writes its address over `sin_family` (line 24), so that most
addresses make `connect()` fail. Such a run is a client that never starts.

### SelectServer and PollServer

The variables carry the names of the code: `clients`, `allset`, `readset`,
`maxfd`, `isRunning`, `i`, `buff`; `owner` is the kernel's descriptor table and
`pc` stands at the next system call. Straight-line code between two system calls
is part of the action of the first, since no client can see it. So
`ReadEof` is the whole of that branch: `erase`, `close`, `FD_CLR` and
`updateMaxfd`, followed by the increment of the loop. `Die` is `exit(-1)` in
`errorHandler()` or `SIGPIPE`.

Two kinds of undefined behaviour are modelled by what the build does:

* `updateMaxfd()` on an empty vector reads through `end()`. The storage of the
  vector is still there and the first slot holds the erased element, so `maxfd`
  becomes the number of the session just closed (`MaxfdAfterErase`).
* `revents` of a new `pollfd` is uninitialized in `PollServer`: `Accept` chooses
  any of no event, `POLLRDNORM` alone, or something else.

### EchoFifo

A package is one write and one read of 1024 bytes, so a FIFO is a sequence of
packages; a package is its type and its sender. `fd_` is never serialized and is 0
on arrival, which is why `AcceptMessage` finds one of the zeros `connections` was
built with. `ReadFrom()` on a client's `O_NONBLOCK` FIFO has three outcomes: a
package; an empty buffer when the FIFO has a writer and no data (`EmptyRead`, the
`-1` that a `size_t` hides); or it sleeps and tries again when there is no writer,
which is no step at all. Processes in `Mortal` may be killed anywhere. The name of the
public FIFO goes with an orderly end only (`Leave`): after one the server may be
started again, over clients of its earlier run, but after a crash or a kill
`mkfifo()` throws, and nothing in the repository removes the name, so that no
other run follows (`pubName` in `StartServer`). `SimpleFifo` has the same rule. The capacity of a
FIFO (64 packages) is never reached by clients that send three.

### SimpleFifo

A name is one write of 1024 bytes and the greeting is another, so the server's FIFO
is a sequence of names and a client's FIFO holds a greeting or nothing (`priv`).
Both programs have the same `ReadFrom()`, with the same three outcomes as above:
`ReadName`/`ReadNoName`, `ReadGreeting`/`ReadZeros`, or sleeping. `opened` is the run
of the server whose FIFO a client has open, so that a client of one run cannot be
taken for a writer of the next. `Leave` merges `unlink()` and both `close()` calls: whoever
opens between them is refused or writes to a FIFO nobody will read, as after all three.

### MultiplexAcceptor

`clientPollFdSet`, `tcpSessions`, `readyCount` and `i` are those of the code; `handler` is
the argument of the constructor, chosen in `Init`. Calling a session is `Accept` for
the first entry, the handler of the listening socket, and for the others `Handle` and
then `Read` and `Write`, or `Receive`. The echo handler looks at no
result: after an end of stream it writes its zeroed buffer (`buffer` empty), which
provokes a reset; `WriteUnnoticed` is the `ECONNRESET` nobody sees, `WriteKills` the
`SIGPIPE` of the next write. The zeros an answer is filled up with to 1024 bytes
are not modelled; because of them two answers would not come back to an eager peer in
one `read()`, which no property looks at. `Init` is the state after the acceptor has been moved out of
`MakeTcpMultiplexAcceptor()`, whose listening session accepts into the new vectors
because the move constructor installs a new handler.

With the handler of `TcpReceiver` the loop is that of `receive()`, which looks at
the number of `messages` after each round. `Destroy` is the end of `tcp_receiver`'s
`main()`: the destructor of the acceptor, the one place of the engine that closes
sockets. Its peers are runs of `tcp_client`, which wait for an answer that never comes
until the receiver ends, and of `tcp_sender`, which connect, send twice 0 bytes and close.

### BlockingServers

`program` is chosen in `Init` and never changes. The two share what they share in the
code, `io_operation::ReadFrom()` and `WriteTo()`, and the peers. `at[c]` is where the
thread that serves `c` is: before `read()`, before `write()`, or `over`, which is the
return of `handleConnect()` before `close()` in the one program and the end of the
thread, its socket open for good, in the other. `buff[c]` is the buffer of that
thread, empty for 1024 zeros. The main thread of the simple server (`pc`) is in
`serve` while a session runs; that of the other accepts at any moment.

What the kernel does to a connection that was reset is modelled with care, because it
decides who survives: the error is reported once, to `read()` or to `write()`
(`Reported`), and nobody looks; from then on `read()` returns 0 and `write()` raises
`SIGPIPE` (`WriteKills`), which ends the process and every session in it. `accept()`
asks for a descriptor before it waits, so the threads' server ends as soon as its
table is full, not with the next client.

## 3. What the runs check

| Run | Instance | Shows |
|---|---|---|
| `select_server` | 3 patient clients, 2 descriptors for sessions, accept queue of 2 | the tables agree, `select()` covers every session |
| `select_eager` | 1 patient client and 1 that pipelines up to 2 lines, fair | with resets and failed writes: nothing but `select()` blocks, an answer never fails, `EchoService` is implemented; `EveryReadReturns`, `StopEndsServer` |
| `select_prints` | 1 client | **violated**: `tcp_client` prints its own line as the server's data after an end of stream |
| `poll_server` | as `select_server` | the table is right, and nothing is open once it was closed |
| `poll_eager` | as `select_eager` | with resets: the one way to block outside `poll()`, patient clients cannot kill the server, `EchoService` is implemented; liveness, unless a newcomer blocks the server |
| `echo_fifo` | 4 clients, 1 of which and the server may be killed, 2 runs of the server | table of connections, greeting first; a crash is caused by the departure of the client at hand, or in a session on descriptor 0 that is no client's |
| `echo_fifo_lone` | 2 clients in 2 runs, one per run, fair | own message or nothing comes back; the goodbye ends the server; the client ends, or is stranded for good by a server that was killed or read a wrong name |
| `echo_fifo_private` | 2 clients | **violated**: a "private session" carries another client's package |
| `echo_fifo_read_from` | 2 clients | **violated**: `ReadFrom()` returns without data although its comment says it waits |
| `simple_fifo` | 3 clients, 1 of which and the server may be killed, 2 runs, fair | an orderly end served somebody, a server that was sent a name ends; a client it opened ends, or reads for ever because the server was killed and no other one can start |
| `multiplex_acceptor` | both handlers; 2 patient clients and 1 that pipelines, 2 descriptors for sessions, fair | parallel vectors, no blocking outside `poll()`, what ends the server, `EveryReadReturns`; the echo handler implements `EchoService`; `receive()` gets what was written, or the ends of streams of those that left, of whom one is enough to make it return |
| `blocking_servers` | both programs; 2 patient clients and 1 that pipelines, fair | only a write to a client that left, after its reset has come, can end the server, or a full table of descriptors; a client waits for another one's silence in the simple server only; no thread serves a client that left for ever; both implement `EchoService` |

**Bounds.** Three clients are the least with one session erased, one skipped
because of it and one arriving in the same round, and with two descriptors for
three clients `accept()` can fail. `Backlog` is 1 instead of 10 so that a
full accept queue happens (Linux keeps one more than that). `MaxUnread` bounds
how many lines an eager peer has under way: two, the least with which lines merge
and a reset meets unread data. `LastFd` stands for the descriptor limit. In
`EchoFifo`, `Prealloc` stands for 1024 and need only exceed the number of times
descriptor 0 can be closed; `MaxRuns` bounds how often a server is started after an orderly end, two being the least with
a client of one run in the next; with fewer than four clients descriptor 0
is never closed twice. `multiplex_acceptor` has one text only, which no server
looks at there, and an accept queue of one; `Expected` is 2 instead of 5, the least
with a message that is not the last one. In it and in `blocking_servers` `MaxUnread` is 1:
an eager peer can still have two lines unread, one written behind the server's back
and one written after the answer to an earlier one. `MaxSessions` is 3, so that two
threads can serve for ever and three fill the table of descriptors. `CHECK_DEADLOCK FALSE` everywhere: all these
programs end, and a server with no client left to come waits for ever.

**Fairness.** `FairSpec` assumes that the server process is scheduled (weak
fairness of its next system call: while it blocks none is enabled) and that
a client which has something to read, or has finished, goes on; the kernel delivers a
reset. In `BlockingServers` each thread is scheduled on its own. Nothing is assumed of
users: they need not type, connect or leave.
Some waits are for ever, and the properties say which: in `LoneClientEnds` and
`OpenedClientEnds` a client that does not end is in a state it never leaves again
(`[]Stranded(c)` in the first), and only a server that was killed, or a name read back
wrong, brings it there. That a `ConectionClose` read by `Accept()` ends the echo
server although other clients wait is behaviour of the model (`AcceptOther`) that
no property covers: `CloseEndsServer` has one client for each run.

**Refinement.** `EchoService` has no descriptors, rounds or readiness: a client
asks, its lines are dealt with in order in batches, and it is cut off only when
the service ends. `ImplementsEchoService` maps what was read and not yet written
back together with what has arrived (`InService(c) \o inbox[c]`) to the lines
asked, so a line lost, duplicated, reordered or sent to another client
is a step the abstract service does not have. `MultiplexAcceptor` instantiates it
with a `StopLine` nobody can type: it never stops. So does the threads' program of
`BlockingServers`, where a stop is a line like any other and ends the thread that
answered it.

### What the runs found

`PROJECT.json` lists the disagreements between the code and its comments or messages that
a run exhibits. Further ones the models contain as behaviour: the poll server
never closes a session that was reset, and then spins (`POLLERR` makes `revents`
differ from `POLLRDNORM`); it can block on a newcomer; the echo FIFO server ends
with its first client and may close its own standard input; with the threads' server
every client that leaves without an answered stop ends the process, a moment later and
under all the others (`NoSessionOutlivesItsClient` holds because of it); a client
killed with an answer unread does the same to the simple server; one client that
leaves makes `receive()` return with its empty messages, whoever else wants to write.

## 4. What is proved

Every type invariant, every safety invariant, every action property and every
refinement of the runs that pass is also a theorem, proved for every number of
clients, descriptors, lines, sessions and runs, with eager peers and with processes that
die at any moment. The assumptions are those the modules state of their constants
(`ClientsAssumption`, `FdAssumption`, `SessionsAssumption`, `EchoFifoAssumption`,
`SimpleFifoAssumption`), which TLC evaluates in each run.

| Module | `Spec` implies |
|---|---|
| `SelectServerProofs` | `TypeOK`, `SessionTablesAgree`, `SelectCoversEverySession`, `NeverBlocksOutsideSelect`, `AnswerNeverFails`, `ImplementsEchoService` |
| `PollServerProofs` | `TypeOK`, `PollsEverySession`, `BlocksOnNewcomerOnly`, `OnlyEagerPeersKill`, `ImplementsEchoService` |
| `MultiplexAcceptorProofs` | `TypeOK`, `VectorsRunInParallel`, `NeverBlocksOutsidePoll`, `MessagesAreGenuine`, `OnlyLateResetsKill`, `ImplementsEchoService` |
| `BlockingServersProofs` | `TypeOK`, `OnlyLeaversKill`, `ImplementsEchoService` |
| `EchoFifoProofs` | `TypeOK`, `SessionsAreConnections`, `GreetedFirst`, `SessionsAreFound`, `DescriptorForNewcomer`; `CrashNeedsDeparture` if `Unsafe = {}`; with one client for each run (`LoneSpec`) `LoneSessionIsItsOwn` and `PrivateSession` |
| `SimpleFifoProofs` | `TypeOK`, `OrderlyEndServed` |

Few of these are inductive. Each module proves an invariant `IInv` that is
(`IInvHolds`), by one lemma per conjunct with one case per action; `TypeOK` is
always a conjunct of it, and the theorems follow from it. TLC checked each `IInv`
as an invariant before it was proved, on instances of the size of the runs' or
larger: 310,525 states for `BlockingServers`, 1,777,856 for `PollServer`, 670,307
for `MultiplexAcceptor`, 35,217 for `SimpleFifo`, 2,477,746 for `EchoFifo`, and
15,457 for the `LoneInv` of `EchoFifo`. No configuration of these is kept.

### The TCP servers

`TcpClientsProofs` holds what the four proofs share, about clients and
connections whatever the server:

* `Connected(sessions)`: a client is queued once or has one session, and only
  after it connected. Without it `accept()` could give one client two sessions.
* `Answerable(c)`: a `read()` from `c` returns, with data or the end of the stream.
  `Unanswered(c)`: nothing was written to `c` yet, so that no reset can have come.
  Clients only ever add to what can be read (`ClientKeepsReadable`), except by a
  reset that destroys unread data.
* `Waiting(c, h)`: a client that waits for each answer has one line under way at
  most, `h` being what the server holds of it. This decides who may be written to.
* `ClientServes` and `CallsServe`: what each step of a client and each system call
  of a server does to the lines under way. The refinement of each server is put
  together from them.

`SequenceFacts` says what `erase()` does to a vector, what reading and answering do
to the lines under way, and what the first element of a FIFO is. What each server
adds to these:

* `SelectServer`: `MaxfdCovers` (the bound holds between any two calls, not only at
  `select()`, which needs the argument about the element `updateMaxfd()` reads
  past the end) and `ReportHolds`: what `select()` reported is still true of the
  listener until `accept()` and of the sessions from index `i` on. The server
  takes from the readiness of the session at `i` alone, and `erase()` moves
  sessions to lower indices, never one that was read to a higher one. That no two
  descriptors belong to one client keeps serving one session from
  spending another's readiness.
* `PollServer`: the same, but for one entry: `EntryHolds` asks of the session
  accepted in this round, whose `revents` is whatever was in memory, only that
  nothing was written to it. From there `BlocksOnNewcomerOnly` is exact:
  the case it leaves is the one `ReportHolds` does not exclude. A line is
  written only after it was read, and a session that was reset is never read, so
  `Waiting` gives `OnlyEagerPeersKill`.
* `MultiplexAcceptor`: the listening socket stands in the vector like any session,
  and `Accept` appends behind the loop. `AtSession` ties the handler to the entry that
  was reported, and an answer of zeros to a client that closed in order. For the
  receiver, `NeverAnswered` (nobody leaves by a reset) and `MessageHolds` (the
  sender of a message will not write another line) give `MessagesAreGenuine`.
* `BlockingServers`: nothing is reported, and what has to be known is how a session
  can get to a failing `write()`. `NothingRead` says that an empty
  buffer means nothing is under way, `HasWritten` that whoever left an
  answer unread has written a line, `StopEndsThread` that the line of a client whose
  last word was a stop is before the thread that will end of it.

`Implements` (four times) proves that each initial state is one of `EchoService`, and
that each step maps to a step of it or a stutter: the lines asked are
`InService(c) \o inbox[c]`, so a step that reads moves lines from one half to the
other and is a stutter, and a step that writes is `Answer`. A step
that ends the server, or closes a connection of one that has ended, is `End` of the clients
it cuts off. Both programs of `BlockingServers` and both handlers of
`MultiplexAcceptor` are covered (the receiver is not an echo server; the
property speaks of the other handler).

### The FIFO programs

`EchoFifo`'s `SessionsAreConnections` rests on two facts that are easily
lost. `AsksOnce`: a client whose `NewConnection` is still in the FIFO
has no session, and no second one in the FIFO, so `Accept()` never opens a client
twice. `ZeroIsFound`: `connections` always holds one 0 more than descriptor 0 needs, so
`SessionClose(0)`, which erases a zero, cannot run the vector out of them.
`GreetingFirst` follows the server between `open()` and the first
`write()`, while packages of others arrive. The remaining conjuncts say who may be
in the public FIFO and which descriptors can be open.

* `FindSucceeds` shows that both calls of `find()` always find something. For a
  `Message` in `Accept()` it is one of the zeros the vector was built with, whoever
  sent it, which is how a session comes to serve descriptor 0. The branch in
  `SessionClose()` that says that no such session exists (`server.cpp:218`) is never
  taken, and the model leaves it out.
* `DescriptorsSuffice` is about the model: with `Fds` as large as it is, `open()`
  of a newcomer finds a free descriptor, so the bound takes no behaviour away. The
  proof is by the pigeonhole principle on `owner`.
* `CrashesNeedDeparture` names the client: the sender of the package `Accept()` has
  read, or the one behind the descriptor that is written to. `SessionIsOpen` gives
  that there is one, except in a session on descriptor 0. It has the hypothesis `Unsafe = {}`, as in the run `echo_fifo`:
  a name that comes back wrong from the over-read of `deserialize()` makes `open()`
  fail, and the server crashes of it with everybody still there.
* The last part is the conversation of one client with one run. `LoneInv` adds that the
  server hears and answers the client of its own run only (`OnlyItsClient`), that
  descriptor 0 stays a terminal (`StdinStays`), and in which state each of the two can be
  for each state of the other (`LoneQueue`, `InStep`, `LonePrivate`). From it follow that
  the client prints its own message or nothing, and that its session is private: the
  property that `echo_fifo_private` shows violated as soon as there are two.

`SimpleFifo` needs that a name in a server's FIFO, and the greeting that answers
it, belong to the run that is there (`NamesAreOfRun`, `ServedIsOfRun`,
`GreetingsHold`); `SomebodyServed` then carries a witness of `OrderlyEndServed` from the
`write()` of the greeting through the steps of that client and of the others.

### What the proofs changed, and what they do not cover

`MessagesAreGenuine` was not true of every instance: the run has one
text and a receiver that expects few messages, but with two texts a client whose
receiver died may go on to write another line, and the messages of the dead process
no longer match it. The property now speaks of a process that is alive. No other
invariant had to be changed.

Only model-checked: liveness (`EveryReadReturns`, `StopEndsServer`, `OrderlyLeaveIsNoticed`,
`ReceiveReturns`, `NoSessionOutlivesItsClient`, `LoneClientEnds`, `CloseEndsServer`,
`NameEndsServer`, `OpenedClientEnds`), which under fairness is out of the prover's reach; and
the three runs that show a violation, whose counterexamples need no proof. No
module uses a `RECURSIVE` operator, so none is cut off from the prover.

## 5. What is not modelled

* `SocketAddressIpv4`: `inet_pton()` writes the address over the family and the port
  (the same mistake as in `tcp_client`), so that most addresses make `connect()` fail;
  the text of an address is cached once for all addresses. Both are functions of one
  call, and only output depends on the second.
* `TcpReceiver::setSenderCount()` and `MakeChannel()`: templates nobody instantiates,
  which would not compile if somebody did.
* The engine's `simple_tcp_client`: it writes 0 bytes and waits for an answer. To a
  server it is a client that stays silent until it is killed.
* Memory errors: `FD_SET` above `FD_SETSIZE`, a full 1024-byte read without a
  terminator, the over-read in `Package::deserialize()` except that a name may come
  back wrong (`Unsafe`).
* `Result`, `ScopeGuard`, the UDP pair: no state that more than one step sees.
* `engine/buffers/buffer.cpp` does not compile as it stands (lines 42 to 50: a
  parameter named `data` hides the member function). Models of code that needs it
  will read those lines with the parameter renamed.

## 6. Plan

1. The same question as `DescriptorsSuffice` for the TCP servers: when `accept()`
   can fail for want of descriptors, and that it cannot with as many descriptors as
   clients.
2. Safety facts the liveness properties rest on, as theorems: that a server which
   waits has nothing to do, and that a client which waits for a server that has ended
   has been told.
3. That an orderly end of each TCP server leaves no descriptor open, and
   what its last clients see.
4. Shorter proofs where two servers still repeat an argument of `TcpClientsProofs`.
