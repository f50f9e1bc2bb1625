# A TLA+ verification of cpp-boost-asio

The repository is a collection of network programs written with Boost.Asio: a
cancellable asynchronous TCP client, an asynchronous TCP server on a thread
pool, three synchronous servers, an HTTP client and an HTTP service, a TLS
client and server, and short examples of single facilities of the library. It
has no documentation and no tests; what a program means to do is said by its
code and by a few comments and messages.

This directory holds TLA+ modules that model those programs, TLC
configurations that check them on small instances, and proofs, checked by
TLAPS, of what is true of every one of those models for every value of their
constants: all invariants and action properties that the runs check, and the
refinements. What is left to TLC alone is liveness. `PROJECT.json` maps every
definition to the lines it stands for.

    tlc -workers 2 -config MCAsyncTcpClient_distinct.cfg MCAsyncTcpClient.tla
    tlapm AsyncTcpClientProofs.tla        # and the other *Proofs.tla

## 1. Inventory

### Asynchronous TCP client -- `003_client/003_async_tcp_client.cpp`

*State.* `m_active_sessions` (request id -> `Session`) under
`m_active_sessions_guard`; for each `Session` its socket, `m_was_cancelled`
under `m_cancel_guard`, and `m_ec`, `m_response`, `m_response_buf` under no
lock; `m_work`, the guard that keeps the io_service open; the pool.
*Operations.* `EmulateLongComputationOp` (create, register, `async_connect`),
`CancelRequest` (look up, mark, `cancel()` the socket), `Close` (give up
`m_work`, join), and the handlers of connect, write and read, which end in
`OnRequestComplete` (unregister, call back).
*Interaction.* Callers and workers share the map, the flag and the socket;
workers call the caller back from inside a handler.
*Hard.* A cancellation at any moment of the chain; two locks taken in opposite
orders; a flag read without its lock; handlers of one session on different
threads with no strand; ids that are used twice; `Close` racing everything.
*Correct when* a request ends once, its report is true, a cancellation takes
effect, `Close` returns after every request was called back, nobody deadlocks.

### Asynchronous TCP server -- `004_server/002_async_tcp_server.cpp`

*State.* The acceptor and its `m_is_stopped`, a self-deleting `Service` per
connection, the io_service's queue, the pool.
*Operations.* `OnAccept` (a `Service` for the connection, or an error message;
then the next accept or the end), `OnRequestReceived`, `OnResponseSent`,
`OnFinish` (`delete this`), `Server::Stop`.
*Hard.* Raw `this` in every handler of an object that deletes itself; an accept
chain that must not break on errors; a flag loaded in one step and used in a
later one; `m_ios.stop()` abandoning queued completions; a sleeping
`ProcessRequest` in every worker.
*Correct when* a `Service` is used by one handler at a time and never after it
is deleted, somebody always waits for the next client, `Stop` returns and lets
at most one late client in.

### HTTP client -- `005_http/http_request.*`, `http_client.*`, `main.cpp`

*State.* Per request the resolver, the socket, `m_was_cancelled` under
`m_cancel_mux`, the callback; per client `m_work` and one thread.
*Operations.* `Execute`, `Cancel`, six asynchronous operations (resolve,
connect, write, read status line, read headers, read body) and their handlers,
`IsCancelled`, `OnFinish`, `HttpClient::Close`.
*Hard.* The mutex is released between the check of the flag and the next
operation; the flag is not looked at by the last handler; `shutdown()` may throw
into a thread that catches nothing; the callback is called on success only; each
handler starts from what the one before it left in the stream buffer; the loop over
the header lines is left on an empty line only and never tests the stream, so that
an answer whose line breaks are shifted keeps the client's thread in it for ever.
*Correct when* a cancellation ends the request, every end is reported, `Close`
returns, and what is reported of a regular answer is what the server has sent.

### HTTP service -- `005_http/http_service.*`, `http_message.hpp`, `http_common.hpp`

*State.* Request line, headers and resource of one connection, response code.
*Operations.* A chain of reads, `ProcessRequest`, `SendResponse`, `OnFinish`.
Nothing in the repository instantiates it.
*Hard.* The parsing of a request line by three extractions, the table of status
lines, a `shutdown()` that may throw before `delete this`.
*Correct when* a GET is answered with its resource, every exchange ends, and the
`Service` with it.

### Buffer transfers -- `002_io/004*`, `005*`

*State.* A buffer and a count of bytes: `buf_offset`, `offset` of the loops,
`total_bytes_written`, `total_bytes_read` of the callback chains.
*Operations.* Write or read some bytes, add them up, go on behind them; or leave
all that to `asio::write`, `async_write`, `read`, `async_read`.
*Interaction.* A byte stream that may be cut anywhere and may end too early.
*Hard.* Off by one at the end of the buffer, a partial transfer counted or placed
wrongly, the end of the stream before the buffer is full.
*Correct when* the whole buffer is transferred, in order, or the transfer fails.

### Synchronous TCP and TLS servers -- `004_server/001*`, `006_ssl/ssl_*`, `006_ssl/sync_ssl_service.*`, `006_ssl/main.cpp`

*State.* `m_stop`, the listening socket, the accepting thread; in
`001-2` a detached thread and a leaked `Service` per client.
*Operations.* `Run` (listen, test, accept, handle), `HandleClient`, `Stop`; in
`006_ssl/main.cpp` the server runs in a thread of the process whose main thread
is its first client.
*Hard.* `Stop` joins a thread that sits in `accept()`; a silent client blocks
everybody; `listen()` and `accept()` throw where nothing catches; detached threads
outlive the server; the demo's client may connect before its server listens, and
leaves `main` with a joinable thread if anything goes wrong.
*Correct when* a client let in is served, one at most is let in after `Stop`,
and `Stop` waits for nothing but that client.

### Blocking clients and their servers -- `003_client/001*`, `004_server/001*`, `006_ssl/sync_ssl_*`, `002_io/007*`, `008*`

*State.* One connection, and in each program the call it is in.
*Operations.* Straight lines of blocking calls: write, read until a line break, read
to the end of the stream, shut down; in TLS a handshake before and a
`close_notify` after.
*Interaction.* Two processes, of which each waits for what the other does.
*Hard.* There are no timeouts; the end of the stream is an error for some calls,
the end of the message for others; a socket closed with bytes unread resets the
connection under the peer.
*Correct when* both get whole messages, the response answers the request, neither
fails by the other's regular behaviour and neither waits for ever.

### UDP client -- `003_client/002_sync_udp_client.cpp`

*State.* One unconnected socket, the endpoint of the last sender.
*Operations.* For each of two servers: send, receive, shut the socket down.
*Hard.* Datagrams are lost, repeated and late; the socket takes them from anybody;
it is shut down after the first response and used again.
*Correct when* both servers are asked, both responses are printed, and the client
waits for nothing but a lost datagram. (Whose datagram it takes for a response the
program does not ask.)

### The other programs

| component | state and operations | what could go wrong |
|---|---|---|
| cancelled connect (`002_io/006`) | one connect, one `cancel()` from another thread | nothing is made of the outcome |
| single facilities (`001_basic`, `002_io/001`-`003`) | none | - |

`PROJECT.json` lists, under `hazards`, what in this code is hard to test, each
at its line, with the properties that would catch it.

## 2. The modules

    CancellableRequest            what a client promises       RequestServer   what a server promises
        ^            ^                                           ^          ^
        | refines    | refines                                   | refines  | refines
    AsyncTcpClient   HttpRequest                      AsyncTcpServer    SyncServer

    WholeTransfer                 what the transfer of a buffer promises
        ^
        | refines, at both ends
    BufferTransfer

    HttpExchange                  HTTP client and service, over one connection
    BlockingExchange              each blocking client and its server, over one connection
    SyncUdpClient                 the UDP client, its two servers and the network

    <Module>Proofs.tla            the theorems about a module, and their proofs
    MC<Module>.tla + MC<Module>*.cfg    instances of each for TLC

| module | stands for |
|---|---|
| `CancellableRequest` | abstract: a request is begun once, may be cancelled until it finishes, finishes once, and never as a success once cancelled |
| `RequestServer` | abstract: a connection is taken once and answered or dropped once; after the order to stop one more is taken at most; a stopped server does nothing |
| `AsyncTcpClient` | `AsyncTCPClient` and `Session`: callers, workers, both locks, the io_service's count of work, the socket's operation |
| `AsyncTcpServer` | `Server`, `Acceptor`, `Service`, the pool and the queue of completions |
| `HttpRequest` | `HttpRequest` and `HttpClient` |
| `HttpExchange` | one connection between `HttpRequest` and `HttpService`, or another server: what each reads of the other's byte stream |
| `WholeTransfer` | abstract: a transfer never moves more than the buffer holds and is complete exactly when every byte was moved |
| `BufferTransfer` | a writing and a reading program of `002_io`, each a loop, a chain of callbacks or one call of the library |
| `SyncServer` | the three synchronous servers, with the threads and the end of their processes; `program` is chosen in the initial state |
| `BlockingExchange` | two programs in blocking calls on one connection; `pair` is chosen in the initial state |
| `SyncUdpClient` | the UDP client, two servers, and strangers that send to its port, over a network that loses, repeats and delays datagrams |

A definition whose comment begins with "Mutant:" is not part of a
specification: it is a plausible defect of the definition that follows it, kept
to show that a property notices it (`mutants` in `PROJECT.json`).

### AsyncTcpClient

`pc[t]` names the next lock acquisition of thread `t`, or its next access that
another thread can observe; the code between two of those is one action.

| code | actions |
|---|---|
| `EmulateLongComputationOp` | `Register` (lines 74-83, under the map's lock), `AsyncConnect` (85) |
| `CancelRequest` | `FindToCancel` (136-139), `MarkCancelled` (140-142; both locks are dropped at the end) |
| `Close` | `ResetWork`, `Join` |
| connect and write handlers | `OnConnectOrWrite` up to the cancel lock, `CheckCancelled` under it |
| read handler | `OnRead` |
| `OnRequestComplete` | `Unregister` (161-164), `Notify` (166-177 and the return from the handler, which drops the cancel lock if it is held) |
| `async_write`, `async_read_until` | `Transfer`, `Resume`: a composed operation goes through the queue between two partial transfers, and there `cancel()` does not reach it |
| the io_service | `StopIfIdle` in every step that finishes work, `Exit` of a worker |

The request id and the socket are data of a session, so `IdOf` is a constant.
The response is abstracted to its presence, errors to "aborted" and any other.

### AsyncTcpServer

`queue` is the io_service's queue of completions, first come first served;
`op[c]` and `accepting` are what the reactor holds. `Dispatch` takes the head of
the queue; a handler is then a few steps of the worker, split where the code
reads `m_is_stopped` and where it sleeps. `Server::Stop` is `SetStopped`,
`StopService`, `JoinPool`. `late` counts the Services created since the flag was
set: it is history, no guard reads it. Partial transfers are abstracted (there is
no cancellation that could fall between them); a transfer that fails for any
reason is one outcome.

### HttpRequest

`stage[r]` counts the operations begun, in the order of the chain; `phase[r]`
says whether the current one is in the reactor, queued, or its handler is in
the window between `IsCancelled()` and the next operation ("checking",
"checked"). The thread is one, so `handling` is one request or none; `Cancel`
may run at any moment, that is, in the window too. `cancelled_at` is history.
What a handler reads, parses and files is `HttpExchange`'s subject; here it goes
well, or a status line is invalid (`InvalidResponse`), or the loop of the headers'
handler never ends (`HeaderLoopSpins`): the request stays "spinning" and with it the client's one
thread.
A cancelled resolver may or may not be reached by `cancel()`: the choice is
nondeterministic, as the lookup runs in a thread of the library's. The eof that
ends a body counts as the success the code turns it into.

### SyncServer

One action per blocking call of the accepting thread: `Listen` (the constructor
of `Acceptor`), `TestStop`, `AcceptInline`, `AcceptDetached` or `AcceptTls`,
`Handled`. `HandlerMoves` is a step of `HandleClient` or the exception that ends
it; what is read and written is `BlockingExchange`'s subject. `ListenThrows` and
`AcceptThrows` end the process (`process = "terminated"`): nothing catches the
exception of the accepting thread. `SetStop` and `JoinThread` are `Stop`,
`MainReturns` the end of the program, which ends detached handlers with it.
In the TLS program one connection, `OwnClient`, is that of `main` itself:
`ClientConnects`, `ClientIsAnswered`, and `ClientThrows`, after which `main`
returns, destroys a joinable `std::thread` and so terminates the process. `late`
is history.

### BlockingExchange

A program is a sequence of calls, `SyncTcpClient`, `HandleClient`,
`SyncSSLClient`, `SyncSSLService`, `Communicate`, `ProcessRequest`, each named
after the code it stands for; `step[p]` is the call that side is in. A call is
blocked as long as none of its actions is enabled: `WriteSome` puts a part on
the wire, `ReadUntilDelimiter` and `ReadMore` take one off, `ReadToEnd` needs the
end of the stream. `Closes` is what the kernel makes of a socket that is closed:
an end of the stream behind what is on its way, or a reset if something was left
unread; a write to a closed socket is answered with a reset as well. `Throw` is an
exception of a call, `AwaitNotify` the TLS `shutdown(ec)` whose error is ignored,
since no peer ever sends its own `close_notify`. `Kill` and `Break` are the
process and the network that fail, recorded in `disturbed`. The asynchronous
client and server speak the protocol of the pair "line"; the only difference here
would be who waits.

### SyncUdpClient

`main` is the loop over the two servers; `ServerAnswers`, `StrangerSends`, `Repeat`
and `Lose` move copies in `net`, a bag of datagrams. `ReceiveResponse` takes one of
any sender and stores it in `ep`, as `receive_from` does, and `returned` says whose
datagram was taken for the response to each request. `MaxExtra` bounds the datagrams
nobody asked for: repeated ones and strangers' together. Whether `shutdown()` of a socket without a
peer throws depends on the system: `ShutdownSocket` and `ShutdownThrows` are both
possible.

### HttpExchange

The client of `HttpRequest` again, seen from its connection: cancellation is left
out, the bytes are put in. A stream is a sequence of tokens: the characters "cr"
and "lf", and texts without either. `ClientReceives` and `ServiceReceives` take any
number of them, so that a read may end right before a delimiter, between its
characters, or far behind it. `message_buf` and `request_buf` are the stream
buffers, `Awaited` the delimiter that the read under way waits for. A status line
is one text ("invalid": another version, or no number); a header line is a
sequence, and `HeaderTexts` gives what is in front of and behind the colon of the
texts that have one. `OnHeadersReceived` enters the loop, and each `HeaderRound` is
one round of it: `getline` up to a "cr", wherever that is, `get` of one character
more, and the line filed under its name, or under the one of the line before it.
`loop` holds the locals, `header` and `header_name`, and whether the stream is still
good; it is not tested, so a round on a stream that is not good finds the same
`header` again and ends only if that is empty. `LoopsForEver` is the state from
which it never does: a "cr" too many in a header line leads to it. `Regular` are
the answers without one, and `AreHeadersOf` says, without a loop, what should come
of their headers.
The request line is looked up in `Words` where the code extracts its
words: method, version into `m_requested_resource`, and an `http_version` that was
never read.
Other servers' answers are the constant `OtherReplies`; such a server may die in
the middle of one. On a connection that was reset `shutdown()` throws: the
client's program ends ("crashed"), the `Service` is not deleted ("leaked").

### BufferTransfer

| code | actions |
|---|---|
| `WriteToSocket` (004), `ReadFromSocket` (005): "loop" | `TestWritten`, `WriteSome`; `TestRead`, `ReadSome` |
| `callback` and its starter (004-2, 005-2): "chain" | `AsyncWriteSome`, `OnWritten`; `AsyncReadSome`, `OnRead` |
| the library's transfer (004, 004-3, 005, 005-3): "whole" | `Write`, `Read`, one step for each part |
| an exception, or a callback with an error | `WriteFails`, `ReadFails` |
| the end of `main`, the death of the process | `WriterExits`, `WriterDies` |

A byte is its place in the message, so that `DeliveredInOrder` can tell bytes
lost, doubled or exchanged. Both programs of the repository connect to port 3333;
what listens there is part of the connection.

## 3. The runs

| run | instance | question |
|---|---|---|
| `client_reused` | 2 callers, 2 workers, 2 sessions under one id, 2 cancels per id | Who may touch a session (`SessionOwnedOnce`), what a success means (`SuccessIsGenuine`), which operations a cancellation leaves running (`NoOperationBegunAfterCancel`), whether the flag may be read without its lock (`FlagReadAfterLastWrite`). What overwriting a map entry and erasing by id break: nothing but the reach of a cancellation (`UnreachableOnlyByIdReuse`). The lock cycle exists, and needs a second cancellation of the id (`LockCycleNeedsRecancel`). |
| `client_distinct` | the same, each session with its own id, 1 cancel per id | What `Close` waits for (`StopsOnlyWhenDrained`) and the refinement of `CancellableRequest`; does a cancellation take effect without the server's help, is every request called back, does `Close` return? |
| `server` | 2 workers, 3 connections, 1 failing accept | Ownership of the self-deleting Services, the unbroken accept chain, the refinement of `RequestServer`; is a completed connection served, and does `Stop` return? |
| `http` | 2 requests, 2 cancels each | How many operations may a cancellation miss (one), does the client stop only when drained, which cancellations rule a success out; does a cancellation end the request, does every request end, does `Close` return, unless the thread is lost? |
| `http_reported` | 2 requests, 1 cancel each | Is the user told of every end? No: see section 6. |
| `sync_servers` | the three programs, 3 connections, one of them the TLS program's own | The refinement of `RequestServer`; does the end of the program wait for more than a client (`StopWaitsForAClientOnly`), is anybody forgotten in the backlog (`ServedUnlessStopped`)? |
| `http_exchange` | 3 request lines, `HttpService` and 8 answers of other servers, 2 of them not regular | Are the code, the headers and the body that the client reports of a regular answer those the server has sent, is every one reported that can be read, does the exchange end unless the header loop runs off an irregular answer? |
| `http_get` | the same | Does `HttpService` support GET? No: see section 6. |
| `buffer_transfer` | a message of 5 bytes, a buffer of 4, 3 bytes under way | Do the loops and chains transfer what the library's operations do: in order, wholly or not at all, and to an end? |
| `blocking_exchange` | the three pairs, messages of 3 parts | Are messages whole (`MessageIsWhole`), is the response an answer to the whole request (`ResponseFollowsRequest`), do the two succeed if nobody disturbs them (`UndisturbedSucceeds`), does either ever wait for ever (`ExchangeEnds`)? |
| `udp_client` | 3 datagrams repeated or sent by strangers | Whatever arrives, does the second server ever get a request, the client a second response (no, `SecondServerIsNeverAsked`), and what but a lost datagram keeps it waiting? |
| `udp_both` | the same | Are two responses printed if nothing is lost? No: see section 6. |

*Type invariants* are proved (section 4), for all instances at once; TLC checks
those of `http_exchange` and `blocking_exchange` as well.

*Bounds.* Two callers and two workers are what the races need: a canceller
against a creator, against a worker, against another canceller, and two workers
in one session's handlers. Two sessions are needed for one to overwrite or erase
the other's map entry. A second cancel of an id is needed for the lock cycle (a
third adds nothing: the flag is set already), and is left out where liveness is
asked, since the cycle is a deadlock. One partial transfer (`MaxPieces`)
shows what a cancellation between two transfers does. Three connections on a
pool of two leave the server one more to do than it can, with an
accept queued behind sleeping workers. One failing accept may come at any
place in the chain. The answers of other servers have headers or none, one that
comes twice, lines without a colon in front and behind, a body
with a blank line in it or none, an invalid status line, and in two of them a "cr"
too many, behind which the lines are shifted: one in which the loop runs into the
body or off the buffer, by what has arrived, and one in which it finds an empty
line after all. A message longer
than the buffer fills it and leaves a byte over; a shorter one is what
`WriterDies` makes of it at any place. Three parts of a message have a first, a
last and a middle one, each a place to be killed at. Three datagrams that
nobody asked for are one more than there are requests.

*Deadlock* is not checked: the programs stop after `Close` or `Stop`, and the
lock cycle is a real deadlock, stated by `LockCycleNeedsRecancel`.

*Fairness.* A thread that is not blocked keeps running: weak fairness of each
worker, and of callers inside `AsyncConnect`, `MarkCancelled`, `Join`, `Stop`.
Nobody has to start, cancel or close anything. A TCP connect and a name lookup
end by themselves, since the kernel and the resolver give up; in `AsyncTcpClient` and
`HttpRequest` a read or a write has no such fairness, because a server may be silent for ever. What
depends on it is stated as an implication from `ServersAnswer`, while
`CancelTakesEffect` does without. Servers assume that each client goes on or
leaves (the code sets no timeout), that is, `TransferEnds` and `HandlerStep`.
In `HttpExchange` the other end does answer, or the connection is closed or
reset; its subject is what is made of the answer. In `BufferTransfer` the
connection moves what it can, and is reset in the end when the reader has gone
and the writer still writes, as the kernel does.
In `BlockingExchange` only the two programs are fair, each as far as it is not
blocked; nothing else helps an exchange to end. In `SyncUdpClient` the servers
answer what reaches them; nothing is ever lost, repeated or sent by a stranger of
necessity.
No fairness is assumed of new clients, which is why the synchronous servers'
`Stop` is only shown to wait for one.

*What `CancelTakesEffect` excludes.* In the TCP client a transfer that has
already moved part of its bytes: its continuation may have been queued when
`cancel()` ran, and no later check looks at the flag before the transfer ends.
In the HTTP client also the operation begun right after the check the cancellation
missed, a connect that goes on with the next endpoint, and a request whose client
has lost its thread, by the exception of a `shutdown()` or in the header loop.
All of these are real behaviours, reached by the model; the hazards that consist in
exactly them have no property in `PROJECT.json`, and a note that says so.

## 4. The proofs

`AsyncTcpClientProofs` proves, for every finite or infinite set of callers,
workers, sessions and ids, every map from sessions to ids and every bound
(`ClientAssumption` only: callers are not workers, `None` is neither a thread nor a session):

| theorem | states |
|---|---|
| `TypeCorrect` | `[]TypeOK` |
| `Ownership` | `[]SessionOwnedOnce` |
| `FlagIsStable` | `[]FlagReadAfterLastWrite` |
| `GenuineSuccess` | `[]SuccessIsGenuine` |
| `NothingBegunAfterCancel` | `[]NoOperationBegunAfterCancel` |
| `CycleNeedsRecancel`, `NoCycleWithoutRecancel` | `[]LockCycleNeedsRecancel`, and its consequence for programs that cancel an id once |
| `Reachability` | `[]UnreachableOnlyByIdReuse` |
| `CallbackIsFinal` | `CalledBackOnce` |
| `CloseDrains` | `StopsOnlyWhenDrained` |
| `Refinement` | `ImplementsCancellableRequest` |

*The argument.* None of the invariants is inductive alone. `IInv` adds
- `ThreadInv`: a thread refers to a session exactly while it is in the middle of it;
- `OwnerInv`: a pending session is in the hands of exactly one operation or one
  thread. This is what serialises the handlers, and everything rests on it;
- `MapInv`: a session in the map is pending and has not been unregistered, and a
  canceller works on an entry of the map under the map's lock. Hence no
  canceller is near a session whose worker is past `Unregister`, which makes the
  unlocked read of the flag safe and the reported result true;
- `GuardInv`: a cancel lock is held across steps only by a worker that is
  completing a cancelled session. Hence, in a lock cycle, the flag was set
  before the canceller arrived, by an earlier cancellation;
- `ResultInv`: a session on its way to the callback without an error has its
  response or was cancelled, and `calls` agrees with `outcome`;
- `CancelInv`: the flag is set only of cancelled ids, a canceller has been
  counted, and a stranded transfer has moved bytes.

Every action preserves `IInv` (a lemma each); `Invariance` joins them, and the
theorems follow from `IInv` or from one step that starts in it.

`BufferTransferProofs` proves, for every length of the message and of the buffer
and every capacity of the connection (`LengthAssumption`: all are positive), and
for every pair of programs:

| theorem | states |
|---|---|
| `TypeCorrect` | `[]TypeOK`: neither end runs over its buffer |
| `InOrder` | `[]DeliveredInOrder` |
| `Refinement` | `ImplementsWholeTransfer`, at both ends |

`DeliveredInOrder` speaks of the bytes the reader has counted. Between a read and
its callback there are more in the buffer than were counted, and what they are
depends on what the writer has put on the connection. `IInv` therefore adds
`WriterInv` (the stream is the message up to `written + wbytes`, and a count waits
in `wbytes` exactly while the callback is queued) and `ReaderInv` (the same of
`read + rbytes`, which is also what was taken off the stream, never more than was
put on it, and all of it is in its place). `PutsNext` and `GetsNext` say what the
connection's two moves do to these; all three programs share them.

`AsyncTcpServerProofs` proves, for every set of workers and connections and every
number of failing accepts (`ServerAssumption`: `None` is no connection), with a
queue of any length:

| theorem | states |
|---|---|
| `TypeCorrect` | `[]TypeOK`: in particular no response is sent twice |
| `Ownership` | `[]ServiceOwnedOnce` |
| `AcceptingGoesOn` | `[]AcceptChain` |
| `Refinement` | `ImplementsRequestServer` |

`ServiceOwnedOnce` and `AcceptChain` speak of places in the queue. `Places(K)`
generalises both to the completions of a set `K`; `DequeuedPlaces` and
`EnqueuedPlaces` say what a `Dispatch` and an `Enqueue` do to it, and no other
step touches the queue. `IInv` adds `WorkerInv` (who is inside a Service),
`WaitingInv` (a connection that waits has no Service and waits in one place, so
that an accept never begins a second Service for it), `ReplyInv` (once the
response is counted the Service has nothing left but its end) and `StopInv`: the
accept behind which `m_is_stopped` was set is the last one, for the worker that
handles it finds the flag; hence one late Service at most.

`SyncServerProofs` proves for every number of clients `TypeCorrect` (`[]TypeOK`)
and `Refinement` (`ImplementsRequestServer`), from how far the thread, `Stop` and
the process have come.

`HttpRequestProofs` proves, for every number of requests, Cancels and pieces
(`RequestAssumption`):

| theorem | states |
|---|---|
| `TypeCorrect` | `[]TypeOK`: in particular no callback is called twice |
| `CancelMissesOneAtMost` | `[]AtMostOneOperationAfterCancel` |
| `Drained` | `StopsOnlyWhenDrained` |
| `Refinement` | `ImplementsCancellableRequest` |

`IInv` adds `HandlingInv` (the one thread is inside the handler of the request
whose operation ended and whose next is not begun), a stronger `CancelInv` (one
operation was begun behind the Cancel only if no other is about to be) and
`CalledInv` (the callback comes with the body, the last of the chain). A Cancel that counts left
the request before its headers' handler; with one operation missed it has not
reached the body, so no success follows.

`SyncUdpClientProofs` proves, for every number of datagrams repeated or sent by
strangers, `TypeCorrect` and `SecondRequestNeverSent`
(`[]SecondServerIsNeverAsked`): the socket was shut down before `main` comes to its
second request, so it sends nothing to the second server, receives nothing for it
and never returns 0, whatever arrives in the meantime.

`BlockingExchangeProofs` proves, for every set of pairs and every length of a
message (`BlockingExchangeAssumption`: the pairs are known ones, a message has a
part):

| theorem | states |
|---|---|
| `TypeCorrect` | `[]TypeOK`: in particular what was received is a prefix of what the peer's program writes |
| `WholeMessages` | `[]MessageIsWhole` |
| `ResponsesFollow` | `[]ResponseFollowsRequest` |
| `Undisturbed` | `[]UndisturbedSucceeds` |
| `NeverStuck` | `[]SomebodyGoesOn`: while a program runs, one of the two is not blocked in a read |
| `Progress` | every step lowers `Left`, a natural number: no behaviour goes on for ever |

All four properties come down to one question: how much of a stream has gone out
when a program is at a given call. `Out(p)` and `Taken(p)` answer it as numbers, by
the places of the calls (`HelloWrite`, `MessageRead` and the rest), and `Parts(p)`
is everything p could ever write. `IInv` adds
- `WrittenInv`: only the write of a message is ever in the middle of its data;
- `StreamInv`: what p has received, and behind it what is on the wire to p, are the
  first parts of `Parts(Peer(p))`, and all `Out(Peer(p))` of them unless p is gone
  or the connection reset;
- `ReceivedInv`: a read that is behind p has all it waits for, except that a
  message which ends with the stream may be short when its writer was killed;
- `ClosedInv`: an end of a stream is seen exactly when its writer has shut down or
  is gone, who finishes has made all its calls, and only a reset, or an end in the
  middle of a line, makes a call fail;
- `QuietInv`: undisturbed, the only reset comes from the TLS client's
  `close_notify`, which finds the server done. The client ignores it.

`NeverStuck` and `Progress` are what can be proved of `ExchangeEnds`: if both
programs were blocked in a read, each would have received all that the other has put
out, and the places at which they can be blocked contradict that for each pair.
`Left` counts the calls to make, the parts to put out and to receive, the ends to
come and the reset. That a program which is not blocked has an enabled action, and
that fairness turns all this into termination, is `ENABLED` and liveness, and left
to TLC's check of `ExchangeEnds`.

`HttpExchangeProofs` proves, for every set of request lines and tokens and every set
of answers of other servers (`HttpExchangeAssumption`: an answer begins with a text,
and none has a text right behind a "cr"):

| theorem | states |
|---|---|
| `TypeCorrect` | `[]TypeOK` |
| `AnswerReported` | `[]ReportedAsSent` |
| `HeadersReported` | `[]HeadersAsSent` |
| `LoopMeetsNoEnd` | `[](LoopsForEver => ~Regular(sent))`: the safety part of `ExchangeEnds` |

`IInv` says where the client stands in the answer: `message_buf` and behind it
`to_client` are the whole of `sent` before the status line was taken off
(`WholeAnswer`), what is behind its first line after that (`BehindStatusLine`), and,
for a regular answer, the body once the headers are read (`BehindHeaders`). In the
loop (`InLoop`) there is a number n of places of the header section such that
`message_buf` and `to_client` are what is behind them, the stream is good, all the
rest of the section is in the buffer (`Stands`), and `headers` are those of the n
places in front (`HeadersTo`). The number is not bounded, so sections have any
length, and the induction over the rounds is the one over the behaviour.
`HeadersTo` is stronger than `AreHeadersOf`, for it also says which name the last
line with a colon had, the one whose value a line without a colon empties.

`StatusLineTaken`, `LoopBegins`, `LoopGoesOn`, `RoundTaken` and `LoopEnds` show that
each handler, and each round, moves from one place to the next. They rest on lemmas
about the delimiters: the first line break, or blank line, of a buffer is that of
the stream it begins (`Delimiters`: more bytes never move it), and in front of the
blank line of a regular answer every line is one text and its two break characters.
The first place of a delimiter exists by the well-foundedness of the naturals
(`LeastNumber`), as the library's induction theorems take an operator as a parameter
and cannot be used with the provers at hand.

That the loop comes to its last round is liveness, and left to TLC's check of
`ExchangeEnds`.

*Only model-checked:* liveness (every property with `~>` or `<>`), and what needs
`ENABLED`.

## 5. What is not modelled

- Contents of messages but for what `HttpExchange` and `BufferTransfer` tell
  apart, and what is printed. In particular a status line or request line is
  valid or not as a whole, and the status message is dropped. An answer in which a
  text comes right behind a "cr", so that `get` takes a letter off, is not among
  those that `HttpExchangeAssumption` admits, nor is a line without a "cr" anywhere
  in it a line of a regular one.
- `HttpService::OnHeadersReceived` and `ProcessRequest`
  (`005_http/http_service.cpp:83-131`): no request reaches them (section 6).
- `ReadFromSocketDelim` (`002_io/005_buffer_read.cpp:28`), which has no return
  statement: what its caller gets is undefined.
- The library's own threads and locks: an operation on one socket is atomic. In
  particular `cancel()` at line 142 of the TCP client overlapping `shutdown()` at
  line 158, which the library does not allow, has no defined effect to model.
- In the asynchronous programs, exceptions of `main`, construction and
  destruction: the models begin with the
  pool running, and end when `Close` or `Stop` has returned. What the destruction
  of a stopped server does to Services that still live is left out. (`SyncServer`
  has the start and the end of its processes.)
- A second `Execute` of an `HttpRequest`, which no program of the repository makes.
- `002_io/006_async_cancel.cpp`: one connect, one `cancel()`, and nothing is made
  of either; `AsyncTcpClient` has the same race with its consequences.
- TLS below the level of "a handshake takes a message each way": certificates,
  versions, records.
- The components marked `not_modelled`, with their reasons, in `PROJECT.json`.

## 6. Findings

`HttpRequest::OnFinish` (`005_http/http_request.cpp:182-189`) returns before
`m_callback` whenever the error code is set. The callback of `005_http/main.cpp`
has branches for those cases: line 12 prints "has been cancelled by the user."
for `operation_aborted`, line 16 prints " failed! Error Code: " for any other
error. They never run. `http_reported` finds a request that is finished and was
not called back.

`HttpService::OnRequestLineReceived` extracts the version into
`m_requested_resource` (`005_http/http_service.cpp:69`) and then compares
`request_http_version`, which is empty. Every GET request is answered 505 and
none is served, against the comment at line 60, "Only Support GET Method".
`http_get` finds the answer. (The table of status lines also has "431" for 413,
line 8; no text of the repository says otherwise.)

`SyncUdpClient::ReceiveResponse` shuts its socket down in both directions
(`003_client/002_sync_udp_client.cpp:36`) as soon as it has a response, and `main`
sends its second request over the same socket: `send_to()` throws, if
`shutdown()` has not done so already. Line 55 announces "Response #2: " as the
second result; `udp_both` shows that with no datagram lost it is not reached.

Other hazards are behaviours of the models and no disagreement with any text:

- an exception of the accepting thread ends the whole program, and in
  `006_ssl/main.cpp` any failure of the client (line 24 returns while `t` is
  joinable) does;
- the header loop of the HTTP client (`005_http/http_request.cpp:147-166`) goes round
  for ever when it runs off its buffer: `getline` then leaves `header` as it was, and
  only an empty one ends the loop. No other request of that client ends then, and
  `Close` does not return;
- the UDP client takes a stranger's datagram, or a late copy, for the response
  (`003_client/002_sync_udp_client.cpp:35` overwrites `ep` and never compares it).

## 7. Plan

1. Composition: the asynchronous client against the asynchronous server, with
   the fairness `ServersAnswer` assumes discharged by the server.
2. What `NeverStuck` and `Progress` do for the blocking pairs, for the programs
   with threads: in which states everybody is blocked, and what every step uses up.
3. The exceptions of the asynchronous client's `main`, and the destruction of the
   asynchronous server.
