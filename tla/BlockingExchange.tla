-------------------------- MODULE BlockingExchange --------------------------
(***************************************************************************)
(* Two programs that talk over one connection in blocking calls, each a    *)
(* straight line of them with no timeout: what one waits for is what the   *)
(* other does.  The matching pairs are                                     *)
(*                                                                         *)
(*   "line"  003_client/001_sync_tcp_client.cpp with the HandleClient of   *)
(*           004_server/001_sync_tcp_server.cpp;                           *)
(*   "tls"   006_ssl/sync_ssl_client.cpp with sync_ssl_service.cpp;        *)
(*   "eof"   002_io/007_shutdown_client.cpp with 008_shutdown_server.cpp,  *)
(*           where the end of the stream is the end of the message.        *)
(*                                                                         *)
(* The connection is there already.  TCP delivers in order and in parts of *)
(* any size; a process may be killed, and the connection may be reset.     *)
(***************************************************************************)
EXTENDS Naturals, SequencesExt

CONSTANTS
  Pairs,        \* the pairs of programs considered
  MessageLength \* parts in which a message may travel

ASSUME BlockingExchangeAssumption ==
  /\ Pairs \subseteq {"line", "tls", "eof"}
  /\ MessageLength \in Nat \ {0}

VARIABLES
  pair,     \* the programs of this behaviour; it never changes
  step,     \* the call each of them is at
  written,  \* parts of the present write that are out
  received, \* what each has read
  wire,     \* what is on its way to each
  eof,      \* behind that, has the other side ended its stream
  reset,    \* has the connection been reset
  result,   \* how each of them ended
  disturbed \* has a process been killed or the network reset (history)

connection == <<wire, eof, reset>>
vars == <<pair, step, written, received, connection, result, disturbed>>

Sides == {"client", "server"}
Peer(p) == IF p = "client" THEN "server" ELSE "client"
-----------------------------------------------------------------------------
(***************************************************************************)
(* The programs.                                                           *)
(***************************************************************************)
Message(p) == [i \in 1..MessageLength |-> IF i < MessageLength THEN p ELSE "eol"]

Call(name, data) == [name |-> name, data |-> data]
Write(data) == Call("write", data)
ReadUntil(delimiter) == Call("read_until", <<delimiter>>)
Read == Call("read", <<>>)
Shutdown == Call("shutdown", <<>>)

SyncTcpClient == <<Write(Message("client")), ReadUntil("eol"), Shutdown>>

HandleClient == <<ReadUntil("eol"), Write(Message("server"))>>

\* The handshake takes a message each way; shutdown(ec) sends close_notify, and
\* waits for the peer's.
SyncSSLClient ==
  <<Write(<<"hello">>), ReadUntil("hello"),
    Write(Message("client")), ReadUntil("eol"),
    Call("close_notify", <<>>), Call("await_notify", <<>>)>>

SyncSSLService == <<ReadUntil("hello"), Write(<<"hello">>)>> \o HandleClient

\* Mutant: the client does not end its stream before it reads.
CommunicateForgets == <<Write(Message("client")), Read>>

Communicate == <<Write(Message("client")), Shutdown, Read>>

ProcessRequest == <<Read, Write(Message("server")), Shutdown>>

Program(p) ==
  CASE pair = "line" -> IF p = "client" THEN SyncTcpClient ELSE HandleClient
    [] pair = "tls" -> IF p = "client" THEN SyncSSLClient ELSE SyncSSLService
    [] pair = "eof" -> IF p = "client" THEN Communicate ELSE ProcessRequest

\* All that p writes, by its program.
Stream(p) == (IF pair = "tls" THEN <<"hello">> ELSE <<>>) \o Message(p)

TypeOK ==
  /\ pair \in Pairs
  /\ \A p \in Sides :
       /\ step[p] \in 1..Len(Program(p)) + 1
       /\ written[p] \in 0..MessageLength
       /\ IsPrefix(received[p], Stream(Peer(p)))
       /\ wire[p] \in Seq({"client", "server", "eol", "hello", "notify"})
  /\ eof \in [Sides -> BOOLEAN]
  /\ reset \in BOOLEAN
  /\ result \in [Sides -> {"running", "done", "failed", "killed"}]
  /\ disturbed \in BOOLEAN

Init ==
  /\ pair \in Pairs
  /\ step = [p \in Sides |-> 1]
  /\ written = [p \in Sides |-> 0]
  /\ received = [p \in Sides |-> <<>>]
  /\ wire = [p \in Sides |-> <<>>]
  /\ eof = [p \in Sides |-> FALSE]
  /\ reset = FALSE
  /\ result = [p \in Sides |-> "running"]
  /\ disturbed = FALSE
-----------------------------------------------------------------------------
At(p, name) ==
  /\ result[p] = "running"
  /\ step[p] <= Len(Program(p))
  /\ Program(p)[step[p]].name = name

Data(p) == Program(p)[step[p]].data

Advance(p) == step' = [step EXCEPT ![p] = @ + 1]

\* A part goes out to a peer that still has its socket; one that has not
\* answers with a reset.
Puts(p, part) ==
  /\ IF result[Peer(p)] = "running" /\ ~reset
     THEN wire' = [wire EXCEPT ![Peer(p)] = Append(@, part)] /\ UNCHANGED reset
     ELSE reset' = TRUE /\ UNCHANGED wire
  /\ UNCHANGED eof

\* Mutant: what follows a partial transfer starts from the front again.
WriteSomeAgain(p) ==
  /\ At(p, "write")
  /\ Puts(p, Data(p)[1])
  /\ IF written[p] + 1 = Len(Data(p))
     THEN Advance(p) /\ written' = [written EXCEPT ![p] = 0]
     ELSE written' = [written EXCEPT ![p] = @ + 1] /\ UNCHANGED step
  /\ UNCHANGED <<pair, received, result, disturbed>>

WriteSome(p) ==
  /\ At(p, "write")
  /\ Puts(p, Data(p)[written[p] + 1])
  /\ IF written[p] + 1 = Len(Data(p))
     THEN Advance(p) /\ written' = [written EXCEPT ![p] = 0]
     ELSE written' = [written EXCEPT ![p] = @ + 1] /\ UNCHANGED step
  /\ UNCHANGED <<pair, received, result, disturbed>>

Takes(p) ==
  /\ wire[p] # <<>>
  /\ received' = [received EXCEPT ![p] = Append(@, Head(wire[p]))]
  /\ wire' = [wire EXCEPT ![p] = Tail(@)]
  /\ UNCHANGED <<pair, written, eof, reset, result, disturbed>>

\* Mutant: the call returns with the first bytes that come.
ReadUntilSome(p) ==
  /\ At(p, "read_until")
  /\ Takes(p)
  /\ Advance(p)

\* read_until goes on until the delimiter has come.
ReadUntilDelimiter(p) ==
  /\ At(p, "read_until")
  /\ Takes(p)
  /\ IF Head(wire[p]) = Data(p)[1] THEN Advance(p) ELSE UNCHANGED step

\* read() goes on until the stream ends, and eof is what its caller expects.
ReadMore(p) ==
  /\ At(p, "read")
  /\ Takes(p)
  /\ UNCHANGED step

\* Mutant: it ends when nothing more has arrived.
ReadAvailable(p) ==
  /\ At(p, "read")
  /\ wire[p] = <<>>
  /\ Advance(p)
  /\ UNCHANGED <<pair, written, received, connection, result, disturbed>>

ReadToEnd(p) ==
  /\ At(p, "read")
  /\ wire[p] = <<>>
  /\ eof[p]
  /\ ~reset
  /\ Advance(p)
  /\ UNCHANGED <<pair, written, received, connection, result, disturbed>>

\* shutdown_send, and shutdown_both of a client that will not read again.
ShutdownSend(p) ==
  /\ At(p, "shutdown")
  /\ eof' = [eof EXCEPT ![Peer(p)] = TRUE]
  /\ Advance(p)
  /\ UNCHANGED <<pair, written, received, wire, reset, result, disturbed>>

SendNotify(p) ==
  /\ At(p, "close_notify")
  /\ Puts(p, "notify")
  /\ Advance(p)
  /\ UNCHANGED <<pair, written, received, result, disturbed>>
-----------------------------------------------------------------------------
(***************************************************************************)
(* The socket closes with the program, or with the handling of the client: *)
(* the stream ends, or is reset if something was left unread.              *)
(***************************************************************************)
Closes(p, how) ==
  /\ result[p] = "running"
  /\ result' = [result EXCEPT ![p] = how]
  /\ eof' = [eof EXCEPT ![Peer(p)] = TRUE]
  /\ reset' = (reset \/ wire[p] # <<>>)
  /\ wire' = [wire EXCEPT ![p] = <<>>]
  /\ UNCHANGED <<pair, step, written, received>>

Finish(p) ==
  /\ step[p] > Len(Program(p))
  /\ Closes(p, "done")
  /\ UNCHANGED disturbed

\* A call throws: the connection is reset, or ends within what it reads.
Throw(p) ==
  /\ \E name \in {"write", "read_until", "read", "shutdown"} : At(p, name)
  /\ \/ reset
     \/ At(p, "read_until") /\ wire[p] = <<>> /\ eof[p]
  /\ Closes(p, "failed")
  /\ UNCHANGED disturbed

\* Mutant: shutdown() without an error code throws what the peer's end gives it.
AwaitNotifyThrows(p) ==
  /\ At(p, "await_notify")
  /\ eof[p] \/ reset
  /\ Closes(p, "failed")
  /\ UNCHANGED disturbed

\* No peer sends close_notify: the end of the stream is an error, and ignored.
AwaitNotify(p) ==
  /\ At(p, "await_notify")
  /\ eof[p] \/ reset
  /\ Advance(p)
  /\ UNCHANGED <<pair, written, received, connection, result, disturbed>>

\* The process is killed.
Kill(p) ==
  /\ Closes(p, "killed")
  /\ disturbed' = TRUE

Break ==
  /\ ~reset
  /\ reset' = TRUE
  /\ disturbed' = TRUE
  /\ UNCHANGED <<pair, step, written, received, wire, eof, result>>
-----------------------------------------------------------------------------
ProgramStep(p) ==
  \/ WriteSome(p)
  \/ ReadUntilDelimiter(p)
  \/ ReadMore(p)
  \/ ReadToEnd(p)
  \/ ShutdownSend(p)
  \/ SendNotify(p)
  \/ AwaitNotify(p)
  \/ Finish(p)
  \/ Throw(p)

Next ==
  \/ \E p \in Sides : ProgramStep(p) \/ Kill(p)
  \/ Break

Spec == Init /\ [][Next]_vars

\* A program that is not blocked goes on.
FairSpec == Spec /\ \A p \in Sides : WF_vars(ProgramStep(p))
-----------------------------------------------------------------------------
\* A program that ends well has all that the other one meant to send.  Only
\* where the end of the stream ends the message, and the other process was
\* killed, may it have a part of it.
MessageIsWhole ==
  \A p \in Sides :
    result[p] = "done" =>
      \/ received[p] = Stream(Peer(p))
      \/ pair = "eof" /\ result[Peer(p)] = "killed"

\* The server answers when it has the whole request, and not before.  Only the
\* client that is killed while it sends is answered for less.
ResponseFollowsRequest ==
  At("server", "write") /\ Data("server") = Message("server") =>
    \/ received["server"] = Stream("client")
    \/ pair = "eof" /\ result["client"] = "killed"

\* By their own doing, the two never fail: neither closes while the other still
\* needs the connection, or leaves something unread.
UndisturbedSucceeds == ~disturbed => \A p \in Sides : result[p] # "failed"

\* Nobody waits for ever, though there are no timeouts: not for one another, and
\* not for a process that is gone.
ExchangeEnds == <>(\A p \in Sides : result[p] # "running")
=============================================================================
