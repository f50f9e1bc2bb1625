--------------------------- MODULE AsyncTcpServer ---------------------------
(***************************************************************************)
(* The asynchronous server of src/004_server/002_async_tcp_server.cpp: a   *)
(* pool of threads inside io_service::run() executes the handlers of one   *)
(* Acceptor, which always has the next accept outstanding, and of the      *)
(* Services it creates, one per connection, which read a request, answer   *)
(* it and delete themselves.  Another thread runs Server::Stop().          *)
(*                                                                         *)
(* Nothing but the chain of asynchronous operations serialises the         *)
(* handlers of a Service, or those of the Acceptor.                        *)
(***************************************************************************)
EXTENDS Naturals, Sequences

CONSTANTS
  Workers,         \* threads of m_thread_pool, each inside m_ios.run()
  Connections,     \* connections that clients may open
  MaxAcceptErrors, \* bound: accepts that fail
  None

ASSUME ServerAssumption ==
  /\ None \notin Connections
  /\ MaxAcceptErrors \in Nat

VARIABLES
  pc,            \* what each worker does next
  conn,          \* the connection whose Service the worker is inside, or None
  queue,         \* completions queued in m_ios, served first come first served
  backlog,       \* connections completed by the kernel and not yet accepted
  accepting,     \* is an accept outstanding in the reactor
  listening,     \* m_acceptor is open
  accept_errors, \* accepts that failed so far (for the bound)
  service,       \* the Service of each connection: "none", "live", "deleted"
  op,            \* the operation the reactor holds for the Service
  replies,       \* responses sent completely on each connection
  is_stopped,    \* m_is_stopped
  ios_stopped,   \* was m_ios.stop() called
  late,          \* Services created since m_is_stopped was set (history)
  stopper        \* how far Server::Stop has come

vars == <<pc, conn, queue, backlog, accepting, listening, accept_errors, service,
          op, replies, is_stopped, ios_stopped, late, stopper>>

worker    == <<pc, conn>>
acceptor  == <<backlog, accepting, listening, accept_errors>>
services  == <<service, op, replies>>
stop_vars == <<is_stopped, ios_stopped, stopper>>
-----------------------------------------------------------------------------
\* The completions the reactor can queue; an accept that fails has no connection.
Completions ==
  [kind : {"accept", "read", "write"}, conn : Connections \cup {None}, ok : BOOLEAN]

TypeOK ==
  /\ pc \in [Workers -> {"idle", "check", "init", "close", "process", "finish", "exited"}]
  /\ conn \in [Workers -> Connections \cup {None}]
  /\ queue \in Seq(Completions)
  /\ backlog \subseteq Connections
  /\ accepting \in BOOLEAN
  /\ listening \in BOOLEAN
  /\ accept_errors \in 0..MaxAcceptErrors
  /\ service \in [Connections -> {"none", "live", "deleted"}]
  /\ op \in [Connections -> {"none", "read", "write"}]
  /\ replies \in [Connections -> 0..1]
  /\ is_stopped \in BOOLEAN
  /\ ios_stopped \in BOOLEAN
  /\ late \in Nat
  /\ stopper \in {"idle", "flagged", "joining", "returned"}

\* The server as Start leaves it: listening, the first accept initiated, the
\* pool running.
Init ==
  /\ pc = [w \in Workers |-> "idle"]
  /\ conn = [w \in Workers |-> None]
  /\ queue = <<>>
  /\ backlog = {}
  /\ accepting = TRUE
  /\ listening = TRUE
  /\ accept_errors = 0
  /\ service = [c \in Connections |-> "none"]
  /\ op = [c \in Connections |-> "none"]
  /\ replies = [c \in Connections |-> 0]
  /\ is_stopped = FALSE
  /\ ios_stopped = FALSE
  /\ late = 0
  /\ stopper = "idle"

GoTo(w, label, c) ==
  /\ pc' = [pc EXCEPT ![w] = label]
  /\ conn' = [conn EXCEPT ![w] = c]

Enqueue(kind, c, ok) ==
  queue' = Append(queue, [kind |-> kind, conn |-> c, ok |-> ok])

\* An idle worker of a running io_service takes the first completion.
Dispatch(w, kind) ==
  /\ pc[w] = "idle"
  /\ ~ios_stopped
  /\ queue # <<>>
  /\ Head(queue).kind = kind
  /\ queue' = Tail(queue)
-----------------------------------------------------------------------------
(***************************************************************************)
(* The Acceptor.                                                           *)
(***************************************************************************)

\* Mutant: an accept that failed is not followed by another.
OnAcceptGivesUp(w) ==
  /\ Dispatch(w, "accept")
  /\ ~Head(queue).ok
  /\ UNCHANGED <<worker, acceptor, services, stop_vars, late>>

\* A new Service starts reading at once.
StartHandling(c) ==
  /\ service' = [service EXCEPT ![c] = "live"]
  /\ op' = [op EXCEPT ![c] = "read"]

\* OnAccept: a new connection gets a Service, an error is only reported.
OnAccept(w) ==
  LET done == Head(queue)
  IN  /\ Dispatch(w, "accept")
      /\ GoTo(w, "check", None)
      /\ \/ /\ done.ok
            /\ StartHandling(done.conn)
            /\ late' = IF is_stopped THEN late + 1 ELSE late
         \/ ~done.ok /\ UNCHANGED <<service, op, late>>
      /\ UNCHANGED <<acceptor, replies, stop_vars>>

\* ... and then looks at m_is_stopped,
CheckStopped(w) ==
  /\ pc[w] = "check"
  /\ GoTo(w, IF is_stopped THEN "close" ELSE "init", None)
  /\ UNCHANGED <<queue, acceptor, services, stop_vars, late>>

\* ... to initiate the next accept
InitAccept(w) ==
  /\ pc[w] = "init"
  /\ accepting' = TRUE
  /\ GoTo(w, "idle", None)
  /\ UNCHANGED <<queue, backlog, listening, accept_errors, services, stop_vars, late>>

\* ... or to close the listening socket.
CloseAcceptor(w) ==
  /\ pc[w] = "close"
  /\ listening' = FALSE
  /\ backlog' = {}
  /\ GoTo(w, "idle", None)
  /\ UNCHANGED <<queue, accepting, accept_errors, services, stop_vars, late>>
-----------------------------------------------------------------------------
(***************************************************************************)
(* The Services.                                                           *)
(***************************************************************************)

\* Mutant: no return after OnFinish, the request is processed all the same.
OnRequestReceivedGoesOn(w) ==
  LET done == Head(queue)
  IN  /\ Dispatch(w, "read")
      /\ service' = [service EXCEPT ![done.conn] = IF done.ok THEN @ ELSE "deleted"]
      /\ GoTo(w, "process", done.conn)
      /\ UNCHANGED <<acceptor, op, replies, stop_vars, late>>

\* OnRequestReceived: an error ends the Service, a request is processed.
OnRequestReceived(w) ==
  /\ Dispatch(w, "read")
  /\ GoTo(w, IF Head(queue).ok THEN "process" ELSE "finish", Head(queue).conn)
  /\ UNCHANGED <<acceptor, services, stop_vars, late>>

\* ProcessRequest blocks the worker; then the response is handed over.
ProcessRequest(w) ==
  /\ pc[w] = "process"
  /\ op' = [op EXCEPT ![conn[w]] = "write"]
  /\ GoTo(w, "idle", None)
  /\ UNCHANGED <<queue, acceptor, service, replies, stop_vars, late>>

\* OnResponseSent ends the Service, whether the response was sent or not.
OnResponseSent(w) ==
  LET done == Head(queue)
  IN  /\ Dispatch(w, "write")
      /\ GoTo(w, "finish", done.conn)
      /\ replies' = [replies EXCEPT ![done.conn] = IF done.ok THEN @ + 1 ELSE @]
      /\ UNCHANGED <<acceptor, service, op, stop_vars, late>>

\* OnFinish: delete this, which closes the connection.
OnFinish(w) ==
  /\ pc[w] = "finish"
  /\ service' = [service EXCEPT ![conn[w]] = "deleted"]
  /\ GoTo(w, "idle", None)
  /\ UNCHANGED <<queue, acceptor, op, replies, stop_vars, late>>

\* run() returns once the io_service is stopped.
Exit(w) ==
  /\ pc[w] = "idle"
  /\ ios_stopped
  /\ GoTo(w, "exited", None)
  /\ UNCHANGED <<queue, acceptor, services, stop_vars, late>>
-----------------------------------------------------------------------------
(***************************************************************************)
(* Server::Stop.                                                           *)
(***************************************************************************)

SetStopped ==
  /\ stopper = "idle"
  /\ is_stopped' = TRUE
  /\ stopper' = "flagged"
  /\ UNCHANGED <<worker, queue, acceptor, services, ios_stopped, late>>

\* Mutant: the io_service is left running.
StopServiceForgotten ==
  /\ stopper = "flagged"
  /\ stopper' = "joining"
  /\ UNCHANGED <<worker, queue, acceptor, services, is_stopped, ios_stopped, late>>

\* m_ios.stop() abandons the completions in the queue and in the reactor.
StopService ==
  /\ stopper = "flagged"
  /\ ios_stopped' = TRUE
  /\ stopper' = "joining"
  /\ UNCHANGED <<worker, queue, acceptor, services, is_stopped, late>>

\* Mutant: Stop returns without waiting for the pool.
ReturnAtOnce ==
  /\ stopper = "joining"
  /\ stopper' = "returned"
  /\ UNCHANGED <<worker, queue, acceptor, services, is_stopped, ios_stopped, late>>

JoinPool ==
  /\ stopper = "joining"
  /\ \A w \in Workers : pc[w] = "exited"
  /\ stopper' = "returned"
  /\ UNCHANGED <<worker, queue, acceptor, services, is_stopped, ios_stopped, late>>
-----------------------------------------------------------------------------
(***************************************************************************)
(* The clients and the kernel, seen through the reactor.  Nobody polls the *)
(* reactor of a stopped io_service.                                        *)
(***************************************************************************)

\* A client connects.
Connect(c) ==
  /\ listening
  /\ service[c] = "none"
  /\ c \notin backlog
  /\ \A k \in DOMAIN queue : queue[k].conn # c
  /\ backlog' = backlog \cup {c}
  /\ UNCHANGED <<worker, queue, accepting, listening, accept_errors, services,
                 stop_vars, late>>

\* The outstanding accept takes a connection from the backlog.
AcceptReady(c) ==
  /\ ~ios_stopped
  /\ accepting
  /\ c \in backlog
  /\ accepting' = FALSE
  /\ backlog' = backlog \ {c}
  /\ Enqueue("accept", c, TRUE)
  /\ UNCHANGED <<worker, listening, accept_errors, services, stop_vars, late>>

\* The outstanding accept fails, for want of a file descriptor, say.
AcceptFailed ==
  /\ ~ios_stopped
  /\ accepting
  /\ accept_errors < MaxAcceptErrors
  /\ accepting' = FALSE
  /\ accept_errors' = accept_errors + 1
  /\ Enqueue("accept", None, FALSE)
  /\ UNCHANGED <<worker, backlog, listening, services, stop_vars, late>>

\* The read or the write of a Service ends, well or not.
TransferEnds(c) ==
  /\ ~ios_stopped
  /\ op[c] # "none"
  /\ op' = [op EXCEPT ![c] = "none"]
  /\ \E ok \in BOOLEAN : Enqueue(op[c], c, ok)
  /\ UNCHANGED <<worker, acceptor, service, replies, stop_vars, late>>
-----------------------------------------------------------------------------
WorkerStep(w) ==
  \/ OnAccept(w)
  \/ CheckStopped(w)
  \/ InitAccept(w)
  \/ CloseAcceptor(w)
  \/ OnRequestReceived(w)
  \/ ProcessRequest(w)
  \/ OnResponseSent(w)
  \/ OnFinish(w)
  \/ Exit(w)

StopStep == SetStopped \/ StopService \/ JoinPool

NetworkStep ==
  \/ AcceptFailed
  \/ \E c \in Connections : Connect(c) \/ AcceptReady(c) \/ TransferEnds(c)

Next ==
  \/ \E w \in Workers : WorkerStep(w)
  \/ StopStep
  \/ NetworkStep

Spec == Init /\ [][Next]_vars

(***************************************************************************)
(* A thread that is not blocked keeps running, and Stop, once called, too; *)
(* the kernel hands out connections that wait; every client sends its      *)
(* request and reads the response, or its connection breaks.               *)
(***************************************************************************)
LiveSpec ==
  /\ Spec
  /\ \A w \in Workers : WF_vars(WorkerStep(w))
  /\ WF_vars(StopService \/ JoinPool)
  /\ \A c \in Connections : WF_vars(AcceptReady(c)) /\ WF_vars(TransferEnds(c))
-----------------------------------------------------------------------------
(***************************************************************************)
(* Safety.                                                                 *)
(***************************************************************************)

Queued(c) == {k \in DOMAIN queue : queue[k].kind # "accept" /\ queue[k].conn = c}
Inside(c) == {w \in Workers : conn[w] = c}

\* A Service deletes itself, and every handler is bound to a raw `this`: a live
\* Service has one operation in the reactor, one queued completion or one
\* worker inside it, never two of them, and nothing refers to a deleted one.
ServiceOwnedOnce ==
  \A c \in Connections :
    /\ service[c] = "live" <=>
         (op[c] # "none" \/ Queued(c) # {} \/ Inside(c) # {})
    /\ \A k, l \in Queued(c) : k = l
    /\ \A v, w \in Inside(c) : v = w
    /\ op[c] # "none" => Queued(c) = {} /\ Inside(c) = {}
    /\ Queued(c) # {} => Inside(c) = {}

\* The Acceptor has one accept in the reactor, one queued or one worker inside
\* its handler, whatever fails, until it closes the listening socket; and it
\* does that only when it was told to stop.
InAcceptor == {w \in Workers : pc[w] \in {"check", "init", "close"}}
QueuedAccepts == {k \in DOMAIN queue : queue[k].kind = "accept"}

AcceptChain ==
  /\ listening <=> (accepting \/ QueuedAccepts # {} \/ InAcceptor # {})
  /\ \A k, l \in QueuedAccepts : k = l
  /\ \A v, w \in InAcceptor : v = w
  /\ accepting => QueuedAccepts = {} /\ InAcceptor = {}
  /\ QueuedAccepts # {} => InAcceptor = {}
  /\ ~listening => is_stopped

(***************************************************************************)
(* The server implements RequestServer.                                    *)
(***************************************************************************)
ConnectionStatus(c) ==
  CASE service[c] = "none" -> "waiting"
    [] service[c] = "live" -> "serving"
    [] service[c] = "deleted" /\ replies[c] = 1 -> "answered"
    [] service[c] = "deleted" /\ replies[c] = 0 -> "dropped"

ServerMode ==
  CASE stopper = "returned" -> "stopped"
    [] stopper # "returned" /\ ~is_stopped -> "running"
    [] stopper # "returned" /\ is_stopped /\ late = 0 -> "stopping"
    [] stopper # "returned" /\ is_stopped /\ late > 0 -> "draining"

Promise == INSTANCE RequestServer
             WITH status <- [c \in Connections |-> ConnectionStatus(c)],
                  mode <- ServerMode

ImplementsRequestServer == Promise!Spec
-----------------------------------------------------------------------------
(***************************************************************************)
(* Liveness, under LiveSpec.                                               *)
(***************************************************************************)

\* A connection the kernel completed is served to the end, however many accepts
\* fail and however few workers there are, unless the server is stopped.
ServedUnlessStopped ==
  \A c \in Connections :
    c \in backlog ~> (service[c] = "deleted" \/ is_stopped)

\* Stop returns whatever the clients do.
StopReturns == stopper = "flagged" ~> stopper = "returned"
=============================================================================
