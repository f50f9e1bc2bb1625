---------------------------- MODULE HttpRequest ----------------------------
(***************************************************************************)
(* The HTTP client of src/005_http: HttpRequest goes through six           *)
(* asynchronous operations, from async_resolve to the async_read of the    *)
(* body, and its handlers are run by the one thread of its HttpClient.     *)
(* Any thread may call Cancel() at any time, and one calls Close().        *)
(*                                                                         *)
(* IsCancelled() checks the flag under m_cancel_mux and releases it; the   *)
(* next operation is begun afterwards, with no lock.  OnFinish() calls the *)
(* callback on success only.                                               *)
(***************************************************************************)
EXTENDS Naturals

CONSTANTS
  Requests,    \* the HttpRequests created by the client
  MaxCancels,  \* bound: calls of Cancel on each request
  MaxPieces,   \* bound: further endpoints to connect to, or partial transfers
  None

ASSUME RequestAssumption ==
  /\ None \notin Requests
  /\ MaxCancels \in Nat
  /\ MaxPieces \in Nat

VARIABLES
  stage,         \* operations of the request begun so far
  phase,         \* where the request is
  pieces,        \* intermediate completions of its present operation
  handling,      \* the request whose handler the client's thread is in, or None
  was_cancelled, \* m_was_cancelled of each request
  cancelled_at,  \* its stage at the first Cancel (history)
  cancels,       \* calls of Cancel (for the bound)
  called,        \* calls of m_callback
  work,          \* does m_work still hold the io_service open
  stopped,       \* has the io_service run out of work and stopped
  client,        \* the caller of HttpClient::Close
  crashed        \* did an exception leave the client's thread

vars == <<stage, phase, pieces, handling, was_cancelled, cancelled_at, cancels,
          called, work, stopped, client, crashed>>

cancel_vars == <<was_cancelled, cancelled_at, cancels>>
service     == <<work, stopped, client>>
-----------------------------------------------------------------------------
\* The operations, in the order they are begun.
Resolve == 1
Connect == 2
Write   == 3
Status  == 4
Headers == 5
Body    == 6

Queued == {"ok", "error", "aborted"}        \* a completion is queued
InFlight == {"reactor", "partial"} \cup Queued

TypeOK ==
  /\ stage \in [Requests -> 0..Body]
  /\ phase \in [Requests -> {"idle", "checking", "checked", "spinning", "finished"} \cup InFlight]
  /\ pieces \in [Requests -> 0..MaxPieces]
  /\ handling \in Requests \cup {None}
  /\ was_cancelled \in [Requests -> BOOLEAN]
  /\ cancelled_at \in [Requests -> 0..Body]
  /\ cancels \in [Requests -> 0..MaxCancels]
  /\ called \in [Requests -> 0..1]
  /\ work \in BOOLEAN
  /\ stopped \in BOOLEAN
  /\ client \in {"open", "join", "closed"}
  /\ crashed \in BOOLEAN

Init ==
  /\ stage = [r \in Requests |-> 0]
  /\ phase = [r \in Requests |-> "idle"]
  /\ pieces = [r \in Requests |-> 0]
  /\ handling = None
  /\ was_cancelled = [r \in Requests |-> FALSE]
  /\ cancelled_at = [r \in Requests |-> 0]
  /\ cancels = [r \in Requests |-> 0]
  /\ called = [r \in Requests |-> 0]
  /\ work = TRUE
  /\ stopped = FALSE
  /\ client = "open"
  /\ crashed = FALSE

Goto(r, p) == phase' = [phase EXCEPT ![r] = p]

\* The next operation is handed to the reactor.
BeginOp(r) ==
  /\ stage' = [stage EXCEPT ![r] = @ + 1]
  /\ pieces' = [pieces EXCEPT ![r] = 0]
  /\ Goto(r, "reactor")

\* The io_service counts m_work, the operations and the running handler.
StopIfIdle ==
  stopped' = (stopped \/ ~(\/ work'
                           \/ handling' # None
                           \/ \E r \in Requests : phase'[r] \in InFlight))
-----------------------------------------------------------------------------
(***************************************************************************)
(* The callers.                                                            *)
(***************************************************************************)

\* Execute, which throws before this if an argument is missing, and leaves the
\* request idle, checks the flag; a cancelled request ends there.
Execute(r) ==
  /\ ~crashed
  /\ phase[r] = "idle"
  /\ Goto(r, IF was_cancelled[r] THEN "finished" ELSE "checked")
  /\ UNCHANGED <<stage, pieces, handling, cancel_vars, called, service, crashed>>

\* ... and, without the mutex, begins the resolution.
AsyncResolve(r) ==
  /\ ~crashed
  /\ phase[r] = "checked"
  /\ stage[r] = 0
  /\ BeginOp(r)
  /\ UNCHANGED <<handling, cancel_vars, called, service, crashed>>

\* Mutant: only the flag is set.
NothingAborted(r) == UNCHANGED phase

\* What m_resolver.cancel() and m_sock.cancel() do to an operation the reactor
\* holds: a resolution may have gone too far, a connect goes on to the next
\* endpoint if there is one, any other is aborted.
AbortOperation(r) ==
  \/ /\ phase[r] = "reactor"
     /\ IF stage[r] = Connect /\ pieces[r] < MaxPieces
        THEN Goto(r, "partial") \/ Goto(r, "aborted")
        ELSE Goto(r, "aborted")
  \/ /\ phase[r] # "reactor" \/ stage[r] = Resolve
     /\ UNCHANGED phase

Cancel(r) ==
  /\ ~crashed
  /\ cancels[r] < MaxCancels
  /\ cancels' = [cancels EXCEPT ![r] = @ + 1]
  /\ was_cancelled' = [was_cancelled EXCEPT ![r] = TRUE]
  /\ cancelled_at' =
       [cancelled_at EXCEPT ![r] = IF was_cancelled[r] THEN @ ELSE stage[r]]
  /\ AbortOperation(r)
  /\ pieces' = [pieces EXCEPT ![r] = IF phase'[r] = "partial" /\ phase[r] = "reactor"
                                     THEN @ + 1 ELSE @]
  /\ UNCHANGED <<stage, handling, called, service, crashed>>

\* Mutant: the io_service is stopped outright.
ResetWorkAndStop ==
  /\ ~crashed
  /\ client = "open"
  /\ client' = "join"
  /\ work' = FALSE
  /\ stopped' = TRUE
  /\ UNCHANGED <<stage, phase, pieces, handling, cancel_vars, called, crashed>>

\* Mutant: the thread is joined with the work guard still in place.
JoinAtOnce ==
  /\ ~crashed
  /\ client = "open"
  /\ client' = "join"
  /\ UNCHANGED <<stage, phase, pieces, handling, cancel_vars, called, work, stopped,
                 crashed>>

\* Close gives the work guard up and joins the thread.
ResetWork ==
  /\ ~crashed
  /\ client = "open"
  /\ client' = "join"
  /\ work' = FALSE
  /\ UNCHANGED <<stage, phase, pieces, handling, cancel_vars, called, crashed>>
  /\ StopIfIdle

Join ==
  /\ ~crashed
  /\ client = "join"
  /\ stopped
  /\ client' = "closed"
  /\ UNCHANGED <<stage, phase, pieces, handling, cancel_vars, called, work, stopped,
                 crashed>>
-----------------------------------------------------------------------------
(***************************************************************************)
(* The client's thread.                                                    *)
(***************************************************************************)

\* The thread is free to take the completion of r.
Free == ~crashed /\ ~stopped /\ handling = None

\* OnError: the request ends, and its callback is not called.
OnError(r) ==
  /\ Free
  /\ phase[r] \in {"error", "aborted"}
  /\ Goto(r, "finished")
  /\ UNCHANGED <<stage, pieces, handling, cancel_vars, called, work, client, crashed>>
  /\ StopIfIdle

\* A handler other than the last goes on to IsCancelled.
OnCompletion(r) ==
  /\ Free
  /\ phase[r] = "ok"
  /\ stage[r] # Body
  /\ handling' = r
  /\ Goto(r, "checking")
  /\ UNCHANGED <<stage, pieces, cancel_vars, called, service, crashed>>

\* OnResponseBodyReceived, with eof, calls the callback: it does not look at
\* the flag.
OnResponseBodyReceived(r) ==
  /\ Free
  /\ phase[r] = "ok"
  /\ stage[r] = Body
  /\ Goto(r, "finished")
  /\ called' = [called EXCEPT ![r] = @ + 1]
  /\ UNCHANGED <<stage, pieces, handling, cancel_vars, work, client, crashed>>
  /\ StopIfIdle

\* Mutant: the handler does not ask.
NotAsked ==
  /\ ~crashed
  /\ handling # None
  /\ phase[handling] = "checking"
  /\ Goto(handling, "checked")
  /\ UNCHANGED <<stage, pieces, handling, cancel_vars, called, service, crashed>>

\* IsCancelled: the flag is read under m_cancel_mux, which is then released;
\* OnFinish of a cancelled request does nothing.
IsCancelled ==
  /\ ~crashed
  /\ handling # None
  /\ phase[handling] = "checking"
  /\ \/ /\ was_cancelled[handling]
        /\ Goto(handling, "finished")
        /\ handling' = None
     \/ /\ ~was_cancelled[handling]
        /\ Goto(handling, "checked")
        /\ UNCHANGED handling
  /\ UNCHANGED <<stage, pieces, cancel_vars, called, work, client, crashed>>
  /\ StopIfIdle

\* Mutant: the headers' handler ends with no read of the body.
BeginNextForgets ==
  /\ ~crashed
  /\ handling # None
  /\ phase[handling] = "checked"
  /\ \/ stage[handling] # Headers /\ BeginOp(handling)
     \/ stage[handling] = Headers /\ UNCHANGED <<stage, pieces, phase>>
  /\ handling' = None
  /\ UNCHANGED <<cancel_vars, called, service, crashed>>

\* The handler begins the next operation, and returns.
BeginNext ==
  /\ ~crashed
  /\ handling # None
  /\ phase[handling] = "checked"
  /\ BeginOp(handling)
  /\ handling' = None
  /\ UNCHANGED <<cancel_vars, called, service, crashed>>

\* OnStatusLineReceived gives a malformed status line up.
InvalidResponse ==
  /\ ~crashed
  /\ handling # None
  /\ phase[handling] = "checked"
  /\ stage[handling] = Status
  /\ Goto(handling, "finished")
  /\ handling' = None
  /\ UNCHANGED <<stage, pieces, cancel_vars, called, work, client, crashed>>
  /\ StopIfIdle

\* OnHeadersReceived's loop ends with an empty line only.  In an answer whose lines
\* it takes wrongly (see HttpExchange) it meets none: the thread stays in it.
HeaderLoopSpins ==
  /\ ~crashed
  /\ handling # None
  /\ phase[handling] = "checked"
  /\ stage[handling] = Headers
  /\ Goto(handling, "spinning")
  /\ UNCHANGED <<stage, pieces, handling, cancel_vars, called, service, crashed>>

\* m_sock.shutdown(shutdown_send) of a connection the server has reset throws:
\* nothing catches the exception in the client's thread, the program ends.
ShutdownThrows ==
  /\ ~crashed
  /\ handling # None
  /\ phase[handling] = "checked"
  /\ stage[handling] = Write
  /\ crashed' = TRUE
  /\ UNCHANGED <<stage, phase, pieces, handling, cancel_vars, called, service>>

\* A composed operation goes on: the next endpoint, or the rest of the bytes.
Resume(r) ==
  /\ Free
  /\ phase[r] = "partial"
  /\ Goto(r, "reactor")
  /\ UNCHANGED <<stage, pieces, handling, cancel_vars, called, service, crashed>>
-----------------------------------------------------------------------------
(***************************************************************************)
(* The resolver and the network.                                           *)
(***************************************************************************)

OperationEnds(r) ==
  /\ ~crashed
  /\ ~stopped
  /\ phase[r] = "reactor"
  /\ Goto(r, "ok") \/ Goto(r, "error")
  /\ UNCHANGED <<stage, pieces, handling, cancel_vars, called, service, crashed>>

Transfer(r) ==
  /\ ~crashed
  /\ ~stopped
  /\ phase[r] = "reactor"
  /\ stage[r] # Resolve
  /\ pieces[r] < MaxPieces
  /\ Goto(r, "partial")
  /\ pieces' = [pieces EXCEPT ![r] = @ + 1]
  /\ UNCHANGED <<stage, handling, cancel_vars, called, service, crashed>>
-----------------------------------------------------------------------------
ThreadStep ==
  \/ \E r \in Requests :
       \/ OnError(r)
       \/ OnCompletion(r)
       \/ OnResponseBodyReceived(r)
       \/ Resume(r)
  \/ IsCancelled
  \/ BeginNext
  \/ InvalidResponse
  \/ HeaderLoopSpins
  \/ ShutdownThrows

Next ==
  \/ \E r \in Requests :
       \/ Execute(r)
       \/ AsyncResolve(r)
       \/ Cancel(r)
       \/ OperationEnds(r)
       \/ Transfer(r)
  \/ ResetWork
  \/ Join
  \/ ThreadStep

Spec == Init /\ [][Next]_vars

(***************************************************************************)
(* The client's thread runs, callers inside Execute and Close go on, and   *)
(* the resolver and the kernel's connect end by themselves.                *)
(***************************************************************************)
FairSpec ==
  /\ Spec
  /\ WF_vars(ThreadStep)
  /\ WF_vars(Join)
  /\ \A r \in Requests :
       /\ WF_vars(AsyncResolve(r))
       /\ WF_vars(stage[r] \in {Resolve, Connect} /\ OperationEnds(r))
-----------------------------------------------------------------------------
(***************************************************************************)
(* Safety.                                                                 *)
(***************************************************************************)

\* Every handler but the last checks the flag, though it releases the mutex
\* before it begins the next operation: a Cancel that falls in that window
\* misses one operation, never two.
AtMostOneOperationAfterCancel ==
  \A r \in Requests : was_cancelled[r] => stage[r] <= cancelled_at[r] + 1

\* The io_service stops only when every request is done with, or not begun.
StopsOnlyWhenDrained ==
  [][stopped' /\ ~stopped =>
       \A r \in Requests :
         \/ phase'[r] \in {"idle", "finished"}
         \/ phase'[r] = "checked" /\ stage'[r] = 0]_vars

(***************************************************************************)
(* A request implements CancellableRequest, if only a Cancel that comes    *)
(* before its headers are handled counts: no handler sees a later one.     *)
(***************************************************************************)
CountsAsCancelled(r) == was_cancelled[r] /\ cancelled_at[r] < Headers

RequestStatus(r) ==
  CASE phase[r] = "finished" /\ called[r] > 0 -> "succeeded"
    [] phase[r] = "finished" /\ called[r] = 0 -> "failed"
    [] phase[r] # "finished" /\ CountsAsCancelled(r) -> "cancelled"
    [] phase[r] = "idle" /\ ~CountsAsCancelled(r) -> "idle"
    [] phase[r] \notin {"idle", "finished"} /\ ~CountsAsCancelled(r) -> "active"

Request == INSTANCE CancellableRequest
             WITH status <- [r \in Requests |-> RequestStatus(r)]

ImplementsCancellableRequest == Request!Spec

\* What main.cpp's Handler expects: it tells the user that a request was
\* cancelled, or that it failed and why.  OnFinish calls back only on success.
EveryEndIsReported == \A r \in Requests : phase[r] = "finished" => called[r] = 1
-----------------------------------------------------------------------------
(***************************************************************************)
(* Liveness, under FairSpec.                                               *)
(***************************************************************************)
\* The client's only thread is lost: it crashed, with the program, or spins.
ThreadIsLost == crashed \/ \E r \in Requests : phase[r] = "spinning"

Done(r) == phase[r] = "finished" \/ ThreadIsLost

\* With no help from the server: a request cancelled while it has an operation
\* outstanding ends, unless the operation is one the Cancel has missed.
CancelTakesEffect ==
  \A r \in Requests :
    was_cancelled[r] /\ phase[r] \in InFlight /\ ~stopped
      ~> (Done(r) \/ (phase[r] = "reactor" /\ (pieces[r] > 0 \/ stage[r] > cancelled_at[r])))

\* Every server answers in the end, or its connection breaks.
ServersAnswer == \A r \in Requests : WF_vars(OperationEnds(r))

\* Then a request begun on a running io_service ends.
RequestEnds ==
  ServersAnswer =>
    \A r \in Requests : (phase[r] \in InFlight /\ ~stopped) ~> Done(r)

\* And then Close returns.
CloseReturns == ServersAnswer => (client = "join" ~> (client = "closed" \/ ThreadIsLost))
=============================================================================
