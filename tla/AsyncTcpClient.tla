--------------------------- MODULE AsyncTcpClient ---------------------------
(***************************************************************************)
(* The asynchronous TCP client of src/003_client/003_async_tcp_client.cpp: *)
(* caller threads start requests (EmulateLongComputationOp), cancel them   *)
(* by id (CancelRequest) and shut the client down (Close), while a pool of *)
(* worker threads inside io_service::run() executes the completion         *)
(* handlers.  Every request is a Session object that goes through          *)
(* async_connect, async_write and async_read_until and ends in             *)
(* OnRequestComplete, which calls the caller back.                         *)
(*                                                                         *)
(* A thread's program counter names the next lock acquisition or the next  *)
(* access other threads can observe; the code between two of them is one   *)
(* step.                                                                   *)
(***************************************************************************)
EXTENDS Naturals

CONSTANTS
  Callers,     \* threads of the program that uses the client
  Workers,     \* threads of the pool, each inside m_ios.run()
  Sessions,    \* the Session objects the callers may create, one per request
  Ids,         \* request ids
  IdOf,        \* the request id each Session is created with
  MaxCancels,  \* bound: calls of CancelRequest per id
  MaxPieces,   \* bound: partial transfers inside one composed operation
  None

Threads == Callers \cup Workers

ASSUME ClientAssumption ==
  /\ Callers \cap Workers = {}
  /\ None \notin Threads \cup Sessions
  /\ IdOf \in [Sessions -> Ids]
  /\ MaxCancels \in Nat
  /\ MaxPieces \in Nat

VARIABLES
  pc,               \* what each thread does next
  sess,             \* the session each thread is working on, or None
  active_sessions,  \* m_active_sessions: id -> session, or None
  sessions_guard,   \* owner of m_active_sessions_guard, or None
  cancel_guard,     \* owner of each session's m_cancel_guard, or None
  was_cancelled,    \* m_was_cancelled of each session
  ec,               \* m_ec of each session
  response,         \* has m_response been filled in
  op,               \* the operation outstanding on the session's socket
  phase,            \* where that operation is, or the result it queued
  pieces,           \* partial transfers of that operation so far
  outcome,          \* what the callback was given; before it, the lifecycle
  calls,            \* how often the callback ran
  cancels,          \* calls of CancelRequest per id (for the bound)
  work,             \* does m_work still hold the io_service open
  stopped           \* has the io_service run out of work and stopped

vars == <<pc, sess, active_sessions, sessions_guard, cancel_guard,
          was_cancelled, ec, response, op, phase, pieces, outcome, calls,
          cancels, work, stopped>>

locks   == <<sessions_guard, cancel_guard>>
flags   == <<was_cancelled, ec, response>>
socket  == <<op, phase, pieces>>
reports == <<outcome, calls>>
service == <<work, stopped>>
-----------------------------------------------------------------------------
Errors  == {"error", "aborted"}
Results == {"ok"} \cup Errors

CallerPc == {"idle", "connect", "cancel", "join", "closed"}
HandlerPc == {"connected", "written", "complete", "notify"}
WorkerPc == {"idle", "exited"} \cup HandlerPc

TypeOK ==
  /\ pc \in [Threads -> CallerPc \cup WorkerPc]
  /\ \A c \in Callers : pc[c] \in CallerPc
  /\ \A w \in Workers : pc[w] \in WorkerPc
  /\ sess \in [Threads -> Sessions \cup {None}]
  /\ active_sessions \in [Ids -> Sessions \cup {None}]
  /\ sessions_guard \in Callers \cup {None}
  /\ cancel_guard \in [Sessions -> Workers \cup {None}]
  /\ was_cancelled \in [Sessions -> BOOLEAN]
  /\ ec \in [Sessions -> Results]
  /\ response \in [Sessions -> BOOLEAN]
  /\ op \in [Sessions -> {"none", "connect", "write", "read"}]
  /\ phase \in [Sessions -> {"none", "reactor", "partial"} \cup Results]
  /\ pieces \in [Sessions -> 0..MaxPieces]
  /\ outcome \in [Sessions -> {"unborn", "pending"} \cup Results]
  /\ calls \in [Sessions -> Nat]
  /\ cancels \in [Ids -> 0..MaxCancels]
  /\ work \in BOOLEAN
  /\ stopped \in BOOLEAN

Init ==
  /\ pc = [t \in Threads |-> "idle"]
  /\ sess = [t \in Threads |-> None]
  /\ active_sessions = [i \in Ids |-> None]
  /\ sessions_guard = None
  /\ cancel_guard = [s \in Sessions |-> None]
  /\ was_cancelled = [s \in Sessions |-> FALSE]
  /\ ec = [s \in Sessions |-> "ok"]
  /\ response = [s \in Sessions |-> FALSE]
  /\ op = [s \in Sessions |-> "none"]
  /\ phase = [s \in Sessions |-> "none"]
  /\ pieces = [s \in Sessions |-> 0]
  /\ outcome = [s \in Sessions |-> "unborn"]
  /\ calls = [s \in Sessions |-> 0]
  /\ cancels = [i \in Ids |-> 0]
  /\ work = TRUE
  /\ stopped = FALSE

GoTo(t, label, s) ==
  /\ pc' = [pc EXCEPT ![t] = label]
  /\ sess' = [sess EXCEPT ![t] = s]

\* Initiating an asynchronous operation hands it to the reactor.
StartOp(s, kind) ==
  /\ op' = [op EXCEPT ![s] = kind]
  /\ phase' = [phase EXCEPT ![s] = "reactor"]
  /\ pieces' = [pieces EXCEPT ![s] = 0]

\* The work the io_service counts: m_work, operations, running handlers.
OutstandingWork ==
  \/ work
  \/ \E s \in Sessions : op[s] # "none"
  \/ \E w \in Workers : pc[w] \in HandlerPc

\* The io_service stops itself when the last of its work finishes.
StopIfIdle == stopped' = (stopped \/ ~OutstandingWork')
-----------------------------------------------------------------------------
(***************************************************************************)
(* Callers.                                                                *)
(***************************************************************************)

\* EmulateLongComputationOp creates the session and registers it.
Register(c, s) ==
  /\ pc[c] = "idle"
  /\ outcome[s] = "unborn"
  /\ sessions_guard = None
  /\ active_sessions' = [active_sessions EXCEPT ![IdOf[s]] = s]
  /\ outcome' = [outcome EXCEPT ![s] = "pending"]
  /\ GoTo(c, "connect", s)
  /\ UNCHANGED <<locks, flags, socket, calls, cancels, service>>

\* ... and then, without a lock, initiates the connect.
AsyncConnect(c) ==
  /\ pc[c] = "connect"
  /\ StartOp(sess[c], "connect")
  /\ GoTo(c, "idle", None)
  /\ UNCHANGED <<active_sessions, locks, flags, reports, cancels, service>>

\* Mutant: the session is copied out and the sessions lock released at once.
FindToCancelThenUnlock(c, i) ==
  /\ pc[c] = "idle"
  /\ sessions_guard = None
  /\ cancels[i] < MaxCancels
  /\ active_sessions[i] # None
  /\ cancels' = [cancels EXCEPT ![i] = @ + 1]
  /\ GoTo(c, "cancel", active_sessions[i])
  /\ UNCHANGED <<active_sessions, locks, flags, socket, reports, service>>

\* CancelRequest takes the sessions lock and looks the id up.
FindToCancel(c, i) ==
  /\ pc[c] = "idle"
  /\ sessions_guard = None
  /\ cancels[i] < MaxCancels
  /\ cancels' = [cancels EXCEPT ![i] = @ + 1]
  /\ \/ /\ active_sessions[i] = None
        /\ UNCHANGED <<pc, sess, sessions_guard>>
     \/ /\ active_sessions[i] # None
        /\ sessions_guard' = c
        /\ GoTo(c, "cancel", active_sessions[i])
  /\ UNCHANGED <<active_sessions, cancel_guard, flags, socket, reports, service>>

\* Mutant: m_sock.cancel() is left out.
LeaveSocket(s) == UNCHANGED phase

\* m_sock.cancel() reaches an operation only while the reactor holds it.
CancelSocket(s) ==
  phase' = [phase EXCEPT ![s] = IF @ = "reactor" THEN "aborted" ELSE @]

\* Mutant: CancelRequest also erases the session from the map.
MarkAndErase(c) ==
  LET s == sess[c]
  IN  /\ pc[c] = "cancel"
      /\ cancel_guard[s] = None
      /\ was_cancelled' = [was_cancelled EXCEPT ![s] = TRUE]
      /\ CancelSocket(s)
      /\ active_sessions' = [active_sessions EXCEPT ![IdOf[s]] = None]
      /\ sessions_guard' = None
      /\ GoTo(c, "idle", None)
      /\ UNCHANGED <<cancel_guard, ec, response, op, pieces, reports, cancels, service>>

\* ... and, under both locks, sets the flag and cancels the socket.
MarkCancelled(c) ==
  LET s == sess[c]
  IN  /\ pc[c] = "cancel"
      /\ cancel_guard[s] = None
      /\ was_cancelled' = [was_cancelled EXCEPT ![s] = TRUE]
      /\ CancelSocket(s)
      /\ sessions_guard' = None
      /\ GoTo(c, "idle", None)
      /\ UNCHANGED <<active_sessions, cancel_guard, ec, response, op, pieces,
                     reports, cancels, service>>

\* Mutant: Close stops the io_service outright.
ResetWorkAndStop(c) ==
  /\ pc[c] = "idle"
  /\ work
  /\ work' = FALSE
  /\ stopped' = TRUE
  /\ GoTo(c, "join", None)
  /\ UNCHANGED <<active_sessions, locks, flags, socket, reports, cancels>>

\* Mutant: Close joins the pool without giving the work guard up.
JoinAtOnce(c) ==
  /\ pc[c] = "idle"
  /\ work
  /\ GoTo(c, "join", None)
  /\ UNCHANGED <<active_sessions, locks, flags, socket, reports, cancels, service>>

\* Close gives the work guard up, once, and then joins the pool.
ResetWork(c) ==
  /\ pc[c] = "idle"
  /\ work
  /\ work' = FALSE
  /\ GoTo(c, "join", None)
  /\ UNCHANGED <<active_sessions, locks, flags, socket, reports, cancels>>
  /\ StopIfIdle

Join(c) ==
  /\ pc[c] = "join"
  /\ \A w \in Workers : pc[w] = "exited"
  /\ GoTo(c, "closed", None)
  /\ UNCHANGED <<active_sessions, locks, flags, socket, reports, cancels, service>>
-----------------------------------------------------------------------------
(***************************************************************************)
(* Workers.                                                                *)
(***************************************************************************)

\* A worker of a running io_service takes a queued completion of s.
Dispatch(w, s) ==
  /\ pc[w] = "idle"
  /\ ~stopped
  /\ phase[s] \in Results
  /\ op' = [op EXCEPT ![s] = "none"]
  /\ phase' = [phase EXCEPT ![s] = "none"]
  /\ UNCHANGED <<active_sessions, locks, was_cancelled, pieces, reports, cancels, service>>

\* Mutant: the cancel lock is taken first, on the error path too.
OnConnectOrWriteLocked(w, s) ==
  /\ op[s] \in {"connect", "write"}
  /\ pc[w] = "idle" /\ ~stopped /\ phase[s] \in Errors /\ cancel_guard[s] = None
  /\ op' = [op EXCEPT ![s] = "none"]
  /\ phase' = [phase EXCEPT ![s] = "none"]
  /\ ec' = [ec EXCEPT ![s] = phase[s]]
  /\ cancel_guard' = [cancel_guard EXCEPT ![s] = w]
  /\ GoTo(w, "complete", s)
  /\ UNCHANGED <<active_sessions, sessions_guard, was_cancelled, response, pieces,
                 reports, cancels, service>>

\* Mutant: an error ends the handler without OnRequestComplete.
OnConnectOrWriteDrops(w, s) ==
  /\ op[s] \in {"connect", "write"}
  /\ Dispatch(w, s)
  /\ phase[s] \in Errors
  /\ ec' = [ec EXCEPT ![s] = phase[s]]
  /\ UNCHANGED <<pc, sess, response>>

\* The connect and the write handler up to the cancel lock: an error goes
\* straight to OnRequestComplete.
OnConnectOrWrite(w, s) ==
  /\ op[s] \in {"connect", "write"}
  /\ Dispatch(w, s)
  /\ \/ /\ phase[s] \in Errors
        /\ ec' = [ec EXCEPT ![s] = phase[s]]
        /\ GoTo(w, "complete", s)
     \/ /\ phase[s] = "ok"
        /\ GoTo(w, IF op[s] = "connect" THEN "connected" ELSE "written", s)
        /\ UNCHANGED ec
  /\ UNCHANGED response

\* The read handler keeps the error or the response line.
OnRead(w, s) ==
  /\ op[s] = "read"
  /\ Dispatch(w, s)
  /\ ec' = [ec EXCEPT ![s] = phase[s]]
  /\ response' = [response EXCEPT ![s] = phase[s] = "ok"]
  /\ GoTo(w, "complete", s)

\* Mutant: no return after OnRequestComplete of a cancelled session.
CheckCancelledNoReturn(w) ==
  LET s == sess[w]
  IN  /\ pc[w] \in {"connected", "written"}
      /\ cancel_guard[s] = None
      /\ was_cancelled[s]
      /\ cancel_guard' = [cancel_guard EXCEPT ![s] = w]
      /\ StartOp(s, IF pc[w] = "connected" THEN "write" ELSE "read")
      /\ GoTo(w, "complete", s)
      /\ UNCHANGED <<active_sessions, sessions_guard, flags, reports, cancels, service>>

\* Under the cancel lock: a cancelled session completes, still holding it;
\* any other goes on to its next operation before the lock is released.
CheckCancelled(w) ==
  LET s == sess[w]
  IN  /\ pc[w] \in {"connected", "written"}
      /\ cancel_guard[s] = None
      /\ \/ /\ was_cancelled[s]
            /\ cancel_guard' = [cancel_guard EXCEPT ![s] = w]
            /\ GoTo(w, "complete", s)
            /\ UNCHANGED socket
         \/ /\ ~was_cancelled[s]
            /\ StartOp(s, IF pc[w] = "connected" THEN "write" ELSE "read")
            /\ GoTo(w, "idle", None)
            /\ UNCHANGED cancel_guard
      /\ UNCHANGED <<active_sessions, sessions_guard, flags, reports, cancels, service>>

\* OnRequestComplete erases whatever the map holds under the session's id.
Unregister(w) ==
  /\ pc[w] = "complete"
  /\ sessions_guard = None
  /\ active_sessions' = [active_sessions EXCEPT ![IdOf[sess[w]]] = None]
  /\ GoTo(w, "notify", sess[w])
  /\ UNCHANGED <<locks, flags, socket, reports, cancels, service>>

\* Mutant: m_ec as it is.
RawEc(s) == ec[s]

\* The error code the callback is given.
ReportedEc(s) ==
  IF ec[s] = "ok" /\ was_cancelled[s] THEN "aborted" ELSE ec[s]

\* ... and, with no sessions lock, calls the caller back; then the handler
\* returns and drops the cancel lock if it holds it.
Notify(w) ==
  LET s == sess[w]
  IN  /\ pc[w] = "notify"
      /\ outcome' = [outcome EXCEPT ![s] = ReportedEc(s)]
      /\ calls' = [calls EXCEPT ![s] = @ + 1]
      /\ cancel_guard' = [cancel_guard EXCEPT ![s] = IF @ = w THEN None ELSE @]
      /\ GoTo(w, "idle", None)
      /\ UNCHANGED <<active_sessions, sessions_guard, flags, socket, cancels, work>>
      /\ StopIfIdle

\* A composed operation issues its next transfer; it takes no lock to do so.
Resume(w, s) ==
  /\ pc[w] = "idle"
  /\ ~stopped
  /\ phase[s] = "partial"
  /\ phase' = [phase EXCEPT ![s] = "reactor"]
  /\ UNCHANGED <<pc, sess, active_sessions, locks, flags, op, pieces, reports,
                 cancels, service>>

\* run() returns once the io_service is stopped.
Exit(w) ==
  /\ pc[w] = "idle"
  /\ stopped
  /\ GoTo(w, "exited", None)
  /\ UNCHANGED <<active_sessions, locks, flags, socket, reports, cancels, service>>
-----------------------------------------------------------------------------
(***************************************************************************)
(* The network, seen through the reactor.  Nobody polls the reactor of a   *)
(* stopped io_service.                                                     *)
(***************************************************************************)

\* The operation ends and its handler is queued.
Resolve(s) ==
  /\ ~stopped
  /\ phase[s] = "reactor"
  /\ \E r \in {"ok", "error"} : phase' = [phase EXCEPT ![s] = r]
  /\ UNCHANGED <<pc, sess, active_sessions, locks, flags, op, pieces, reports,
                 cancels, service>>

\* Part of the bytes went through: the composed operation has to go on.
Transfer(s) ==
  /\ ~stopped
  /\ op[s] \in {"write", "read"}
  /\ phase[s] = "reactor"
  /\ pieces[s] < MaxPieces
  /\ phase' = [phase EXCEPT ![s] = "partial"]
  /\ pieces' = [pieces EXCEPT ![s] = @ + 1]
  /\ UNCHANGED <<pc, sess, active_sessions, locks, flags, op, reports, cancels, service>>
-----------------------------------------------------------------------------
\* A caller inside one of the client's member functions takes its next step.
InCall(c) == AsyncConnect(c) \/ MarkCancelled(c) \/ Join(c)

CallerStep(c) ==
  \/ \E s \in Sessions : Register(c, s)
  \/ \E i \in Ids : FindToCancel(c, i)
  \/ ResetWork(c)
  \/ InCall(c)

WorkerStep(w) ==
  \/ \E s \in Sessions : OnConnectOrWrite(w, s) \/ OnRead(w, s) \/ Resume(w, s)
  \/ CheckCancelled(w)
  \/ Unregister(w)
  \/ Notify(w)
  \/ Exit(w)

NetworkStep(s) == Resolve(s) \/ Transfer(s)

Next ==
  \/ \E c \in Callers : CallerStep(c)
  \/ \E w \in Workers : WorkerStep(w)
  \/ \E s \in Sessions : NetworkStep(s)

Spec == Init /\ [][Next]_vars

(***************************************************************************)
(* A thread that is not blocked keeps running, and a TCP connect always    *)
(* ends: the kernel gives its retransmissions up.                          *)
(***************************************************************************)
FairSpec ==
  /\ Spec
  /\ \A w \in Workers : WF_vars(WorkerStep(w))
  /\ \A c \in Callers : WF_vars(InCall(c))
  /\ \A s \in Sessions : WF_vars(op[s] = "connect" /\ Resolve(s))
-----------------------------------------------------------------------------
(***************************************************************************)
(* Safety.                                                                 *)
(***************************************************************************)

\* The threads in the middle of s: its creator before the connect, or a
\* worker in one of its handlers.
Owns(t, s) == sess[t] = s /\ pc[t] \in {"connect"} \cup HandlerPc

Owners(s) == {t \in Threads : Owns(t, s)}

\* No strand serialises a session's handlers: the chain of operations does.
\* An unfinished session has one outstanding operation or one thread in the
\* middle of it, never both and never two; any other session has neither.
\* So m_ec and m_response need no lock, and no session is forgotten.
SessionOwnedOnce ==
  \A s \in Sessions :
    /\ \A t, u \in Owners(s) : t = u
    /\ op[s] # "none" => Owners(s) = {}
    /\ outcome[s] = "pending" <=> (op[s] # "none" \/ Owners(s) # {})

\* OnRequestComplete reads m_was_cancelled with no lock when it was reached by
\* an error or from the read handler (lines 121, 126 and 171).  That is not a
\* race: the session left the map before, so no CancelRequest is about to
\* write the flag.
FlagReadAfterLastWrite ==
  \A w \in Workers, c \in Callers :
    pc[w] = "notify" /\ pc[c] = "cancel" => sess[w] # sess[c]

\* A callback that reports success has the response line, and its request was
\* not cancelled, whatever the moment CancelRequest found it.
SuccessIsGenuine ==
  \A s \in Sessions : outcome[s] = "ok" => response[s] /\ ~was_cancelled[s]

\* Because the flag is checked and the next operation initiated under one
\* hold of m_cancel_guard, the write or read of a cancelled session is never
\* left waiting in the reactor, unless CancelRequest came between two partial
\* transfers of it.
Stranded(s) ==
  was_cancelled[s] /\ op[s] \in {"write", "read"} /\ phase[s] = "reactor"

NoOperationBegunAfterCancel ==
  \A s \in Sessions : Stranded(s) => pieces[s] > 0

\* A canceller holds the sessions lock and waits for the cancel lock of s,
\* whose owner waits in OnRequestComplete for the sessions lock: both are
\* stuck, and then every other caller and worker.
LockCycle(s) ==
  \E c \in Callers, w \in Workers :
    /\ sessions_guard = c /\ pc[c] = "cancel" /\ sess[c] = s
    /\ cancel_guard[s] = w /\ pc[w] = "complete"

\* The two locks are taken in opposite orders by CancelRequest (136, 140) and
\* by a handler that finds its session cancelled (94, 161).  They close a
\* cycle only when the same id is cancelled a second time.
LockCycleNeedsRecancel ==
  \A s \in Sessions : LockCycle(s) => cancels[IdOf[s]] >= 2

\* A session is out of CancelRequest's reach before its own completion only if
\* its id was given to another session too: the map keeps one session per id,
\* and OnRequestComplete erases by id.
UnreachableOnlyByIdReuse ==
  \A s \in Sessions :
    /\ outcome[s] = "pending"
    /\ \A w \in Workers : sess[w] = s => pc[w] # "notify"
    /\ active_sessions[IdOf[s]] # s
    => \E t \in Sessions \ {s} : IdOf[t] = IdOf[s] /\ outcome[t] # "unborn"

\* A request that was called back is over: nothing reports on it again.
CalledBackOnce ==
  [][\A s \in Sessions :
       calls[s] > 0 => calls'[s] = calls[s] /\ outcome'[s] = outcome[s]]_vars

\* Close drains the client: the io_service runs out of work only when every
\* session whose connect was initiated has been called back.
StopsOnlyWhenDrained ==
  [][stopped' /\ ~stopped =>
       \A s \in Sessions :
         \/ outcome'[s] = "unborn"
         \/ calls'[s] = 1
         \/ \E c \in Callers : pc'[c] = "connect" /\ sess'[c] = s]_vars

(***************************************************************************)
(* The client implements CancellableRequest: a registered session is       *)
(* active until its flag is set, and finished once it was called back.     *)
(***************************************************************************)
StatusOf(result, marked) ==
  CASE result = "unborn" -> "idle"
    [] result = "pending" /\ ~marked -> "active"
    [] result = "pending" /\ marked -> "cancelled"
    [] result = "ok" -> "succeeded"
    [] result \in Errors -> "failed"

RequestStatus == [s \in Sessions |-> StatusOf(outcome[s], was_cancelled[s])]

Request == INSTANCE CancellableRequest
             WITH Requests <- Sessions,
                  status <- RequestStatus

ImplementsCancellableRequest == Request!Spec
-----------------------------------------------------------------------------
(***************************************************************************)
(* Liveness, under FairSpec.                                               *)
(***************************************************************************)

\* With no help from the server: a request cancelled while it has an operation
\* on a running io_service is called back, or it is stranded in a transfer that
\* CancelRequest could not reach.
CancelTakesEffect ==
  \A s \in Sessions :
    was_cancelled[s] /\ op[s] # "none" /\ ~stopped
      ~> (calls[s] = 1 \/ (Stranded(s) /\ pieces[s] > 0))

\* Every server answers in the end, or its connection breaks.
ServersAnswer == \A s \in Sessions : WF_vars(Resolve(s))

\* Then a request initiated on a running io_service is called back.
RequestIsCalledBack ==
  ServersAnswer =>
    \A s \in Sessions : (op[s] # "none" /\ ~stopped) ~> calls[s] = 1

\* And then Close returns.
CloseReturns ==
  ServersAnswer => \A c \in Callers : pc[c] = "join" ~> pc[c] = "closed"
=============================================================================
