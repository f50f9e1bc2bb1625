-------------------------- MODULE SyncServerProofs --------------------------
(***************************************************************************)
(* Proofs about SyncServer, for any number of connections and each of the  *)
(* three programs.                                                         *)
(***************************************************************************)
EXTENDS SyncServer, TLAPS

(***************************************************************************)
(* The inductive invariant.                                                *)
(***************************************************************************)

\* An inline server handles one client, and its thread is inside HandleClient
\* as long as it does; the thread of the detached one never is.
HandlingInv ==
  /\ thread = "handle" <=> current # None
  /\ thread = "handle" => program # "detached"
  /\ program # "detached" =>
       \A c \in Connections : handler[c] \in Live => thread = "handle" /\ current = c

\* The kernel's connections have no handler yet.
BacklogInv == \A c \in backlog : handler[c] = "none"

\* What Stop has done, and what the thread still may do.  The client that is
\* accepted after m_stop is the last: the thread comes to TestStop behind it.
StopInv ==
  /\ m_stop <=> stopper # "idle"
  /\ late > 0 => m_stop /\ thread \in {"test", "handle", "ended"}
  /\ thread = "ended" => m_stop
  /\ stopper = "returned" => thread = "ended"

IInv == TypeOK /\ HandlingInv /\ BacklogInv /\ StopInv
-----------------------------------------------------------------------------
LEMMA InitInv == Init => IInv
<1> SUFFICES ASSUME Init PROVE IInv
  OBVIOUS
<1>1. TypeOK
  <2>1. handler \in [Connections -> {"none", "answered", "dropped"} \cup Live]
    BY DEF Init
  <2>2. late \in 0..1 /\ backlog \subseteq Connections
    BY DEF Init
  <2>3. client \in {"none", "connect", "talk", "join"}
    BY DEF Init
  <2>4. current \in Connections \cup {None}
    BY DEF Init
  <2>5. m_stop \in BOOLEAN
    BY DEF Init
  <2> QED BY <2>1, <2>2, <2>3, <2>4, <2>5 DEF Init, TypeOK
<1>2. \A c \in Connections : handler[c] \notin Live
  BY DEF Init, Live
<1> QED BY <1>1, <1>2 DEF Init, IInv, HandlingInv, BacklogInv, StopInv

\* The thread takes a client: none is being handled by an inline server then.
LEMMA AcceptPreserves ==
  ASSUME IInv, NEW c \in Connections,
         AcceptInline(c) \/ AcceptTls(c) \/ AcceptDetached(c)
  PROVE  IInv'
<1> USE SyncServerAssumption
    DEF AcceptInline, AcceptTls, AcceptDetached, StartHandlingClient, ThreadGoes,
        Accepted, stopping
<1>1. late = 0 /\ thread = "accept" /\ current = None
  BY DEF IInv, TypeOK, StopInv, HandlingInv
<1>2. TypeOK'
  <2>1. late' \in 0..1
    BY <1>1
  <2> QED BY <1>1, <2>1 DEF IInv, TypeOK, Live
<1>3. HandlingInv'
  BY <1>1 DEF IInv, TypeOK, HandlingInv, Live
<1>4. BacklogInv'
  BY DEF IInv, TypeOK, BacklogInv
<1>5. StopInv'
  BY <1>1 DEF IInv, TypeOK, StopInv
<1> QED BY <1>2, <1>3, <1>4, <1>5 DEF IInv

LEMMA Inductive == IInv /\ [Next]_vars => IInv'
<1> SUFFICES ASSUME IInv, [Next]_vars PROVE IInv'
  OBVIOUS
<1> USE SyncServerAssumption
    DEF IInv, TypeOK, HandlingInv, BacklogInv, StopInv, Live, accepting, stopping
<1>1. CASE Listen
  BY <1>1 DEF Listen, ThreadGoes
<1>2. CASE TestStop
  BY <1>2 DEF TestStop, ThreadGoes
<1>3. ASSUME NEW c \in Connections,
             AcceptInline(c) \/ AcceptTls(c) \/ AcceptDetached(c)
      PROVE  IInv'
  BY <1>3, AcceptPreserves
<1>4. CASE Handled
  BY <1>4 DEF Handled, ThreadGoes
<1>5. CASE ListenThrows \/ AcceptThrows
  BY <1>5 DEF ListenThrows, AcceptThrows, Throws
<1>6. ASSUME NEW c \in Connections, HandlerStep(c)
      PROVE  IInv'
  BY <1>6 DEF HandlerStep, Handshake, ReadRequest, WriteResponse, HandlerMoves, HandlerBecomes
<1>7. ASSUME NEW c \in Connections, OtherConnects(c)
      PROVE  IInv'
  BY <1>7 DEF OtherConnects, Connect
<1>8. CASE SetStop
  BY <1>8 DEF SetStop
<1>9. CASE JoinThread
  BY <1>9 DEF JoinThread
<1>10. CASE MainReturns
  BY <1>10 DEF MainReturns
<1>11. CASE ClientStep
  BY <1>11 DEF ClientStep, ClientConnects, Connect, ClientIsAnswered, ClientThrows
<1>12. CASE UNCHANGED vars
  BY <1>12 DEF vars
<1> QED
  BY <1>1, <1>2, <1>3, <1>4, <1>5, <1>6, <1>7, <1>8, <1>9, <1>10, <1>11, <1>12
     DEF Next, ThreadStep

LEMMA Invariance == Spec => []IInv
BY InitInv, Inductive, PTL DEF Spec

\* Every variable keeps its type; in particular one client at most is accepted
\* after Stop has set m_stop.
THEOREM TypeCorrect == Spec => []TypeOK
BY Invariance, PTL DEF IInv
-----------------------------------------------------------------------------
(***************************************************************************)
(* The servers implement RequestServer.                                    *)
(***************************************************************************)
Statuses == [c \in Connections |-> ConnectionStatus(c)]

\* A step that leaves the handlers alone leaves every status.
LEMMA StatusesKept ==
  ASSUME handler' = handler
  PROVE  Statuses' = Statuses
BY DEF Statuses, ConnectionStatus

\* One that changes the handler of c moves the status of c.
LEMMA StatusMove ==
  ASSUME IInv, NEW c \in Connections, NEW to,
         handler' = [handler EXCEPT ![c] = to]
  PROVE  /\ to \in Live => Statuses' = [Statuses EXCEPT ![c] = "serving"]
         /\ to \in {"answered", "dropped"} => Statuses' = [Statuses EXCEPT ![c] = to]
BY DEF IInv, TypeOK, Statuses, ConnectionStatus, Live

\* The thread takes a client: a server that was told to stop is draining then.
LEMMA AcceptStep ==
  ASSUME IInv, IInv', NEW c \in Connections,
         AcceptInline(c) \/ AcceptTls(c) \/ AcceptDetached(c)
  PROVE  Promise!Take(c)
<1> USE DEF AcceptInline, AcceptTls, AcceptDetached, StartHandlingClient, ThreadGoes,
            Accepted, stopping
<1>1. Statuses[c] = "waiting"
  BY DEF IInv, BacklogInv, Statuses, ConnectionStatus, Live
<1>2. Statuses' = [Statuses EXCEPT ![c] = "serving"]
  BY StatusMove DEF Live
<1>3. ~Stopped /\ ~Stopped' /\ m_stop' = m_stop
  BY DEF IInv, StopInv, Stopped
<1>4. late = 0 /\ (m_stop => late' = 1)
  BY DEF IInv, TypeOK, StopInv
<1>5. \/ ServerMode = "running" /\ ServerMode' = ServerMode
      \/ ServerMode = "stopping" /\ ServerMode' = "draining"
  BY <1>3, <1>4 DEF ServerMode, IInv, TypeOK
<1> QED BY <1>1, <1>2, <1>5 DEF Promise!Take, Promise!Move, Statuses

\* A handler ends, or goes on without anybody noticing.
LEMMA HandlerEnds ==
  ASSUME IInv, IInv', NEW c \in Connections, HandlerStep(c)
  PROVE  Promise!Finish(c) \/ UNCHANGED <<Statuses, ServerMode>>
<1>1. PICK from \in Live, to \in Live \cup {"answered", "dropped"} :
        /\ handler[c] = from
        /\ handler' = [handler EXCEPT ![c] = to]
  BY DEF HandlerStep, Handshake, ReadRequest, WriteResponse, HandlerMoves, HandlerBecomes, Live
<1>2. /\ process = "running"
      /\ UNCHANGED <<program, process, late, m_stop, stopper>>
  BY DEF HandlerStep, Handshake, ReadRequest, WriteResponse, HandlerMoves, HandlerBecomes,
         accepting, stopping
<1>3. Statuses[c] = "serving"
  BY <1>1 DEF Statuses, ConnectionStatus, Live
<1>4. ServerMode' = ServerMode
  BY <1>2 DEF ServerMode, Stopped
<1>5. ServerMode # "stopped"
  <2>1. ~Stopped
    BY <1>1, <1>2 DEF IInv, HandlingInv, StopInv, Stopped
  <2> QED BY <2>1 DEF ServerMode, IInv, TypeOK
<1>6. CASE to \in Live
  BY <1>1, <1>3, <1>4, <1>6, StatusMove DEF Statuses
<1>7. CASE to \in {"answered", "dropped"}
  BY <1>1, <1>3, <1>4, <1>5, <1>7, StatusMove DEF Promise!Finish, Promise!Move, Statuses
<1> QED BY <1>1, <1>6, <1>7

\* Stop, its return and the end of the process.
LEMMA StopStep ==
  ASSUME IInv, IInv', SetStop \/ JoinThread \/ MainReturns
  PROVE  Promise!Stop \/ Promise!Stopped \/ UNCHANGED <<Statuses, ServerMode>>
<1>1. Statuses' = Statuses
  BY StatusesKept DEF SetStop, JoinThread, MainReturns
<1>2. CASE SetStop
  <2>1. ~m_stop /\ m_stop' /\ late' = 0 /\ ~Stopped'
    BY <1>2 DEF SetStop, accepting, IInv, TypeOK, StopInv, Stopped
  <2> QED BY <1>1, <2>1 DEF ServerMode, Promise!Stop, Statuses
<1>3. CASE JoinThread
  <2>1. m_stop /\ m_stop' /\ late' = late /\ ~Stopped
    BY <1>3 DEF JoinThread, accepting, IInv, StopInv, Stopped
  <2> QED BY <1>1, <2>1 DEF ServerMode, Promise!Stopped, Statuses
<1>4. CASE MainReturns
  <2>1. m_stop /\ m_stop' /\ late' = late /\ (Stopped => Stopped')
    BY <1>4 DEF MainReturns, accepting, stopping, IInv, StopInv, Stopped
  <2> QED BY <1>1, <2>1 DEF ServerMode, Promise!Stopped, Statuses
<1> QED BY <1>2, <1>3, <1>4

\* Nothing else shows.
LEMMA OtherSteps ==
  ASSUME IInv, IInv',
         \/ Listen \/ TestStop \/ Handled
         \/ ListenThrows \/ AcceptThrows
         \/ \E c \in Connections : OtherConnects(c)
         \/ ClientStep
         \/ UNCHANGED vars
  PROVE  UNCHANGED <<Statuses, ServerMode>>
<1>1. UNCHANGED <<program, handler, late, m_stop, stopper>>
  BY DEF Listen, TestStop, Handled, ThreadGoes, ListenThrows, AcceptThrows, Throws,
         OtherConnects, ClientStep, ClientConnects, Connect, ClientIsAnswered, ClientThrows,
         vars, accepting, stopping
<1>2. process' = process \/ (process = "running" /\ process' = "terminated")
  BY DEF Listen, TestStop, Handled, ThreadGoes, ListenThrows, AcceptThrows, Throws,
         OtherConnects, ClientStep, ClientConnects, Connect, ClientIsAnswered, ClientThrows,
         vars
<1>3. Stopped' = Stopped
  BY <1>1, <1>2 DEF Stopped
<1>4. ServerMode' = ServerMode
  BY <1>1, <1>3 DEF ServerMode
<1> QED BY <1>1, <1>4, StatusesKept

\* All three programs implement RequestServer: a client is taken once and ends
\* once, one is taken after Stop at most, and a server that has stopped is done.
THEOREM Refinement == Spec => ImplementsRequestServer
<1>1. Init => Promise!Init
  <2> SUFFICES ASSUME Init PROVE Promise!Init
    OBVIOUS
  <2>1. \A c \in Connections : ConnectionStatus(c) = "waiting"
    BY DEF Init, ConnectionStatus, Live
  <2>2. ServerMode = "running"
    BY DEF Init, ServerMode
  <2> QED BY <2>1, <2>2 DEF Promise!Init
<1>2. IInv /\ IInv' /\ [Next]_vars => [Promise!Next]_(Promise!vars)
  <2> SUFFICES ASSUME IInv, IInv', [Next]_vars
               PROVE  Promise!Next \/ UNCHANGED <<Statuses, ServerMode>>
    BY DEF Promise!vars, Statuses
  <2>1. CASE \E c \in Connections : AcceptInline(c) \/ AcceptTls(c) \/ AcceptDetached(c)
    BY <2>1, AcceptStep DEF Promise!Next
  <2>2. CASE \E c \in Connections : HandlerStep(c)
    BY <2>2, HandlerEnds DEF Promise!Next
  <2>3. CASE SetStop \/ JoinThread \/ MainReturns
    BY <2>3, StopStep DEF Promise!Next
  <2>4. CASE \/ Listen \/ TestStop \/ Handled
             \/ ListenThrows \/ AcceptThrows
             \/ \E c \in Connections : OtherConnects(c)
             \/ ClientStep
             \/ UNCHANGED vars
    BY <2>4, OtherSteps
  <2> QED BY <2>1, <2>2, <2>3, <2>4 DEF Next, ThreadStep
<1> QED
  BY <1>1, <1>2, Invariance, PTL DEF Spec, ImplementsRequestServer, Promise!Spec
=============================================================================
