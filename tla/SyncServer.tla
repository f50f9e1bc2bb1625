---------------------------- MODULE SyncServer ----------------------------
(***************************************************************************)
(* The synchronous servers, which share one structure: a thread loops over *)
(* "while not m_stop, accept the next client", and Stop() sets m_stop and  *)
(* joins that thread.                                                      *)
(*                                                                         *)
(*   "inline"    004_server/001_sync_tcp_server.cpp handles the client     *)
(*               before it accepts the next one;                           *)
(*   "detached"  004_server/001-2_sync_tcp_server_mt.cpp handles every     *)
(*               client in a detached thread of its own;                   *)
(*   "tls"       006_ssl handles it inline, after a TLS handshake; main()  *)
(*               is itself a client of the server, which a thread of its   *)
(*               own starts and stops.                                     *)
(*                                                                         *)
(* An exception that leaves a thread's function terminates the process,    *)
(* and so does main() when it returns while its std::thread is joinable.   *)
(***************************************************************************)
EXTENDS Naturals

CONSTANTS
  Programs,    \* which of the three servers the model stands for
  Connections, \* connections that clients may open
  OwnClient,   \* the connection of 006_ssl/main.cpp's client
  None

ASSUME SyncServerAssumption ==
  /\ Programs \subseteq {"inline", "detached", "tls"}
  /\ OwnClient \in Connections
  /\ None \notin Connections

VARIABLES
  program,  \* the server this behaviour is one of; it never changes
  process,  \* is it still running, and how did it end
  thread,   \* where the accepting thread is
  current,  \* the client it handles inline, or None
  backlog,  \* connections completed by the kernel and not yet accepted
  handler,  \* where the handling of each connection is
  m_stop,
  late,     \* connections accepted since m_stop was set (history)
  stopper,  \* how far Stop has come
  client    \* how far the client of 006_ssl/main.cpp has come

accepting == <<thread, current, backlog, late>>
stopping == <<m_stop, stopper>>
vars == <<program, process, accepting, handler, stopping, client>>
-----------------------------------------------------------------------------
Live == {"handshake", "read", "write"}

TypeOK ==
  /\ program \in Programs
  /\ process \in {"running", "terminated", "exited"}
  /\ thread \in {"start", "test", "accept", "handle", "ended"}
  /\ current \in Connections \cup {None}
  /\ backlog \subseteq Connections
  /\ handler \in [Connections -> {"none", "answered", "dropped"} \cup Live]
  /\ m_stop \in BOOLEAN
  /\ late \in 0..1
  /\ stopper \in {"idle", "joining", "returned"}
  /\ client \in {"none", "connect", "talk", "join"}

Init ==
  /\ program \in Programs
  /\ process = "running"
  /\ thread = "start"
  /\ current = None
  /\ backlog = {}
  /\ handler = [c \in Connections |-> "none"]
  /\ m_stop = FALSE
  /\ late = 0
  /\ stopper = "idle"
  /\ client = IF program = "tls" THEN "connect" ELSE "none"

-----------------------------------------------------------------------------
(***************************************************************************)
(* The accepting thread.                                                   *)
(***************************************************************************)
ThreadGoes(from, to) ==
  /\ process = "running"
  /\ thread = from
  /\ thread' = to
  /\ UNCHANGED <<program, process, stopping, client>>

\* The Acceptor is constructed in the thread itself.
Listen ==
  /\ ThreadGoes("start", "test")
  /\ UNCHANGED <<current, backlog, handler, late>>

\* Nothing in the thread catches what the Acceptor throws.
Throws(at) ==
  /\ process = "running"
  /\ thread = at
  /\ process' = "terminated"
  /\ UNCHANGED <<program, accepting, handler, stopping, client>>

\* The port is in use, or a file of the TLS context is missing.
ListenThrows == Throws("start")

AcceptThrows == Throws("accept")

\* Mutant: the loop does not look at m_stop.
TestStopNever ==
  /\ ThreadGoes("test", "accept")
  /\ UNCHANGED <<current, backlog, handler, late>>

\* while (!m_stop.load())
TestStop ==
  /\ ThreadGoes("test", IF m_stop THEN "ended" ELSE "accept")
  /\ UNCHANGED <<current, backlog, handler, late>>

\* m_acceptor.accept() returns the next client.
Accepted(c) ==
  /\ c \in backlog
  /\ backlog' = backlog \ {c}
  /\ late' = IF m_stop THEN late + 1 ELSE late

\* Service::HandleClient is called in the loop itself.
AcceptInline(c) ==
  /\ program = "inline"
  /\ ThreadGoes("accept", "handle")
  /\ Accepted(c)
  /\ handler' = [handler EXCEPT ![c] = "read"]
  /\ current' = c

\* SyncSSLService::HandleClient is, too, and begins with a handshake.
AcceptTls(c) ==
  /\ program = "tls"
  /\ ThreadGoes("accept", "handle")
  /\ Accepted(c)
  /\ handler' = [handler EXCEPT ![c] = "handshake"]
  /\ current' = c

\* A thread of its own, detached, handles the client: the loop goes on.
StartHandlingClient(c) == handler' = [handler EXCEPT ![c] = "read"]

AcceptDetached(c) ==
  /\ program = "detached"
  /\ ThreadGoes("accept", "test")
  /\ Accepted(c)
  /\ StartHandlingClient(c)
  /\ UNCHANGED current

\* Accept returns when an inline HandleClient has.
Handled ==
  /\ ThreadGoes("handle", "test")
  /\ handler[current] \notin Live
  /\ current' = None
  /\ UNCHANGED <<backlog, handler, late>>
-----------------------------------------------------------------------------
(***************************************************************************)
(* HandleClient, in whatever thread: each step blocks until the client has *)
(* done its part, and an exception of any of them ends the handling.       *)
(***************************************************************************)
HandlerBecomes(c, from, to) ==
  /\ process = "running"
  /\ handler[c] = from
  /\ \E result \in to : handler' = [handler EXCEPT ![c] = result]
  /\ UNCHANGED <<program, process, accepting, stopping, client>>

\* Mutant: the catch clause starts over with the next request.
HandlerMovesRetries(c, from, to) == HandlerBecomes(c, from, {to, "read"})

HandlerMoves(c, from, to) == HandlerBecomes(c, from, {to, "dropped"})

Handshake(c) == HandlerMoves(c, "handshake", "read")

\* read_until the end of the request's line, then compute.
ReadRequest(c) == HandlerMoves(c, "read", "write")

WriteResponse(c) == HandlerMoves(c, "write", "answered")

HandlerStep(c) == Handshake(c) \/ ReadRequest(c) \/ WriteResponse(c)
-----------------------------------------------------------------------------
(***************************************************************************)
(* Stop, and the end of the process.                                       *)
(***************************************************************************)
SetStop ==
  /\ process = "running"
  /\ stopper = "idle"
  /\ m_stop' = TRUE
  /\ stopper' = "joining"
  /\ UNCHANGED <<program, process, accepting, handler, client>>

JoinThread ==
  /\ process = "running"
  /\ stopper = "joining"
  /\ thread = "ended"
  /\ stopper' = "returned"
  /\ UNCHANGED <<program, process, accepting, handler, m_stop, client>>

\* main() returns behind Stop, the one of 006_ssl when it has joined the thread
\* that called it.  The detached handlers die with the process, or before: the
\* destructor of Server takes the io_service of their sockets from under them.
MainReturns ==
  /\ process = "running"
  /\ stopper = "returned"
  /\ program = "tls" => client = "join"
  /\ \/ process' = "exited"
     \/ /\ \E c \in Connections : handler[c] \in Live
        /\ process' = "terminated"
  /\ UNCHANGED <<program, accepting, handler, stopping, client>>
-----------------------------------------------------------------------------
(***************************************************************************)
(* The clients.  The kernel completes connections while the listening      *)
(* socket is open, and resets those it still has when Run returns.         *)
(***************************************************************************)
Connect(c) ==
  /\ process = "running"
  /\ thread \notin {"start", "ended"}
  /\ handler[c] = "none"
  /\ c \notin backlog
  /\ backlog' = backlog \cup {c}
  /\ UNCHANGED <<program, process, thread, current, late, handler, stopping>>

OtherConnects(c) ==
  /\ program = "tls" => c # OwnClient
  /\ Connect(c)
  /\ UNCHANGED client

ClientConnects ==
  /\ client = "connect"
  /\ Connect(OwnClient)
  /\ client' = "talk"

\* The response has come, and main() goes on to t.join().
ClientIsAnswered ==
  /\ process = "running"
  /\ client = "talk"
  /\ handler[OwnClient] = "answered"
  /\ client' = "join"
  /\ UNCHANGED <<program, process, accepting, handler, stopping>>

\* An exception takes main() past t.join(): ~thread() terminates the process,
\* and with it the server.  connect() throws whenever nobody listens, which is
\* so until the server's thread has come to it.
ClientThrows ==
  /\ process = "running"
  /\ \/ client = "connect"
     \/ client = "talk" /\ \/ handler[OwnClient] = "dropped"
                           \/ thread = "ended" /\ OwnClient \in backlog
  /\ process' = "terminated"
  /\ UNCHANGED <<program, accepting, handler, stopping, client>>
-----------------------------------------------------------------------------
ThreadStep ==
  \/ Listen
  \/ TestStop
  \/ \E c \in Connections : AcceptInline(c) \/ AcceptTls(c) \/ AcceptDetached(c)
  \/ Handled

ClientStep == ClientConnects \/ ClientIsAnswered \/ ClientThrows

Next ==
  \/ ThreadStep
  \/ ListenThrows
  \/ AcceptThrows
  \/ \E c \in Connections : HandlerStep(c) \/ OtherConnects(c)
  \/ SetStop
  \/ JoinThread
  \/ MainReturns
  \/ ClientStep

Spec == Init /\ [][Next]_vars

(***************************************************************************)
(* Threads that are not blocked run, and every client goes on or leaves.   *)
(***************************************************************************)
FairSpec ==
  /\ Spec
  /\ WF_vars(ThreadStep)
  /\ WF_vars(JoinThread)
  /\ WF_vars(MainReturns)
  /\ WF_vars(ClientStep)
  /\ \A c \in Connections : WF_vars(HandlerStep(c))
-----------------------------------------------------------------------------
(***************************************************************************)
(* All three implement RequestServer.  When Stop returns, its caller       *)
(* destroys the Server and its io_service: the inline servers have stopped *)
(* by then.  The detached one has not, and as nothing ever waits for its   *)
(* handlers it stops only with the process.                                *)
(***************************************************************************)
ConnectionStatus(c) ==
  CASE handler[c] = "none" -> "waiting"
    [] handler[c] \in Live -> "serving"
    [] handler[c] \in {"answered", "dropped"} -> handler[c]

Stopped ==
  IF program = "detached" THEN process = "exited" ELSE stopper = "returned"

ServerMode ==
  CASE ~m_stop -> "running"
    [] m_stop /\ Stopped -> "stopped"
    [] m_stop /\ ~Stopped -> IF late = 0 THEN "stopping" ELSE "draining"

Promise == INSTANCE RequestServer
             WITH status <- [c \in Connections |-> ConnectionStatus(c)],
                  mode <- ServerMode

ImplementsRequestServer == Promise!Spec

\* Stop waits for the thread, the thread for one more client, and main() for
\* both: all that can keep the program from ending is an accept that no client
\* answers.
StopWaitsForAClientOnly ==
  stopper = "joining"
    ~> (process # "running" \/ (thread = "accept" /\ backlog = {}))

\* Every client the kernel has let in is served before the thread ends, though
\* one at a time by the inline servers.
ServedUnlessStopped ==
  \A c \in Connections :
    c \in backlog ~> (handler[c] \in {"answered", "dropped"} \/ m_stop \/ process # "running")
=============================================================================
