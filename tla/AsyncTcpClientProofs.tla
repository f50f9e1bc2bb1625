------------------------ MODULE AsyncTcpClientProofs ------------------------
(***************************************************************************)
(* Proofs about AsyncTcpClient, for every number of callers, workers,      *)
(* sessions and ids and every value of the bounds.                         *)
(***************************************************************************)
EXTENDS AsyncTcpClient, TLAPS

(***************************************************************************)
(* The inductive invariant.                                                *)
(***************************************************************************)

\* A thread refers to a session exactly while it is in the middle of it.
ThreadInv ==
  \A t \in Threads :
    sess[t] = None <=> pc[t] \in {"idle", "join", "closed", "exited"}

\* A session is in the hands of one operation or of one thread until it is
\* called back; nothing refers to it before it is registered.
OwnerOf(s) ==
  /\ \A t, u \in Threads : Owns(t, s) /\ Owns(u, s) => t = u
  /\ \A t \in Threads : Owns(t, s) => op[s] = "none" /\ outcome[s] = "pending"
  /\ op[s] # "none" => outcome[s] = "pending"
  /\ outcome[s] = "pending" =>
       op[s] # "none" \/ \E t \in Threads : Owns(t, s)
  /\ phase[s] = "none" <=> op[s] = "none"

OwnerInv == \A s \in Sessions : OwnerOf(s)

\* The map holds only registered sessions that have not been unregistered, and
\* a canceller works on an entry of the map, under the lock of the map.
MapInv ==
  /\ \A s \in Sessions :
       active_sessions[IdOf[s]] = s =>
         /\ outcome[s] = "pending"
         /\ \A w \in Workers : sess[w] = s => pc[w] # "notify"
  /\ \A i \in Ids : active_sessions[i] # None => IdOf[active_sessions[i]] = i
  /\ \A c \in Callers :
       /\ pc[c] = "cancel" <=> sessions_guard = c
       /\ pc[c] = "cancel" => active_sessions[IdOf[sess[c]]] = sess[c]

\* A cancel lock is held from one step to another only by a worker that is
\* completing a cancelled session.
GuardInv ==
  \A s \in Sessions : cancel_guard[s] # None =>
    /\ sess[cancel_guard[s]] = s
    /\ pc[cancel_guard[s]] \in {"complete", "notify"}
    /\ was_cancelled[s]

\* What the callback will be given, and was given.
ResultOf(s) ==
  /\ \A w \in Workers :
       sess[w] = s /\ pc[w] \in {"complete", "notify"} /\ ec[s] = "ok" =>
         response[s] \/ was_cancelled[s]
  /\ outcome[s] = "ok" => response[s] /\ ~was_cancelled[s]
  /\ calls[s] = IF outcome[s] \in Results THEN 1 ELSE 0

ResultInv == \A s \in Sessions : ResultOf(s)

\* A session is marked by a cancellation of its id, and a canceller that finds
\* it marked is the second one.
CancelInv ==
  /\ \A s \in Sessions :
       /\ was_cancelled[s] => outcome[s] # "unborn" /\ cancels[IdOf[s]] >= 1
       /\ phase[s] = "partial" => pieces[s] > 0
       /\ Stranded(s) => pieces[s] > 0
  /\ \A c \in Callers : pc[c] = "cancel" =>
       /\ cancels[IdOf[sess[c]]] >= 1
       /\ was_cancelled[sess[c]] => cancels[IdOf[sess[c]]] >= 2

IInv ==
  /\ TypeOK
  /\ ThreadInv
  /\ OwnerInv
  /\ MapInv
  /\ GuardInv
  /\ ResultInv
  /\ CancelInv
  /\ UnreachableOnlyByIdReuse

-----------------------------------------------------------------------------
(***************************************************************************)
(* Every step preserves it.                                                *)
(***************************************************************************)

\* A step that leaves the map alone, calls nobody back and takes no worker out
\* of its notification puts no session out of reach.
LEMMA ReachKept ==
  ASSUME UnreachableOnlyByIdReuse,
         UNCHANGED <<active_sessions, outcome>>,
         \A w \in Workers : pc[w] = "notify" => UNCHANGED <<pc[w], sess[w]>>
  PROVE  UnreachableOnlyByIdReuse'
BY DEF UnreachableOnlyByIdReuse

\* EmulateLongComputationOp entering a session in the map preserves the
\* invariant.
LEMMA RegisterStep ==
  ASSUME IInv, NEW c \in Callers, NEW s \in Sessions, Register(c, s)
  PROVE  IInv'
<1> USE ClientAssumption
    DEF IInv, Threads, TypeOK, Register, GoTo, locks, flags, socket, reports, service,
        CallerPc, HandlerPc, WorkerPc, Results, Errors
<1>1. TypeOK'
  <2>1. pc' \in [Threads -> CallerPc \cup WorkerPc] /\ sess' \in [Threads -> Sessions \cup {None}]
    OBVIOUS
  <2>2. \A v \in Workers : pc'[v] = pc[v]
    OBVIOUS
  <2> QED BY <2>1, <2>2
<1>2. ThreadInv'
  BY <1>1 DEF ThreadInv
<1>3. OwnerInv'
  BY <1>1 DEF OwnerInv, OwnerOf, ThreadInv, Owns
<1>4. MapInv'
  BY <1>1 DEF MapInv, OwnerInv, OwnerOf, ThreadInv, Owns
<1>5. GuardInv'
  BY <1>1 DEF GuardInv, ThreadInv, OwnerInv, OwnerOf, Owns
<1>6. ResultInv'
  BY <1>1 DEF ResultInv, ResultOf, ThreadInv, OwnerInv, OwnerOf, MapInv, Owns, GuardInv
<1>7. CancelInv'
  BY <1>1 DEF CancelInv, MapInv, OwnerInv, OwnerOf, Stranded
<1>8. UnreachableOnlyByIdReuse'
  BY <1>1 DEF UnreachableOnlyByIdReuse, OwnerInv, OwnerOf, ThreadInv, Owns
<1> QED BY <1>1, <1>2, <1>3, <1>4, <1>5, <1>6, <1>7, <1>8

\* Initiating the connect preserves the invariant.
LEMMA AsyncConnectStep ==
  ASSUME IInv, NEW c \in Callers, AsyncConnect(c)
  PROVE  IInv'
<1> USE ClientAssumption
    DEF IInv, Threads, TypeOK, AsyncConnect, GoTo, StartOp, locks, flags, socket, reports, service,
        CallerPc, HandlerPc, WorkerPc, Results, Errors
<1>1. TypeOK'
  BY DEF ThreadInv
<1>2. ThreadInv'
  BY <1>1 DEF ThreadInv
<1>3. OwnerInv'
  BY <1>1 DEF OwnerInv, OwnerOf, ThreadInv, Owns
<1>4. MapInv'
  BY <1>1 DEF MapInv, OwnerInv, OwnerOf, ThreadInv, Owns
<1>5. GuardInv'
  BY <1>1 DEF GuardInv, ThreadInv, OwnerInv, OwnerOf, Owns
<1>6. ResultInv'
  BY <1>1 DEF ResultInv, ResultOf, ThreadInv, OwnerInv, OwnerOf, MapInv, Owns, GuardInv
<1>7. CancelInv'
  BY <1>1 DEF CancelInv, MapInv, OwnerInv, OwnerOf, Stranded
<1>8. UnreachableOnlyByIdReuse'
  <2>1. \A v \in Workers : pc[v] = "notify" => UNCHANGED <<pc[v], sess[v]>>
    OBVIOUS
  <2> QED BY <2>1, ReachKept
<1> QED BY <1>1, <1>2, <1>3, <1>4, <1>5, <1>6, <1>7, <1>8

\* CancelRequest's lookup preserves the invariant.
LEMMA FindToCancelStep ==
  ASSUME IInv, NEW c \in Callers, NEW i \in Ids, FindToCancel(c, i)
  PROVE  IInv'
<1> USE ClientAssumption
    DEF IInv, Threads, TypeOK, FindToCancel, GoTo, locks, flags, socket, reports, service,
        CallerPc, HandlerPc, WorkerPc, Results, Errors
<1>1. TypeOK'
  OBVIOUS
<1>2. ThreadInv'
  BY <1>1 DEF ThreadInv
<1>3. OwnerInv'
  <2>1. \A t \in Threads, s \in Sessions : Owns(t, s)' <=> Owns(t, s)
    BY DEF Owns
  <2> QED BY <2>1 DEF OwnerInv, OwnerOf
<1>4. MapInv'
  BY <1>1 DEF MapInv, OwnerInv, OwnerOf, ThreadInv, Owns
<1>5. GuardInv'
  BY <1>1 DEF GuardInv, ThreadInv, OwnerInv, OwnerOf, Owns
<1>6. ResultInv'
  BY <1>1 DEF ResultInv, ResultOf, ThreadInv, OwnerInv, OwnerOf, MapInv, Owns, GuardInv
<1>7. CancelInv'
  BY <1>1 DEF CancelInv, MapInv, OwnerInv, OwnerOf, Stranded
<1>8. UnreachableOnlyByIdReuse'
  <2>1. \A v \in Workers : pc[v] = "notify" => UNCHANGED <<pc[v], sess[v]>>
    OBVIOUS
  <2> QED BY <2>1, ReachKept
<1> QED BY <1>1, <1>2, <1>3, <1>4, <1>5, <1>6, <1>7, <1>8

\* CancelRequest's marking of the session it found preserves the invariant.
LEMMA MarkCancelledStep ==
  ASSUME IInv, NEW c \in Callers, MarkCancelled(c)
  PROVE  IInv'
<1> USE ClientAssumption
    DEF IInv, Threads, TypeOK, MarkCancelled, GoTo, CancelSocket, locks, flags, socket, reports, service,
        CallerPc, HandlerPc, WorkerPc, Results, Errors
<1>1. TypeOK'
  OBVIOUS
<1>2. ThreadInv'
  BY <1>1 DEF ThreadInv
<1>3. OwnerInv'
  BY <1>1 DEF OwnerInv, OwnerOf, ThreadInv, Owns
<1>4. MapInv'
  BY <1>1 DEF MapInv, OwnerInv, OwnerOf, ThreadInv, Owns
<1>5. GuardInv'
  BY <1>1 DEF GuardInv, ThreadInv, OwnerInv, OwnerOf, Owns
<1>6. ResultInv'
  BY <1>1 DEF ResultInv, ResultOf, ThreadInv, OwnerInv, OwnerOf, MapInv, Owns, GuardInv
<1>7. CancelInv'
  BY <1>1 DEF CancelInv, MapInv, OwnerInv, OwnerOf, Stranded
<1>8. UnreachableOnlyByIdReuse'
  <2>1. \A v \in Workers : pc[v] = "notify" => UNCHANGED <<pc[v], sess[v]>>
    OBVIOUS
  <2> QED BY <2>1, ReachKept
<1> QED BY <1>1, <1>2, <1>3, <1>4, <1>5, <1>6, <1>7, <1>8

\* Close's release of the work guard preserves the invariant.
LEMMA ResetWorkStep ==
  ASSUME IInv, NEW c \in Callers, ResetWork(c)
  PROVE  IInv'
<1> USE ClientAssumption
    DEF IInv, Threads, TypeOK, ResetWork, GoTo, StopIfIdle, locks, flags, socket, reports, service,
        CallerPc, HandlerPc, WorkerPc, Results, Errors
<1>1. TypeOK'
  <2>1. stopped' \in BOOLEAN /\ work' \in BOOLEAN
    OBVIOUS
  <2>2. pc' \in [Threads -> CallerPc \cup WorkerPc] /\ sess' \in [Threads -> Sessions \cup {None}]
    OBVIOUS
  <2>3. \A v \in Workers : pc'[v] = pc[v]
    OBVIOUS
  <2> QED BY <2>1, <2>2, <2>3
<1>2. ThreadInv'
  BY <1>1 DEF ThreadInv
<1>3. OwnerInv'
  BY <1>1 DEF OwnerInv, OwnerOf, ThreadInv, Owns
<1>4. MapInv'
  BY <1>1 DEF MapInv, OwnerInv, OwnerOf, ThreadInv, Owns
<1>5. GuardInv'
  BY <1>1 DEF GuardInv, ThreadInv, OwnerInv, OwnerOf, Owns
<1>6. ResultInv'
  BY <1>1 DEF ResultInv, ResultOf, ThreadInv, OwnerInv, OwnerOf, MapInv, Owns, GuardInv
<1>7. CancelInv'
  BY <1>1 DEF CancelInv, MapInv, OwnerInv, OwnerOf, Stranded
<1>8. UnreachableOnlyByIdReuse'
  <2>1. \A v \in Workers : pc[v] = "notify" => UNCHANGED <<pc[v], sess[v]>>
    OBVIOUS
  <2> QED BY <2>1, ReachKept
<1> QED BY <1>1, <1>2, <1>3, <1>4, <1>5, <1>6, <1>7, <1>8

\* Close's join of the pool preserves the invariant.
LEMMA JoinStep ==
  ASSUME IInv, NEW c \in Callers, Join(c)
  PROVE  IInv'
<1> USE ClientAssumption
    DEF IInv, Threads, TypeOK, Join, GoTo, locks, flags, socket, reports, service,
        CallerPc, HandlerPc, WorkerPc, Results, Errors
<1>1. TypeOK'
  OBVIOUS
<1>2. ThreadInv'
  BY <1>1 DEF ThreadInv
<1>3. OwnerInv'
  BY <1>1 DEF OwnerInv, OwnerOf, ThreadInv, Owns
<1>4. MapInv'
  BY <1>1 DEF MapInv, OwnerInv, OwnerOf, ThreadInv, Owns
<1>5. GuardInv'
  BY <1>1 DEF GuardInv, ThreadInv, OwnerInv, OwnerOf, Owns
<1>6. ResultInv'
  BY <1>1 DEF ResultInv, ResultOf, ThreadInv, OwnerInv, OwnerOf, MapInv, Owns, GuardInv
<1>7. CancelInv'
  BY <1>1 DEF CancelInv, MapInv, OwnerInv, OwnerOf, Stranded
<1>8. UnreachableOnlyByIdReuse'
  <2>1. \A v \in Workers : pc[v] = "notify" => UNCHANGED <<pc[v], sess[v]>>
    OBVIOUS
  <2> QED BY <2>1, ReachKept
<1> QED BY <1>1, <1>2, <1>3, <1>4, <1>5, <1>6, <1>7, <1>8

\* The connect and the write handler, up to the cancel lock, preserve the
\* invariant.
LEMMA OnConnectOrWriteStep ==
  ASSUME IInv, NEW w \in Workers, NEW s \in Sessions, OnConnectOrWrite(w, s)
  PROVE  IInv'
<1> USE ClientAssumption
    DEF IInv, Threads, TypeOK, OnConnectOrWrite, GoTo, Dispatch, locks, flags, socket, reports, service,
        CallerPc, HandlerPc, WorkerPc, Results, Errors
<1>1. TypeOK'
  OBVIOUS
<1>2. ThreadInv'
  BY <1>1 DEF ThreadInv
<1>a. \A t \in Threads : ~Owns(t, s)
  BY DEF OwnerInv, OwnerOf
<1>3. OwnerInv'
  <2> SUFFICES ASSUME NEW r \in Sessions PROVE OwnerOf(r)'
    BY DEF OwnerInv
  <2>1. CASE r = s
    <3>1. Owns(w, s)' /\ \A t \in Threads \ {w} : ~Owns(t, s)'
      BY <1>a DEF Owns
    <3>2. op'[s] = "none" /\ phase'[s] = "none"
      OBVIOUS
    <3>3. outcome'[s] = "pending"
      BY DEF OwnerInv, OwnerOf
    <3> QED BY <2>1, <3>1, <3>2, <3>3 DEF OwnerOf
  <2>2. CASE r # s
    <3>1. \A t \in Threads : Owns(t, r)' <=> Owns(t, r)
      BY <2>2 DEF Owns, ThreadInv
    <3>2. op'[r] = op[r] /\ phase'[r] = phase[r] /\ outcome'[r] = outcome[r]
      BY <2>2
    <3> QED BY <3>1, <3>2 DEF OwnerInv, OwnerOf
  <2> QED BY <2>1, <2>2
<1>4. MapInv'
  <2>1. \A v \in Workers : pc'[v] = "notify" => UNCHANGED <<pc[v], sess[v]>>
    OBVIOUS
  <2>2. \A c \in Callers : UNCHANGED <<pc[c], sess[c]>>
    OBVIOUS
  <2> QED BY <2>1, <2>2 DEF MapInv
<1>5. GuardInv'
  BY <1>1 DEF GuardInv, ThreadInv, OwnerInv, OwnerOf, Owns
<1>6. ResultInv'
  BY <1>1 DEF ResultInv, ResultOf, ThreadInv, OwnerInv, OwnerOf, MapInv, Owns, GuardInv
<1>7. CancelInv'
  BY <1>1 DEF CancelInv, MapInv, OwnerInv, OwnerOf, Stranded
<1>8. UnreachableOnlyByIdReuse'
  <2>1. \A v \in Workers : pc[v] = "notify" => UNCHANGED <<pc[v], sess[v]>>
    OBVIOUS
  <2> QED BY <2>1, ReachKept
<1> QED BY <1>1, <1>2, <1>3, <1>4, <1>5, <1>6, <1>7, <1>8

\* The read handler preserves the invariant.
LEMMA OnReadStep ==
  ASSUME IInv, NEW w \in Workers, NEW s \in Sessions, OnRead(w, s)
  PROVE  IInv'
<1> USE ClientAssumption
    DEF IInv, Threads, TypeOK, OnRead, GoTo, Dispatch, locks, flags, socket, reports, service,
        CallerPc, HandlerPc, WorkerPc, Results, Errors
<1>1. TypeOK'
  OBVIOUS
<1>2. ThreadInv'
  BY <1>1 DEF ThreadInv
<1>3. OwnerInv'
  BY <1>1 DEF OwnerInv, OwnerOf, ThreadInv, Owns
<1>4. MapInv'
  BY <1>1 DEF MapInv, OwnerInv, OwnerOf, ThreadInv, Owns
<1>5. GuardInv'
  BY <1>1 DEF GuardInv, ThreadInv, OwnerInv, OwnerOf, Owns
<1>a. outcome[s] = "pending" /\ \A t \in Threads : ~Owns(t, s)
  BY DEF OwnerInv, OwnerOf
<1>6. ResultInv'
  <2> SUFFICES ASSUME NEW r \in Sessions PROVE ResultOf(r)'
    BY DEF ResultInv
  <2>1. CASE r = s
    <3>1. ec'[s] = "ok" => response'[s]
      OBVIOUS
    <3>2. outcome'[s] = "pending" /\ calls'[s] = 0
      BY <1>a DEF ResultInv, ResultOf
    <3> QED BY <2>1, <3>1, <3>2 DEF ResultOf
  <2>2. CASE r # s
    BY <2>2, <1>1 DEF ResultInv, ResultOf
  <2> QED BY <2>1, <2>2
<1>7. CancelInv'
  BY <1>1 DEF CancelInv, MapInv, OwnerInv, OwnerOf, Stranded
<1>8. UnreachableOnlyByIdReuse'
  <2>1. \A v \in Workers : pc[v] = "notify" => UNCHANGED <<pc[v], sess[v]>>
    OBVIOUS
  <2> QED BY <2>1, ReachKept
<1> QED BY <1>1, <1>2, <1>3, <1>4, <1>5, <1>6, <1>7, <1>8

\* The next transfer of a composed operation preserves the invariant.
LEMMA ResumeStep ==
  ASSUME IInv, NEW w \in Workers, NEW s \in Sessions, Resume(w, s)
  PROVE  IInv'
<1> USE ClientAssumption
    DEF IInv, Threads, TypeOK, Resume, GoTo, locks, flags, socket, reports, service,
        CallerPc, HandlerPc, WorkerPc, Results, Errors
<1>1. TypeOK'
  OBVIOUS
<1>2. ThreadInv'
  BY <1>1 DEF ThreadInv
<1>3. OwnerInv'
  BY <1>1 DEF OwnerInv, OwnerOf, ThreadInv, Owns
<1>4. MapInv'
  BY <1>1 DEF MapInv, OwnerInv, OwnerOf, ThreadInv, Owns
<1>5. GuardInv'
  BY <1>1 DEF GuardInv, ThreadInv, OwnerInv, OwnerOf, Owns
<1>6. ResultInv'
  BY <1>1 DEF ResultInv, ResultOf, ThreadInv, OwnerInv, OwnerOf, MapInv, Owns, GuardInv
<1>7. CancelInv'
  BY <1>1 DEF CancelInv, MapInv, OwnerInv, OwnerOf, Stranded
<1>8. UnreachableOnlyByIdReuse'
  <2>1. \A v \in Workers : pc[v] = "notify" => UNCHANGED <<pc[v], sess[v]>>
    OBVIOUS
  <2> QED BY <2>1, ReachKept
<1> QED BY <1>1, <1>2, <1>3, <1>4, <1>5, <1>6, <1>7, <1>8

\* The check of the flag and the next initiation, under the cancel lock,
\* preserve the invariant.
LEMMA CheckCancelledStep ==
  ASSUME IInv, NEW w \in Workers, CheckCancelled(w)
  PROVE  IInv'
<1> USE ClientAssumption
    DEF IInv, Threads, TypeOK, CheckCancelled, GoTo, StartOp, locks, flags, socket, reports, service,
        CallerPc, HandlerPc, WorkerPc, Results, Errors
<1>a. sess[w] \in Sessions /\ Owns(w, sess[w])
  BY DEF ThreadInv, Owns
<1>1. TypeOK'
  BY <1>a
<1>2. ThreadInv'
  BY <1>1 DEF ThreadInv
<1>3. OwnerInv'
  <2> SUFFICES ASSUME NEW r \in Sessions PROVE OwnerOf(r)'
    BY DEF OwnerInv
  <2>1. \A t \in Threads \ {w} : Owns(t, r)' <=> Owns(t, r)
    BY DEF Owns
  <2>2. CASE r # sess[w]
    <3>1. ~Owns(w, r) /\ ~Owns(w, r)'
      BY <2>2 DEF Owns
    <3>2. op'[r] = op[r] /\ phase'[r] = phase[r] /\ outcome'[r] = outcome[r]
      BY <2>2
    <3> QED BY <2>1, <3>1, <3>2 DEF OwnerInv, OwnerOf
  <2>3. CASE r = sess[w]
    <3>1. outcome'[r] = "pending" /\ \A t \in Threads \ {w} : ~Owns(t, r)
      BY <1>a, <2>3 DEF OwnerInv, OwnerOf
    <3>2. \/ Owns(w, r)' /\ op'[r] = op[r] /\ phase'[r] = phase[r]
          \/ ~Owns(w, r)' /\ op'[r] # "none" /\ phase'[r] # "none"
      BY <1>a, <2>3 DEF Owns
    <3>3. \A t \in Threads \ {w} : ~Owns(t, r)'
      BY <2>1, <3>1
    <3>4. \A t, u \in Threads : Owns(t, r)' /\ Owns(u, r)' => t = u
      BY <3>3
    <3>5. op[r] = "none" /\ phase[r] = "none"
      BY <1>a, <2>3 DEF OwnerInv, OwnerOf
    <3>6. CASE Owns(w, r)' /\ op'[r] = op[r] /\ phase'[r] = phase[r]
      <4> HIDE DEF IInv, TypeOK, CheckCancelled
      <4> QED BY <3>1, <3>4, <3>5, <3>6 DEF OwnerOf
    <3>7. CASE ~Owns(w, r)' /\ op'[r] # "none" /\ phase'[r] # "none"
      <4> HIDE DEF IInv, TypeOK, CheckCancelled
      <4>1. \A t \in Threads : ~Owns(t, r)'
        BY <3>3, <3>7
      <4> QED BY <3>1, <3>4, <3>7, <4>1 DEF OwnerOf
    <3> QED BY <3>2, <3>6, <3>7
  <2> QED BY <2>2, <2>3
<1>4. MapInv'
  BY <1>1 DEF MapInv
<1>5. GuardInv'
  BY <1>1 DEF GuardInv, ThreadInv, OwnerInv, OwnerOf, Owns
<1>6. ResultInv'
  BY <1>1 DEF ResultInv, ResultOf, ThreadInv, OwnerInv, OwnerOf, MapInv, Owns, GuardInv
<1>7. CancelInv'
  BY <1>1, <1>a DEF CancelInv, Stranded
<1>8. UnreachableOnlyByIdReuse'
  <2>1. \A v \in Workers : pc[v] = "notify" => UNCHANGED <<pc[v], sess[v]>>
    OBVIOUS
  <2> QED BY <2>1, ReachKept
<1> QED BY <1>1, <1>2, <1>3, <1>4, <1>5, <1>6, <1>7, <1>8

\* OnRequestComplete's erasure of the id preserves the invariant.
LEMMA UnregisterStep ==
  ASSUME IInv, NEW w \in Workers, Unregister(w)
  PROVE  IInv'
<1> USE ClientAssumption
    DEF IInv, Threads, TypeOK, Unregister, GoTo, locks, flags, socket, reports, service,
        CallerPc, HandlerPc, WorkerPc, Results, Errors
<1>1. TypeOK'
  OBVIOUS
<1>2. ThreadInv'
  BY <1>1 DEF ThreadInv
<1>3. OwnerInv'
  BY <1>1 DEF OwnerInv, OwnerOf, ThreadInv, Owns
<1>4. MapInv'
  BY <1>1 DEF MapInv, OwnerInv, OwnerOf, ThreadInv, Owns
<1>5. GuardInv'
  BY <1>1 DEF GuardInv, ThreadInv, OwnerInv, OwnerOf, Owns
<1>6. ResultInv'
  BY <1>1 DEF ResultInv, ResultOf, ThreadInv, OwnerInv, OwnerOf, MapInv, Owns, GuardInv
<1>7. CancelInv'
  BY <1>1 DEF CancelInv, MapInv, OwnerInv, OwnerOf, Stranded
<1>8. UnreachableOnlyByIdReuse'
  BY <1>1 DEF UnreachableOnlyByIdReuse, OwnerInv, OwnerOf, ThreadInv, Owns
<1> QED BY <1>1, <1>2, <1>3, <1>4, <1>5, <1>6, <1>7, <1>8

\* The callback and the end of the handler preserve the invariant.
LEMMA NotifyStep ==
  ASSUME IInv, NEW w \in Workers, Notify(w)
  PROVE  IInv'
<1> USE ClientAssumption
    DEF IInv, Threads, TypeOK, Notify, GoTo, StopIfIdle, ReportedEc, locks, flags, socket, reports, service,
        CallerPc, HandlerPc, WorkerPc, Results, Errors
<1>1. TypeOK'
  BY DEF ThreadInv
<1>2. ThreadInv'
  BY <1>1 DEF ThreadInv
<1>3. OwnerInv'
  BY <1>1 DEF OwnerInv, OwnerOf, ThreadInv, Owns
<1>4. MapInv'
  BY <1>1 DEF MapInv, OwnerInv, OwnerOf, ThreadInv, Owns
<1>5. GuardInv'
  BY <1>1 DEF GuardInv, ThreadInv, OwnerInv, OwnerOf, Owns
<1>6. ResultInv'
  BY <1>1 DEF ResultInv, ResultOf, ThreadInv, OwnerInv, OwnerOf, MapInv, Owns, GuardInv
<1>7. CancelInv'
  BY <1>1 DEF CancelInv, MapInv, OwnerInv, OwnerOf, Stranded
<1>8. UnreachableOnlyByIdReuse'
  <2> SUFFICES ASSUME NEW r \in Sessions, outcome'[r] = "pending",
                      \A v \in Workers : sess'[v] = r => pc'[v] # "notify",
                      active_sessions'[IdOf[r]] # r
               PROVE  \E t \in Sessions \ {r} : IdOf[t] = IdOf[r] /\ outcome'[t] # "unborn"
    BY DEF UnreachableOnlyByIdReuse
  <2>1. sess[w] \in Sessions /\ outcome'[sess[w]] \in Results
    BY DEF ThreadInv
  <2>2. r # sess[w] /\ outcome[r] = "pending"
    BY <2>1
  <2>3. \A v \in Workers : sess[v] = r => pc[v] # "notify"
    BY <2>2
  <2>4. PICK t \in Sessions \ {r} : IdOf[t] = IdOf[r] /\ outcome[t] # "unborn"
    BY <2>2, <2>3 DEF UnreachableOnlyByIdReuse
  <2>5. outcome'[t] # "unborn"
    BY <2>1, <2>4
  <2> QED BY <2>4, <2>5
<1> QED BY <1>1, <1>2, <1>3, <1>4, <1>5, <1>6, <1>7, <1>8

\* A worker's return from run() preserves the invariant.
LEMMA ExitStep ==
  ASSUME IInv, NEW w \in Workers, Exit(w)
  PROVE  IInv'
<1> USE ClientAssumption
    DEF IInv, Threads, TypeOK, Exit, GoTo, locks, flags, socket, reports, service,
        CallerPc, HandlerPc, WorkerPc, Results, Errors
<1>1. TypeOK'
  OBVIOUS
<1>2. ThreadInv'
  BY <1>1 DEF ThreadInv
<1>3. OwnerInv'
  BY <1>1 DEF OwnerInv, OwnerOf, ThreadInv, Owns
<1>4. MapInv'
  BY <1>1 DEF MapInv, OwnerInv, OwnerOf, ThreadInv, Owns
<1>5. GuardInv'
  BY <1>1 DEF GuardInv, ThreadInv, OwnerInv, OwnerOf, Owns
<1>6. ResultInv'
  BY <1>1 DEF ResultInv, ResultOf, ThreadInv, OwnerInv, OwnerOf, MapInv, Owns, GuardInv
<1>7. CancelInv'
  BY <1>1 DEF CancelInv, MapInv, OwnerInv, OwnerOf, Stranded
<1>8. UnreachableOnlyByIdReuse'
  <2>1. \A v \in Workers : pc[v] = "notify" => UNCHANGED <<pc[v], sess[v]>>
    OBVIOUS
  <2> QED BY <2>1, ReachKept
<1> QED BY <1>1, <1>2, <1>3, <1>4, <1>5, <1>6, <1>7, <1>8

\* The end of an operation preserves the invariant.
LEMMA ResolveStep ==
  ASSUME IInv, NEW s \in Sessions, Resolve(s)
  PROVE  IInv'
<1> USE ClientAssumption
    DEF IInv, Threads, TypeOK, Resolve, GoTo, locks, flags, socket, reports, service,
        CallerPc, HandlerPc, WorkerPc, Results, Errors
<1>1. TypeOK'
  OBVIOUS
<1>2. ThreadInv'
  BY <1>1 DEF ThreadInv
<1>3. OwnerInv'
  BY <1>1 DEF OwnerInv, OwnerOf, ThreadInv, Owns
<1>4. MapInv'
  BY <1>1 DEF MapInv, OwnerInv, OwnerOf, ThreadInv, Owns
<1>5. GuardInv'
  BY <1>1 DEF GuardInv, ThreadInv, OwnerInv, OwnerOf, Owns
<1>6. ResultInv'
  BY <1>1 DEF ResultInv, ResultOf, ThreadInv, OwnerInv, OwnerOf, MapInv, Owns, GuardInv
<1>7. CancelInv'
  BY <1>1 DEF CancelInv, MapInv, OwnerInv, OwnerOf, Stranded
<1>8. UnreachableOnlyByIdReuse'
  <2>1. \A v \in Workers : pc[v] = "notify" => UNCHANGED <<pc[v], sess[v]>>
    OBVIOUS
  <2> QED BY <2>1, ReachKept
<1> QED BY <1>1, <1>2, <1>3, <1>4, <1>5, <1>6, <1>7, <1>8

\* A partial transfer preserves the invariant.
LEMMA TransferStep ==
  ASSUME IInv, NEW s \in Sessions, Transfer(s)
  PROVE  IInv'
<1> USE ClientAssumption
    DEF IInv, Threads, TypeOK, Transfer, GoTo, locks, flags, socket, reports, service,
        CallerPc, HandlerPc, WorkerPc, Results, Errors
<1>1. TypeOK'
  OBVIOUS
<1>2. ThreadInv'
  BY <1>1 DEF ThreadInv
<1>3. OwnerInv'
  BY <1>1 DEF OwnerInv, OwnerOf, ThreadInv, Owns
<1>4. MapInv'
  BY <1>1 DEF MapInv, OwnerInv, OwnerOf, ThreadInv, Owns
<1>5. GuardInv'
  BY <1>1 DEF GuardInv, ThreadInv, OwnerInv, OwnerOf, Owns
<1>6. ResultInv'
  BY <1>1 DEF ResultInv, ResultOf, ThreadInv, OwnerInv, OwnerOf, MapInv, Owns, GuardInv
<1>7. CancelInv'
  BY <1>1 DEF CancelInv, MapInv, OwnerInv, OwnerOf, Stranded
<1>8. UnreachableOnlyByIdReuse'
  <2>1. \A v \in Workers : pc[v] = "notify" => UNCHANGED <<pc[v], sess[v]>>
    OBVIOUS
  <2> QED BY <2>1, ReachKept
<1> QED BY <1>1, <1>2, <1>3, <1>4, <1>5, <1>6, <1>7, <1>8

\* The initial states satisfy the invariant.
LEMMA InitIInv == Init => IInv
<1> USE ClientAssumption DEF Init, Threads
<1> SUFFICES ASSUME Init PROVE IInv
  OBVIOUS
<1>1. TypeOK
  <2>1. /\ pieces \in [Sessions -> 0..MaxPieces]
        /\ cancels \in [Ids -> 0..MaxCancels]
        /\ calls \in [Sessions -> Nat]
    OBVIOUS
  <2>2. /\ pc \in [Threads -> CallerPc \cup WorkerPc]
        /\ \A c \in Callers : pc[c] \in CallerPc
        /\ \A w \in Workers : pc[w] \in WorkerPc
    BY DEF CallerPc, WorkerPc
  <2> QED BY <2>1, <2>2 DEF TypeOK, Results
<1>2. ThreadInv /\ OwnerInv /\ GuardInv
  BY DEF ThreadInv, OwnerInv, OwnerOf, Owns, GuardInv, HandlerPc
<1>3. MapInv
  BY DEF MapInv
<1>4. ResultInv
  BY DEF ResultInv, ResultOf, Results, Errors
<1>5. CancelInv /\ UnreachableOnlyByIdReuse
  BY DEF CancelInv, Stranded, UnreachableOnlyByIdReuse
<1> QED BY <1>1, <1>2, <1>3, <1>4, <1>5 DEF IInv

\* A stutter preserves it.
LEMMA StutterStep == IInv /\ UNCHANGED vars => IInv'
BY DEF vars, IInv, TypeOK, ThreadInv, OwnerInv, OwnerOf, Owns, MapInv, GuardInv,
       ResultInv, ResultOf, CancelInv, Stranded, UnreachableOnlyByIdReuse

\* Every step of the client, its pool and the network preserves it.
LEMMA NextIInv == IInv /\ [Next]_vars => IInv'
<1> SUFFICES ASSUME IInv, [Next]_vars PROVE IInv'
  OBVIOUS
<1>1. ASSUME NEW c \in Callers, CallerStep(c) PROVE IInv'
  BY <1>1, RegisterStep, AsyncConnectStep, FindToCancelStep, MarkCancelledStep,
     ResetWorkStep, JoinStep DEF CallerStep, InCall
<1>2. ASSUME NEW w \in Workers, WorkerStep(w) PROVE IInv'
  BY <1>2, OnConnectOrWriteStep, OnReadStep, ResumeStep, CheckCancelledStep,
     UnregisterStep, NotifyStep, ExitStep DEF WorkerStep
<1>3. ASSUME NEW s \in Sessions, NetworkStep(s) PROVE IInv'
  BY <1>3, ResolveStep, TransferStep DEF NetworkStep
<1>4. CASE UNCHANGED vars
  BY <1>4, StutterStep
<1> QED BY <1>1, <1>2, <1>3, <1>4 DEF Next

\* IInv is an invariant of the client.
THEOREM Invariance == Spec => []IInv
BY InitIInv, NextIInv, PTL DEF Spec
-----------------------------------------------------------------------------
(***************************************************************************)
(* What follows from it.                                                   *)
(***************************************************************************)

\* Every variable stays within its type: the locks are owned by threads, and
\* what a callback is given is a result.
THEOREM TypeCorrect == Spec => []TypeOK
BY Invariance, PTL DEF IInv

\* The chain of operations serialises the handlers of every session.
THEOREM Ownership == Spec => []SessionOwnedOnce
<1>1. IInv => SessionOwnedOnce
  BY DEF IInv, OwnerInv, OwnerOf, SessionOwnedOnce, Owners
<1> QED BY <1>1, Invariance, PTL

\* A session is out of the map before its completion reads the flag, so no
\* CancelRequest is about to write it.
THEOREM FlagIsStable == Spec => []FlagReadAfterLastWrite
<1>1. IInv => FlagReadAfterLastWrite
  BY ClientAssumption DEF IInv, TypeOK, Threads, MapInv, ThreadInv, FlagReadAfterLastWrite
<1> QED BY <1>1, Invariance, PTL

\* A reported success has a response and was not cancelled.
THEOREM GenuineSuccess == Spec => []SuccessIsGenuine
<1>1. IInv => SuccessIsGenuine
  BY DEF IInv, ResultInv, ResultOf, SuccessIsGenuine
<1> QED BY <1>1, Invariance, PTL

\* No transfer of a cancelled session waits in the reactor, but for one that
\* was cancelled between two partial transfers.
THEOREM NothingBegunAfterCancel == Spec => []NoOperationBegunAfterCancel
<1>1. IInv => NoOperationBegunAfterCancel
  BY DEF IInv, CancelInv, NoOperationBegunAfterCancel
<1> QED BY <1>1, Invariance, PTL

\* The lock cycle of CancelRequest and OnRequestComplete needs a second
\* cancellation of the id.
THEOREM CycleNeedsRecancel == Spec => []LockCycleNeedsRecancel
<1>1. IInv => LockCycleNeedsRecancel
  BY ClientAssumption DEF IInv, CancelInv, GuardInv, LockCycleNeedsRecancel, LockCycle, Threads
<1> QED BY <1>1, Invariance, PTL

\* A program that cancels an id at most once cannot run into the lock cycle.
THEOREM NoCycleWithoutRecancel ==
  MaxCancels <= 1 => (Spec => [](\A s \in Sessions : ~LockCycle(s)))
<1> SUFFICES ASSUME MaxCancels <= 1
             PROVE  Spec => [](\A s \in Sessions : ~LockCycle(s))
  OBVIOUS
<1>1. TypeOK /\ LockCycleNeedsRecancel => \A s \in Sessions : ~LockCycle(s)
  BY ClientAssumption DEF TypeOK, LockCycleNeedsRecancel
<1> QED BY <1>1, TypeCorrect, CycleNeedsRecancel, PTL

\* Only the reuse of an id takes an unfinished session out of CancelRequest's
\* reach.
THEOREM Reachability == Spec => []UnreachableOnlyByIdReuse
BY Invariance, PTL DEF IInv
-----------------------------------------------------------------------------
(***************************************************************************)
(* What a step may never do, and the abstract specification.               *)
(***************************************************************************)

\* Only three steps change what a session's status depends on.
LEMMA StatusSteps ==
  ASSUME [Next]_vars
  PROVE  \/ \E c \in Callers, s \in Sessions : Register(c, s)
         \/ \E c \in Callers : MarkCancelled(c)
         \/ \E w \in Workers : Notify(w)
         \/ UNCHANGED <<outcome, calls, was_cancelled>>
<1> USE DEF locks, flags, socket, reports, service
<1>1. ASSUME NEW c \in Callers, CallerStep(c),
             ~MarkCancelled(c), \A s \in Sessions : ~Register(c, s)
      PROVE  UNCHANGED <<outcome, calls, was_cancelled>>
  BY <1>1 DEF CallerStep, InCall, AsyncConnect, FindToCancel, ResetWork, Join
<1>2. ASSUME NEW w \in Workers, WorkerStep(w), ~Notify(w)
      PROVE  UNCHANGED <<outcome, calls, was_cancelled>>
  BY <1>2 DEF WorkerStep, OnConnectOrWrite, OnRead, Dispatch, Resume, CheckCancelled,
              Unregister, Exit
<1>3. ASSUME NEW s \in Sessions, NetworkStep(s)
      PROVE  UNCHANGED <<outcome, calls, was_cancelled>>
  BY <1>3 DEF NetworkStep, Resolve, Transfer
<1>4. CASE UNCHANGED vars
  BY <1>4 DEF vars
<1> QED BY <1>1, <1>2, <1>3, <1>4 DEF Next

\* The session a worker calls back was pending until then.
LEMMA NotifiesPending ==
  ASSUME IInv, NEW w \in Workers, Notify(w)
  PROVE  /\ sess[w] \in Sessions
         /\ outcome[sess[w]] = "pending"
         /\ calls[sess[w]] = 0
<1>1. sess[w] \in Sessions /\ Owns(w, sess[w])
  BY ClientAssumption
     DEF IInv, TypeOK, ThreadInv, Threads, Owns, Notify, HandlerPc
<1> QED BY <1>1 DEF IInv, OwnerInv, OwnerOf, ResultInv, ResultOf, Threads, Results, Errors

\* A request that was called back is over.
THEOREM CallbackIsFinal == Spec => CalledBackOnce
<1>1. ASSUME IInv, [Next]_vars, NEW s \in Sessions, calls[s] > 0
      PROVE  calls'[s] = calls[s] /\ outcome'[s] = outcome[s]
  <2>1. ASSUME NEW c \in Callers, NEW r \in Sessions, Register(c, r)
        PROVE  calls'[s] = calls[s] /\ outcome'[s] = outcome[s]
    BY <1>1, <2>1 DEF Register, IInv, TypeOK, ResultInv, ResultOf, Results, Errors
  <2>2. ASSUME NEW c \in Callers, MarkCancelled(c)
        PROVE  calls'[s] = calls[s] /\ outcome'[s] = outcome[s]
    BY <2>2 DEF MarkCancelled, reports
  <2>3. ASSUME NEW w \in Workers, Notify(w)
        PROVE  calls'[s] = calls[s] /\ outcome'[s] = outcome[s]
    <3>1. s # sess[w]
      BY <1>1, <2>3, NotifiesPending
    <3> QED BY <1>1, <2>3, <3>1 DEF Notify, IInv, TypeOK
  <2> QED BY <1>1, <2>1, <2>2, <2>3, StatusSteps
<1>2. IInv /\ [Next]_vars =>
        \A s \in Sessions :
          calls[s] > 0 => calls'[s] = calls[s] /\ outcome'[s] = outcome[s]
  BY <1>1
<1> QED BY <1>2, Invariance, PTL DEF Spec, CalledBackOnce

\* Close drains the client.
THEOREM CloseDrains == Spec => StopsOnlyWhenDrained
<1>1. ASSUME IInv', [Next]_vars, stopped', ~stopped, NEW s \in Sessions
      PROVE  \/ outcome'[s] = "unborn"
             \/ calls'[s] = 1
             \/ \E c \in Callers : pc'[c] = "connect" /\ sess'[c] = s
  <2>1. ~OutstandingWork'
    <3>1. ASSUME NEW c \in Callers, CallerStep(c) PROVE ~OutstandingWork'
      BY <1>1, <3>1 DEF CallerStep, InCall, Register, AsyncConnect, FindToCancel,
         MarkCancelled, ResetWork, Join, StopIfIdle, service
    <3>2. ASSUME NEW w \in Workers, WorkerStep(w) PROVE ~OutstandingWork'
      BY <1>1, <3>2 DEF WorkerStep, OnConnectOrWrite, OnRead, Dispatch, Resume,
         CheckCancelled, Unregister, Notify, Exit, StopIfIdle, service
    <3>3. ASSUME NEW r \in Sessions, NetworkStep(r) PROVE ~OutstandingWork'
      BY <1>1, <3>3 DEF NetworkStep, Resolve, Transfer, service
    <3>4. ~UNCHANGED vars
      BY <1>1 DEF vars
    <3> QED BY <1>1, <3>1, <3>2, <3>3, <3>4 DEF Next
  <2>2. op'[s] = "none" /\ \A w \in Workers : pc'[w] \notin HandlerPc
    BY <2>1 DEF OutstandingWork
  <2>3. CASE outcome'[s] = "pending"
    <3>1. PICK t \in Threads : Owns(t, s)'
      BY <1>1, <2>2, <2>3 DEF IInv, OwnerInv, OwnerOf
    <3>2. t \notin Workers
      BY <1>1, <2>2, <3>1 DEF Owns, IInv, TypeOK, WorkerPc, HandlerPc
    <3>3. t \in Callers /\ pc'[t] \in CallerPc
      BY <1>1, <3>2 DEF Threads, IInv, TypeOK
    <3>4. pc'[t] = "connect" /\ sess'[t] = s
      BY <3>1, <3>3 DEF Owns, CallerPc, HandlerPc
    <3> QED BY <3>3, <3>4
  <2>4. CASE outcome'[s] \in Results
    BY <1>1, <2>4 DEF IInv, ResultInv, ResultOf
  <2> QED BY <1>1, <2>3, <2>4 DEF IInv, TypeOK
<1>2. IInv' /\ [Next]_vars =>
        (stopped' /\ ~stopped =>
           \A s \in Sessions :
             \/ outcome'[s] = "unborn"
             \/ calls'[s] = 1
             \/ \E c \in Callers : pc'[c] = "connect" /\ sess'[c] = s)
  BY <1>1
<1> QED BY <1>2, Invariance, PTL DEF Spec, StopsOnlyWhenDrained

\* The status of a session, case by case.
LEMMA StatusCases ==
  ASSUME NEW marked \in BOOLEAN
  PROVE  /\ StatusOf("unborn", marked) = "idle"
         /\ ~marked => StatusOf("pending", marked) = "active"
         /\ marked => StatusOf("pending", marked) = "cancelled"
         /\ StatusOf("ok", marked) = "succeeded"
         /\ \A e \in Errors : StatusOf(e, marked) = "failed"
BY DEF StatusOf, Errors

\* A step that changes the status of one session at most moves that status.
LEMMA StatusMove ==
  ASSUME NEW s \in Sessions,
         \A r \in Sessions \ {s} :
           outcome'[r] = outcome[r] /\ was_cancelled'[r] = was_cancelled[r]
  PROVE  RequestStatus' =
           [RequestStatus EXCEPT ![s] = StatusOf(outcome'[s], was_cancelled'[s])]
BY DEF RequestStatus

\* Registering begins a request, marking cancels it, calling back finishes it,
\* and no other step changes its status.
LEMMA RequestStep ==
  ASSUME IInv, IInv', [Next]_vars
  PROVE  [Request!Next]_RequestStatus
<1> USE StatusCases DEF IInv, TypeOK, Request!Move
<1>1. ASSUME NEW c \in Callers, NEW s \in Sessions, Register(c, s)
      PROVE  Request!Begin(s)
  <2>1. was_cancelled[s] = FALSE /\ was_cancelled' = was_cancelled
    BY <1>1 DEF Register, flags, CancelInv
  <2>2. outcome[s] = "unborn" /\ outcome' = [outcome EXCEPT ![s] = "pending"]
    BY <1>1 DEF Register
  <2>3. RequestStatus[s] = "idle"
    BY <2>1, <2>2 DEF RequestStatus
  <2>4. RequestStatus' = [RequestStatus EXCEPT ![s] = "active"]
    BY <2>1, <2>2, StatusMove
  <2> QED BY <2>3, <2>4 DEF Request!Begin
<1>2. ASSUME NEW c \in Callers, MarkCancelled(c)
      PROVE  Request!Cancel(sess[c]) \/ UNCHANGED RequestStatus
  <2>1. sess[c] \in Sessions /\ outcome[sess[c]] = "pending"
    BY <1>2, ClientAssumption DEF MarkCancelled, MapInv, ThreadInv, Threads
  <2>2. /\ outcome' = outcome
        /\ was_cancelled' = [was_cancelled EXCEPT ![sess[c]] = TRUE]
    BY <1>2 DEF MarkCancelled, reports
  <2>3. CASE was_cancelled[sess[c]]
    <3>1. was_cancelled' = was_cancelled
      BY <2>1, <2>2, <2>3
    <3> QED BY <2>2, <3>1 DEF RequestStatus
  <2>4. CASE ~was_cancelled[sess[c]]
    <3>1. RequestStatus[sess[c]] = "active"
      BY <2>1, <2>4 DEF RequestStatus
    <3>2. StatusOf(outcome'[sess[c]], was_cancelled'[sess[c]]) = "cancelled"
      BY <2>1, <2>2
    <3>3. \A r \in Sessions \ {sess[c]} :
            outcome'[r] = outcome[r] /\ was_cancelled'[r] = was_cancelled[r]
      BY <2>1, <2>2
    <3>4. RequestStatus' = [RequestStatus EXCEPT ![sess[c]] = "cancelled"]
      BY <2>1, <3>2, <3>3, StatusMove
    <3> QED BY <3>1, <3>4 DEF Request!Cancel
  <2> QED BY <2>3, <2>4
<1>3. ASSUME NEW w \in Workers, Notify(w)
      PROVE  Request!Succeed(sess[w]) \/ Request!Fail(sess[w])
  <2>1. sess[w] \in Sessions /\ outcome[sess[w]] = "pending"
    BY <1>3, NotifiesPending
  <2>2. /\ was_cancelled' = was_cancelled
        /\ outcome' = [outcome EXCEPT ![sess[w]] = ReportedEc(sess[w])]
    BY <1>3 DEF Notify, flags
  <2>3. RequestStatus' = [RequestStatus EXCEPT ![sess[w]] =
                            StatusOf(ReportedEc(sess[w]), was_cancelled[sess[w]])]
    BY <2>1, <2>2, StatusMove
  <2>4. CASE ReportedEc(sess[w]) = "ok"
    <3>1. was_cancelled[sess[w]] = FALSE
      BY <2>1, <2>4 DEF ReportedEc
    <3>2. RequestStatus[sess[w]] = "active"
      BY <2>1, <3>1 DEF RequestStatus
    <3> QED BY <2>1, <2>3, <2>4, <3>2 DEF Request!Succeed
  <2>5. CASE ReportedEc(sess[w]) \in Errors
    <3>1. RequestStatus[sess[w]] \in {"active", "cancelled"}
      BY <2>1 DEF RequestStatus
    <3>2. RequestStatus' = [RequestStatus EXCEPT ![sess[w]] = "failed"]
      BY <2>1, <2>3, <2>5
    <3> QED BY <3>1, <3>2 DEF Request!Fail
  <2> QED BY <2>1, <2>4, <2>5 DEF ReportedEc, Results, Errors
<1>4. CASE UNCHANGED <<outcome, calls, was_cancelled>>
  BY <1>4 DEF RequestStatus
<1>5. \A s \in Sessions :
        Request!Begin(s) \/ Request!Cancel(s) \/ Request!Succeed(s) \/ Request!Fail(s)
          => Request!Next
  BY DEF Request!Next
<1>6. ASSUME NEW c \in Callers, MarkCancelled(c) PROVE sess[c] \in Sessions
  BY <1>6, ClientAssumption DEF MarkCancelled, ThreadInv, Threads
<1> QED BY <1>1, <1>2, <1>3, <1>4, <1>5, <1>6, NotifiesPending, StatusSteps

\* The client implements CancellableRequest.
THEOREM Refinement == Spec => ImplementsCancellableRequest
<1>1. Init => Request!Init
  <2> SUFFICES ASSUME Init, NEW s \in Sessions
               PROVE  StatusOf(outcome[s], was_cancelled[s]) = "idle"
    BY DEF Request!Init, RequestStatus
  <2>1. outcome[s] = "unborn" /\ was_cancelled[s] \in BOOLEAN
    BY DEF Init
  <2> QED BY <2>1, StatusCases
<1>2. IInv /\ IInv' /\ [Next]_vars => [Request!Next]_RequestStatus
  BY RequestStep
<1> QED BY <1>1, <1>2, Invariance, PTL DEF Spec, ImplementsCancellableRequest, Request!Spec
=============================================================================
