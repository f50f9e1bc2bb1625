------------------------ MODULE AsyncTcpServerProofs ------------------------
(***************************************************************************)
(* Proofs about AsyncTcpServer, for any number of workers, connections and *)
(* failing accepts, and a queue of any length.                             *)
(***************************************************************************)
EXTENDS AsyncTcpServer, SequenceTheorems, TLAPS

(***************************************************************************)
(* The inductive invariant.                                                *)
(***************************************************************************)
Accepts == {e \in Completions : e.kind = "accept"}
Transfers(c) == {e \in Completions : e.kind # "accept" /\ e.conn = c}

\* The places of the queue that hold one of K.
Places(K) == {k \in DOMAIN queue : queue[k] \in K}

OneAtMost(S) == \A x, y \in S : x = y

\* A worker is inside a Service while it processes a request or finishes, and
\* closes the acceptor, or leaves run(), only when it was told to.
WorkerInv ==
  \A w \in Workers :
    /\ conn[w] # None <=> pc[w] \in {"process", "finish"}
    /\ pc[w] = "close" => is_stopped
    /\ pc[w] = "exited" => ios_stopped

\* ServiceOwnedOnce.
OwnerInv ==
  \A c \in Connections :
    /\ service[c] = "live" <=>
         (op[c] # "none" \/ Places(Transfers(c)) # {} \/ Inside(c) # {})
    /\ OneAtMost(Places(Transfers(c)))
    /\ OneAtMost(Inside(c))
    /\ op[c] # "none" => Places(Transfers(c)) = {} /\ Inside(c) = {}
    /\ Places(Transfers(c)) # {} => Inside(c) = {}

\* AcceptChain.
AcceptInv ==
  /\ listening <=> (accepting \/ Places(Accepts) # {} \/ InAcceptor # {})
  /\ OneAtMost(Places(Accepts))
  /\ OneAtMost(InAcceptor)
  /\ accepting => Places(Accepts) = {} /\ InAcceptor = {}
  /\ Places(Accepts) # {} => InAcceptor = {}
  /\ ~listening => is_stopped

\* A connection that waits, for the accept or in its completion, has no Service
\* yet, and waits in one place.
WaitingInv ==
  /\ \A c \in backlog : service[c] = "none"
  /\ \A k \in DOMAIN queue :
       /\ queue[k].kind # "accept" => queue[k].conn \in Connections
       /\ queue[k].kind = "accept" /\ queue[k].ok =>
            /\ queue[k].conn \in Connections \ backlog
            /\ service[queue[k].conn] = "none"

\* The response is sent by the last operation, behind which the Service ends.
ReplyInv ==
  \A c \in Connections :
    replies[c] # 0 =>
      /\ service[c] # "none"
      /\ op[c] = "none"
      /\ Places(Transfers(c)) = {}
      /\ \A w \in Inside(c) : pc[w] = "finish"

\* How far Stop has come.  The Service created after m_is_stopped is the last:
\* the worker that created it will find the flag set.
StopInv ==
  /\ is_stopped <=> stopper # "idle"
  /\ ios_stopped <=> stopper \in {"joining", "returned"}
  /\ stopper = "returned" => \A w \in Workers : pc[w] = "exited"
  /\ late # 0 =>
       /\ late = 1
       /\ is_stopped
       /\ ~accepting
       /\ Places(Accepts) = {}
       /\ \A w \in Workers : pc[w] # "init"

IInv ==
  TypeOK /\ WorkerInv /\ OwnerInv /\ AcceptInv /\ WaitingInv /\ ReplyInv /\ StopInv
-----------------------------------------------------------------------------
(***************************************************************************)
(* The queue.                                                              *)
(***************************************************************************)

\* What Dispatch leaves of the queue.
LEMMA Dequeued ==
  ASSUME queue \in Seq(Completions), queue # <<>>, queue' = Tail(queue)
  PROVE  /\ queue' \in Seq(Completions)
         /\ 1 \in DOMAIN queue
         /\ Head(queue) = queue[1]
         /\ Head(queue) \in Completions
         /\ \A k \in DOMAIN queue' : k + 1 \in DOMAIN queue \ {1} /\ queue'[k] = queue[k + 1]
         /\ \A k \in DOMAIN queue \ {1} : k - 1 \in DOMAIN queue' /\ queue'[k - 1] = queue[k]
         /\ DOMAIN queue \subseteq Nat /\ DOMAIN queue' \subseteq Nat
<1>1. /\ Head(queue) \in Completions
      /\ Tail(queue) \in Seq(Completions)
      /\ Len(Tail(queue)) = Len(queue) - 1
      /\ \A i \in 1..Len(Tail(queue)) : Tail(queue)[i] = queue[i + 1]
  BY HeadTailProperties
<1>2. Len(queue) \in Nat \ {0} /\ DOMAIN queue = 1..Len(queue)
  BY EmptySeq, LenProperties
<1>3. DOMAIN Tail(queue) = 1..Len(queue) - 1
  BY <1>1, LenProperties
<1>4. Head(queue) = queue[1]
  BY SMT
<1> QED BY <1>1, <1>2, <1>3, <1>4

\* ... and what it takes out of the places of K.
LEMMA DequeuedPlaces ==
  ASSUME queue \in Seq(Completions), queue # <<>>, queue' = Tail(queue),
         NEW CONSTANT K, OneAtMost(Places(K))
  PROVE  /\ OneAtMost(Places(K)')
         /\ Head(queue) \notin K => (Places(K)' = {} <=> Places(K) = {})
         /\ Head(queue) \in K => Places(K) # {} /\ Places(K)' = {}
<1> USE Dequeued DEF Places
<1>1. \A k \in Places(K)' : k + 1 \in Places(K) /\ k \in Nat /\ k + 1 # 1
  OBVIOUS
<1>2. OneAtMost(Places(K)')
  <2> SUFFICES ASSUME NEW k \in Places(K)', NEW l \in Places(K)' PROVE k = l
    BY DEF OneAtMost
  <2>1. k + 1 = l + 1
    BY <1>1 DEF OneAtMost
  <2> QED BY <1>1, <2>1
<1>3. ASSUME Head(queue) \notin K, NEW k \in Places(K) PROVE Places(K)' # {}
  <2>1. k - 1 \in DOMAIN queue' /\ queue'[k - 1] = queue[k]
    BY <1>3
  <2> QED BY <2>1
<1>4. ASSUME Head(queue) \in K PROVE 1 \in Places(K) /\ Places(K)' = {}
  <2>1. 1 \in Places(K)
    BY <1>4
  <2>2. \A k \in Places(K) : k = 1
    BY <2>1 DEF OneAtMost
  <2> QED BY <1>1, <2>1, <2>2
<1> QED BY <1>1, <1>2, <1>3, <1>4

\* What a new completion adds.
LEMMA Enqueued ==
  ASSUME queue \in Seq(Completions), NEW e \in Completions, queue' = Append(queue, e)
  PROVE  /\ queue' \in Seq(Completions)
         /\ DOMAIN queue' = DOMAIN queue \cup {Len(queue) + 1}
         /\ Len(queue) + 1 \notin DOMAIN queue
         /\ \A k \in DOMAIN queue : queue'[k] = queue[k]
         /\ queue'[Len(queue) + 1] = e
<1>1. Len(queue) \in Nat /\ DOMAIN queue = 1..Len(queue)
  BY LenProperties
<1>2. /\ Append(queue, e) \in Seq(Completions)
      /\ Len(Append(queue, e)) = Len(queue) + 1
      /\ \A i \in 1..Len(queue) : Append(queue, e)[i] = queue[i]
      /\ Append(queue, e)[Len(queue) + 1] = e
  BY AppendProperties
<1>3. DOMAIN Append(queue, e) = 1..Len(queue) + 1
  BY <1>2, LenProperties
<1> QED BY <1>1, <1>2, <1>3

\* ... to the places of K.
LEMMA EnqueuedPlaces ==
  ASSUME queue \in Seq(Completions), NEW e \in Completions, queue' = Append(queue, e),
         NEW CONSTANT K
  PROVE  /\ e \notin K => Places(K)' = Places(K)
         /\ e \in K /\ Places(K) = {} => Places(K)' # {} /\ OneAtMost(Places(K)')
BY Enqueued DEF Places, OneAtMost
-----------------------------------------------------------------------------
LEMMA InitInv == Init => IInv
<1> SUFFICES ASSUME Init PROVE IInv
  OBVIOUS
<1>1. queue \in Seq(Completions) /\ \A K : Places(K) = {}
  BY EmptySeq DEF Init, Places
<1>2. TypeOK
  <2>1. accept_errors \in 0..MaxAcceptErrors /\ late \in Nat
    BY ServerAssumption DEF Init
  <2>2. replies \in [Connections -> 0..1]
    BY DEF Init
  <2>3. accepting \in BOOLEAN /\ listening \in BOOLEAN
    BY DEF Init
  <2>4. is_stopped \in BOOLEAN /\ ios_stopped \in BOOLEAN
    BY DEF Init
  <2>5. /\ pc \in [Workers -> {"idle", "check", "init", "close", "process", "finish", "exited"}]
        /\ conn \in [Workers -> Connections \cup {None}]
        /\ service \in [Connections -> {"none", "live", "deleted"}]
        /\ op \in [Connections -> {"none", "read", "write"}]
    BY DEF Init
  <2>6. backlog \subseteq Connections /\ stopper \in {"idle", "flagged", "joining", "returned"}
    BY DEF Init
  <2> QED BY <1>1, <2>1, <2>2, <2>3, <2>4, <2>5, <2>6 DEF TypeOK
<1>3. \A c \in Connections : Inside(c) = {}
  BY ServerAssumption DEF Init, Inside
<1>4. InAcceptor = {}
  BY DEF Init, InAcceptor
<1>5. WorkerInv /\ StopInv
  BY DEF Init, WorkerInv, StopInv
<1>6. OwnerInv /\ ReplyInv
  BY <1>1, <1>3 DEF Init, OwnerInv, ReplyInv, OneAtMost
<1>7. AcceptInv
  BY <1>1, <1>4 DEF Init, AcceptInv, OneAtMost
<1>8. WaitingInv
  BY DEF Init, WaitingInv
<1> QED BY <1>2, <1>5, <1>6, <1>7, <1>8 DEF IInv
-----------------------------------------------------------------------------
(***************************************************************************)
(* The workers.                                                            *)
(***************************************************************************)

\* Where a worker goes, and what it leaves.
LEMMA Moves ==
  ASSUME TypeOK, NEW w \in Workers, NEW label, NEW d \in Connections \cup {None},
         GoTo(w, label, d)
  PROVE  /\ \A v \in Workers : v # w => pc'[v] = pc[v] /\ conn'[v] = conn[v]
         /\ pc'[w] = label /\ conn'[w] = d
         /\ \A c \in Connections :
              Inside(c)' = IF c = d THEN Inside(c) \cup {w} ELSE Inside(c) \ {w}
         /\ InAcceptor' = IF label \in {"check", "init", "close"}
                          THEN InAcceptor \cup {w} ELSE InAcceptor \ {w}
BY DEF TypeOK, GoTo, Inside, InAcceptor

\* The completion that Dispatch takes, and what becomes of the others.
LEMMA Dispatched ==
  ASSUME IInv, NEW w \in Workers, NEW kind, Dispatch(w, kind)
  PROVE  /\ Head(queue) \in Completions /\ Head(queue).kind = kind
         /\ 1 \in DOMAIN queue /\ Head(queue) = queue[1]
         /\ queue' \in Seq(Completions)
         /\ pc[w] = "idle" /\ conn[w] = None /\ ~ios_stopped
         /\ \A k \in DOMAIN queue' : \E l \in DOMAIN queue \ {1} : queue'[k] = queue[l]
         /\ \A c \in Connections :
              /\ OneAtMost(Places(Transfers(c))')
              /\ Places(Transfers(c))' # {} => Places(Transfers(c)) # {}
              /\ Head(queue) \notin Transfers(c) =>
                   (Places(Transfers(c))' = {} <=> Places(Transfers(c)) = {})
              /\ Head(queue) \in Transfers(c) =>
                   Places(Transfers(c)) # {} /\ Places(Transfers(c))' = {}
         /\ OneAtMost(Places(Accepts)')
         /\ kind = "accept" => Places(Accepts) # {} /\ Places(Accepts)' = {}
         /\ kind # "accept" => (Places(Accepts)' = {} <=> Places(Accepts) = {})
<1>1. /\ queue \in Seq(Completions) /\ queue # <<>> /\ queue' = Tail(queue)
      /\ Head(queue).kind = kind /\ pc[w] = "idle" /\ ~ios_stopped
  BY DEF Dispatch, IInv, TypeOK
<1>2. conn[w] = None
  BY <1>1 DEF IInv, WorkerInv
<1>3. \A c \in Connections : OneAtMost(Places(Transfers(c)))
  BY DEF IInv, OwnerInv
<1>4. OneAtMost(Places(Accepts))
  BY DEF IInv, AcceptInv
<1>5. Head(queue) \in Completions
  BY <1>1, Dequeued
<1>6. Head(queue) \in Accepts <=> kind = "accept"
  BY <1>1, <1>5 DEF Accepts
<1>7. ASSUME NEW c \in Connections
      PROVE  /\ OneAtMost(Places(Transfers(c))')
             /\ Places(Transfers(c))' # {} => Places(Transfers(c)) # {}
             /\ Head(queue) \notin Transfers(c) =>
                  (Places(Transfers(c))' = {} <=> Places(Transfers(c)) = {})
             /\ Head(queue) \in Transfers(c) =>
                  Places(Transfers(c)) # {} /\ Places(Transfers(c))' = {}
  <2> DEFINE K == Transfers(c)
  <2>1. OneAtMost(Places(K))
    BY <1>3
  <2>2. Transfers(c)' = K
    BY DEF Transfers, Completions
  <2> HIDE DEF K
  <2>3. /\ OneAtMost(Places(K)')
        /\ Head(queue) \notin K => (Places(K)' = {} <=> Places(K) = {})
        /\ Head(queue) \in K => Places(K) # {} /\ Places(K)' = {}
    BY <1>1, <2>1, DequeuedPlaces
  <2> QED BY <2>2, <2>3 DEF K
<1>8. /\ OneAtMost(Places(Accepts)')
      /\ kind = "accept" => Places(Accepts) # {} /\ Places(Accepts)' = {}
      /\ kind # "accept" => (Places(Accepts)' = {} <=> Places(Accepts) = {})
  BY <1>1, <1>4, <1>6, DequeuedPlaces
<1> QED BY <1>1, <1>2, <1>5, <1>7, <1>8, Dequeued

\* OnAccept begins the Service of a connection that was waiting; it is the only
\* one to do so once the flag is set, since no accept is left behind it.
LEMMA OnAcceptPreserves ==
  ASSUME IInv, NEW w \in Workers, OnAccept(w)
  PROVE  IInv'
<1> DEFINE done == Head(queue)
<1>1. Dispatch(w, "accept") /\ GoTo(w, "check", None)
  BY DEF OnAccept
<1>2. UNCHANGED <<acceptor, replies, stop_vars>>
  BY DEF OnAccept
<1>3. \/ /\ done.ok
         /\ service' = [service EXCEPT ![done.conn] = "live"]
         /\ op' = [op EXCEPT ![done.conn] = "read"]
         /\ late' = IF is_stopped THEN late + 1 ELSE late
      \/ ~done.ok /\ UNCHANGED <<service, op, late>>
  BY DEF OnAccept, StartHandling
<1> USE <1>2 DEF acceptor, stop_vars
<1>4. done \in Completions /\ done.kind = "accept" /\ 1 \in DOMAIN queue /\ done = queue[1]
  BY <1>1, Dispatched
<1>5. done.ok => done.conn \in Connections \ backlog /\ service[done.conn] = "none"
  BY <1>4 DEF IInv, WaitingInv
<1>6. /\ \A c \in Connections : Inside(c)' = Inside(c)
      /\ InAcceptor' = InAcceptor \cup {w}
  BY <1>1, Dispatched, Moves, ServerAssumption DEF IInv, Inside
<1>7. \A c \in Connections :
        /\ OneAtMost(Places(Transfers(c))')
        /\ Places(Transfers(c))' = {} <=> Places(Transfers(c)) = {}
  BY <1>1, <1>4, Dispatched DEF Transfers
<1>8. Places(Accepts) # {} /\ Places(Accepts)' = {}
  BY <1>1, Dispatched
<1>9. ~accepting /\ InAcceptor = {} /\ listening /\ late = 0
  BY <1>8 DEF IInv, AcceptInv, StopInv
<1>10. TypeOK'
  BY <1>1, <1>3, <1>5, <1>9, Dispatched DEF IInv, TypeOK, GoTo
<1>11. WorkerInv'
  BY <1>1, Moves DEF IInv, WorkerInv
<1>12. OwnerInv'
  BY <1>3, <1>5, <1>6, <1>7 DEF IInv, TypeOK, OwnerInv
<1>13. AcceptInv'
  BY <1>6, <1>8, <1>9 DEF IInv, AcceptInv, OneAtMost
<1>14. WaitingInv'
  <2>1. \A k \in DOMAIN queue' : queue'[k].kind # "accept"
    <3>1. \A k \in DOMAIN queue' : queue'[k] \in Completions
      BY <1>1, Dispatched
    <3>2. \A k \in DOMAIN queue' : queue'[k] \notin Accepts
      BY <1>8 DEF Places
    <3> QED BY <3>1, <3>2 DEF Accepts
  <2>2. \A k \in DOMAIN queue' : queue'[k].conn \in Connections
    BY <1>1, <2>1, Dispatched DEF IInv, WaitingInv
  <2>3. \A c \in backlog' : service'[c] = "none"
    BY <1>3, <1>5 DEF IInv, TypeOK, WaitingInv
  <2> QED BY <2>1, <2>2, <2>3 DEF WaitingInv
<1>15. ReplyInv'
  <2> SUFFICES ASSUME NEW c \in Connections, replies[c] # 0
               PROVE  /\ service'[c] # "none"
                      /\ op'[c] = "none"
                      /\ Places(Transfers(c))' = {}
                      /\ \A v \in Inside(c)' : pc'[v] = "finish"
    BY DEF ReplyInv
  <2>1. service[c] # "none" /\ op[c] = "none" /\ Places(Transfers(c)) = {}
    BY DEF IInv, ReplyInv
  <2>2. service'[c] # "none" /\ op'[c] = "none"
    BY <1>3, <1>5, <2>1 DEF IInv, TypeOK
  <2>3. \A v \in Inside(c)' : pc'[v] = "finish"
    <3>1. \A v \in Inside(c) : v # w /\ v \in Workers
      BY <1>1, Dispatched, ServerAssumption DEF Inside
    <3>2. \A v \in Inside(c) : pc[v] = "finish"
      BY DEF IInv, ReplyInv
    <3>3. \A v \in Inside(c) : pc'[v] = pc[v]
      BY <1>1, <3>1 DEF GoTo, IInv, TypeOK
    <3> QED BY <1>6, <3>2, <3>3
  <2> QED BY <1>7, <2>1, <2>2, <2>3
<1>16. StopInv'
  <2>1. \A v \in Workers : pc'[v] # "init"
    BY <1>1, <1>9, Moves DEF IInv, InAcceptor
  <2>2. stopper # "returned" /\ late' \in {0, 1} /\ (late' # 0 => is_stopped)
    BY <1>1, <1>3, <1>9, Dispatched DEF IInv, StopInv
  <2> QED BY <1>8, <1>9, <2>1, <2>2 DEF IInv, StopInv
<1> QED BY <1>10, <1>11, <1>12, <1>13, <1>14, <1>15, <1>16 DEF IInv

\* A worker that is inside no Service stays outside of them.
LEMMA OutsideStays ==
  ASSUME IInv, NEW w \in Workers, conn[w] = None, NEW label, GoTo(w, label, None)
  PROVE  /\ \A c \in Connections : Inside(c)' = Inside(c)
         /\ \A c \in Connections : \A v \in Inside(c) : v # w /\ pc'[v] = pc[v]
<1>1. \A c \in Connections : Inside(c)' = Inside(c) \ {w}
  BY Moves, ServerAssumption DEF IInv
<1>2. \A c \in Connections : \A v \in Inside(c) : v # w /\ v \in Workers
  BY ServerAssumption DEF Inside
<1>3. \A v \in Workers : v # w => pc'[v] = pc[v]
  BY Moves DEF IInv
<1>4. ASSUME NEW c \in Connections PROVE Inside(c) \ {w} = Inside(c)
  BY <1>2
<1> QED BY <1>1, <1>2, <1>3, <1>4

\* The steps behind OnAccept: the flag is looked at, and the next accept is
\* initiated or the listening socket closed.
LEMMA AcceptorPreserves ==
  ASSUME IInv, NEW w \in Workers, CheckStopped(w) \/ InitAccept(w) \/ CloseAcceptor(w)
  PROVE  IInv'
<1>1. PICK label \in {"init", "close", "idle"} :
        /\ GoTo(w, label, None)
        /\ label = "init" => pc[w] = "check" /\ ~is_stopped
        /\ label = "close" => pc[w] = "check" /\ is_stopped
        /\ label = "idle" => pc[w] \in {"init", "close"}
  BY DEF CheckStopped, InitAccept, CloseAcceptor
<1>2. UNCHANGED <<queue, accept_errors, services, stop_vars, late>>
  BY DEF CheckStopped, InitAccept, CloseAcceptor, acceptor
<1>3. \/ pc[w] = "check" /\ label # "idle" /\ UNCHANGED <<accepting, listening, backlog>>
      \/ pc[w] = "init" /\ label = "idle" /\ accepting' = TRUE /\ UNCHANGED <<listening, backlog>>
      \/ pc[w] = "close" /\ label = "idle" /\ listening' = FALSE /\ backlog' = {}
           /\ UNCHANGED accepting
  BY <1>1 DEF CheckStopped, InitAccept, CloseAcceptor, acceptor, GoTo, IInv, TypeOK
<1> USE <1>2 DEF services, stop_vars
<1>4. \A K : Places(K)' = Places(K)
  BY DEF Places
<1>5. w \in InAcceptor /\ conn[w] = None
  BY <1>3 DEF InAcceptor, IInv, WorkerInv
<1>6. InAcceptor = {w} /\ Places(Accepts) = {} /\ ~accepting /\ listening
  BY <1>5 DEF IInv, AcceptInv, OneAtMost
<1>7. InAcceptor' = IF label = "idle" THEN {} ELSE {w}
  BY <1>1, <1>6, Moves DEF IInv
<1>8. TypeOK'
  <2>1. pc' \in [Workers -> {"idle", "check", "init", "close", "process", "finish", "exited"}]
        /\ conn' \in [Workers -> Connections \cup {None}]
    BY <1>1 DEF GoTo, IInv, TypeOK
  <2>2. accepting' \in BOOLEAN
    BY <1>3 DEF IInv, TypeOK
  <2>3. listening' \in BOOLEAN
    BY <1>3 DEF IInv, TypeOK
  <2>4. backlog' \subseteq Connections
    BY <1>3 DEF IInv, TypeOK
  <2> QED BY <2>1, <2>2, <2>3, <2>4 DEF IInv, TypeOK
<1>9. WorkerInv'
  BY <1>1, Moves DEF IInv, WorkerInv
<1>10. OwnerInv'
  BY <1>1, <1>4, <1>5, OutsideStays DEF IInv, OwnerInv
<1>11. AcceptInv'
  <2>1. CASE pc[w] = "check"
    BY <1>3, <1>4, <1>6, <1>7, <2>1 DEF IInv, AcceptInv, OneAtMost
  <2>2. CASE pc[w] = "init"
    BY <1>3, <1>4, <1>6, <1>7, <2>2 DEF IInv, AcceptInv, OneAtMost
  <2>3. CASE pc[w] = "close"
    <3>1. is_stopped
      BY <2>3 DEF IInv, WorkerInv
    <3> QED BY <1>3, <1>4, <1>6, <1>7, <2>3, <3>1 DEF IInv, AcceptInv, OneAtMost
  <2> QED BY <1>3, <2>1, <2>2, <2>3
<1>12. WaitingInv'
  BY <1>3 DEF IInv, WaitingInv
<1>13. ReplyInv'
  BY <1>1, <1>4, <1>5, OutsideStays DEF IInv, ReplyInv
<1>14. StopInv'
  <2>1. pc[w] # "exited" /\ (late # 0 => pc[w] # "init" /\ label # "init" /\ ~accepting')
    BY <1>1, <1>3 DEF IInv, StopInv
  <2> QED BY <1>1, <1>4, <2>1, Moves DEF IInv, StopInv
<1> QED BY <1>8, <1>9, <1>10, <1>11, <1>12, <1>13, <1>14 DEF IInv

\* A worker is the only one inside the Service it works for, whose operation is
\* neither in the reactor nor in the queue.
LEMMA AloneInside ==
  ASSUME IInv, NEW w \in Workers, conn[w] # None
  PROVE  /\ conn[w] \in Connections
         /\ Inside(conn[w]) = {w}
         /\ service[conn[w]] = "live"
         /\ op[conn[w]] = "none"
         /\ Places(Transfers(conn[w])) = {}
<1>1. conn[w] \in Connections
  BY DEF IInv, TypeOK
<1>2. w \in Inside(conn[w])
  BY DEF Inside
<1>3. OneAtMost(Inside(conn[w])) /\ op[conn[w]] = "none" /\ Places(Transfers(conn[w])) = {}
  BY <1>1, <1>2 DEF IInv, OwnerInv
<1>4. service[conn[w]] = "live"
  BY <1>1, <1>2 DEF IInv, OwnerInv
<1> QED BY <1>1, <1>2, <1>3, <1>4 DEF OneAtMost

\* ProcessRequest hands the response to the reactor, OnFinish ends the Service:
\* either way the worker leaves it.
LEMMA LeavingPreserves ==
  ASSUME IInv, NEW w \in Workers, ProcessRequest(w) \/ OnFinish(w)
  PROVE  IInv'
<1> DEFINE c == conn[w]
<1>1. GoTo(w, "idle", None) /\ pc[w] \in {"process", "finish"}
  BY DEF ProcessRequest, OnFinish
<1>2. UNCHANGED <<queue, acceptor, replies, stop_vars, late>>
  BY DEF ProcessRequest, OnFinish
<1>3. \/ pc[w] = "process" /\ op' = [op EXCEPT ![c] = "write"] /\ UNCHANGED service
      \/ pc[w] = "finish" /\ service' = [service EXCEPT ![c] = "deleted"] /\ UNCHANGED op
  BY DEF ProcessRequest, OnFinish
<1> USE <1>2 DEF acceptor, stop_vars
<1>4. \A K : Places(K)' = Places(K)
  BY DEF Places
<1>5. conn[w] # None
  BY <1>1 DEF IInv, WorkerInv
<1>6. /\ c \in Connections /\ Inside(c) = {w} /\ service[c] = "live" /\ op[c] = "none"
      /\ Places(Transfers(c)) = {}
  BY <1>5, AloneInside
<1>7. /\ \A d \in Connections : Inside(d)' = Inside(d) \ {w}
      /\ InAcceptor' = InAcceptor \ {w}
      /\ \A v \in Workers : v # w => pc'[v] = pc[v]
  BY <1>1, Moves, ServerAssumption DEF IInv
<1>8. InAcceptor' = InAcceptor
  BY <1>1, <1>7 DEF InAcceptor
<1>9. \A d \in Connections : d # c => w \notin Inside(d)
  BY DEF Inside
<1>10. \A d \in Connections :
         IF d = c THEN Inside(d)' = {} ELSE Inside(d)' = Inside(d)
  BY <1>6, <1>7, <1>9
<1>11. TypeOK'
  <2>1. pc' \in [Workers -> {"idle", "check", "init", "close", "process", "finish", "exited"}]
        /\ conn' \in [Workers -> Connections \cup {None}]
    BY <1>1 DEF GoTo, IInv, TypeOK
  <2>2. /\ service' \in [Connections -> {"none", "live", "deleted"}]
        /\ op' \in [Connections -> {"none", "read", "write"}]
    BY <1>3 DEF IInv, TypeOK
  <2> QED BY <2>1, <2>2 DEF IInv, TypeOK
<1>12. WorkerInv'
  BY <1>1, Moves DEF IInv, WorkerInv
<1>13. OwnerInv'
  <2> SUFFICES ASSUME NEW d \in Connections
               PROVE  /\ service'[d] = "live" <=>
                           (op'[d] # "none" \/ Places(Transfers(d)) # {} \/ Inside(d)' # {})
                      /\ OneAtMost(Places(Transfers(d)))
                      /\ OneAtMost(Inside(d)')
                      /\ op'[d] # "none" => Places(Transfers(d)) = {} /\ Inside(d)' = {}
                      /\ Places(Transfers(d)) # {} => Inside(d)' = {}
    BY <1>4 DEF OwnerInv, Transfers, Completions
  <2>1. CASE d = c
    BY <1>3, <1>6, <1>10, <2>1 DEF IInv, TypeOK, OneAtMost
  <2>2. CASE d # c
    <3>1. service'[d] = service[d] /\ op'[d] = op[d] /\ Inside(d)' = Inside(d)
      BY <1>3, <1>10, <2>2 DEF IInv, TypeOK
    <3> QED BY <3>1 DEF IInv, OwnerInv
  <2> QED BY <2>1, <2>2
<1>14. AcceptInv'
  BY <1>4, <1>8 DEF IInv, AcceptInv, Accepts, Completions
<1>15. WaitingInv'
  BY <1>3, <1>6 DEF IInv, TypeOK, WaitingInv
<1>16. ReplyInv'
  <2> SUFFICES ASSUME NEW d \in Connections, replies[d] # 0
               PROVE  /\ service'[d] # "none"
                      /\ op'[d] = "none"
                      /\ Places(Transfers(d)) = {}
                      /\ \A v \in Inside(d)' : pc'[v] = "finish"
    BY <1>4 DEF ReplyInv, Transfers, Completions
  <2>1. /\ service[d] # "none" /\ op[d] = "none" /\ Places(Transfers(d)) = {}
        /\ \A v \in Inside(d) : pc[v] = "finish"
    BY DEF IInv, ReplyInv
  <2>2. op'[d] = "none"
    BY <1>3, <1>6, <2>1 DEF IInv, TypeOK
  <2>3. service'[d] # "none"
    BY <1>3, <2>1 DEF IInv, TypeOK
  <2>4. \A v \in Inside(d)' : pc'[v] = "finish"
    <3>1. \A v \in Inside(d)' : v \in Inside(d) /\ v # w /\ v \in Workers
      BY <1>7 DEF Inside
    <3> QED BY <1>7, <2>1, <3>1
  <2> QED BY <2>1, <2>2, <2>3, <2>4
<1>17. StopInv'
  BY <1>1, <1>4, Moves DEF IInv, StopInv, Accepts, Completions
<1> QED BY <1>11, <1>12, <1>13, <1>14, <1>15, <1>16, <1>17 DEF IInv

\* OnRequestReceived and OnResponseSent bring a worker inside the Service whose
\* only operation has ended.
LEMMA EnteringPreserves ==
  ASSUME IInv, NEW w \in Workers, OnRequestReceived(w) \/ OnResponseSent(w)
  PROVE  IInv'
<1> DEFINE done == Head(queue)
<1>0. PICK c \in Connections : c = done.conn
  <2>1. PICK kind \in {"read", "write"} : Dispatch(w, kind)
    BY DEF OnRequestReceived, OnResponseSent
  <2> QED BY <2>1, Dispatched DEF IInv, WaitingInv
<1>1. PICK label \in {"process", "finish"}, kind \in {"read", "write"} :
        /\ Dispatch(w, kind)
        /\ GoTo(w, label, c)
        /\ \/ kind = "read" /\ UNCHANGED replies
           \/ /\ kind = "write" /\ label = "finish"
              /\ replies' = [replies EXCEPT ![c] = IF done.ok THEN @ + 1 ELSE @]
  BY <1>0 DEF OnRequestReceived, OnResponseSent, services
<1>2. UNCHANGED <<acceptor, service, op, stop_vars, late>>
  BY DEF OnRequestReceived, OnResponseSent, services
<1> USE <1>2 DEF acceptor, stop_vars
<1>3. /\ done \in Completions /\ done.kind = kind /\ 1 \in DOMAIN queue /\ done = queue[1]
      /\ pc[w] = "idle" /\ conn[w] = None /\ ~ios_stopped
  BY <1>1, Dispatched
<1>4. kind # "accept"
  OBVIOUS
<1>5. done \in Transfers(c) /\ \A d \in Connections : d # c => done \notin Transfers(d)
  BY <1>0, <1>3 DEF Transfers
<1>6. Places(Transfers(c)) # {} /\ Places(Transfers(c))' = {}
  BY <1>1, <1>4, <1>5, Dispatched
<1>7. /\ op[c] = "none" /\ Inside(c) = {} /\ service[c] = "live" /\ replies[c] = 0
  BY <1>4, <1>6 DEF IInv, OwnerInv, ReplyInv
<1>8. /\ \A d \in Connections : Inside(d)' = IF d = c THEN Inside(d) \cup {w} ELSE Inside(d) \ {w}
      /\ InAcceptor' = InAcceptor \ {w}
      /\ \A v \in Workers : v # w => pc'[v] = pc[v] /\ conn'[v] = conn[v]
      /\ pc'[w] = label /\ conn'[w] = c
  BY <1>1, <1>4, Moves DEF IInv
<1>9. InAcceptor' = InAcceptor
  BY <1>3, <1>8 DEF InAcceptor
<1>10. \A d \in Connections : w \notin Inside(d)
  BY <1>3, ServerAssumption DEF Inside
<1>11. \A d \in Connections : d # c => Inside(d)' = Inside(d)
  BY <1>8, <1>10
<1>12. Inside(c)' = {w}
  BY <1>4, <1>7, <1>8
<1>13. \A d \in Connections : d # c =>
         /\ OneAtMost(Places(Transfers(d))')
         /\ Places(Transfers(d))' = {} <=> Places(Transfers(d)) = {}
  BY <1>1, <1>5, Dispatched
<1>14. OneAtMost(Places(Accepts)') /\ (Places(Accepts)' = {} <=> Places(Accepts) = {})
  BY <1>1, <1>4, Dispatched
<1>15. TypeOK'
  <2>1. pc' \in [Workers -> {"idle", "check", "init", "close", "process", "finish", "exited"}]
        /\ conn' \in [Workers -> Connections \cup {None}]
    BY <1>1, <1>4 DEF GoTo, IInv, TypeOK
  <2>2. replies' \in [Connections -> 0..1]
    BY <1>1, <1>4, <1>7 DEF IInv, TypeOK
  <2>3. queue' \in Seq(Completions)
    BY <1>1, Dispatched
  <2> QED BY <2>1, <2>2, <2>3 DEF IInv, TypeOK
<1>16. WorkerInv'
  BY <1>4, <1>8, ServerAssumption DEF IInv, WorkerInv
<1>17. OwnerInv'
  <2> SUFFICES ASSUME NEW d \in Connections
               PROVE  /\ service[d] = "live" <=>
                           (op[d] # "none" \/ Places(Transfers(d))' # {} \/ Inside(d)' # {})
                      /\ OneAtMost(Places(Transfers(d))')
                      /\ OneAtMost(Inside(d)')
                      /\ op[d] # "none" => Places(Transfers(d))' = {} /\ Inside(d)' = {}
                      /\ Places(Transfers(d))' # {} => Inside(d)' = {}
    BY DEF OwnerInv
  <2>1. CASE d = c
    BY <1>6, <1>7, <1>12, <2>1 DEF OneAtMost
  <2>2. CASE d # c
    BY <1>11, <1>13, <2>2 DEF IInv, OwnerInv
  <2> QED BY <2>1, <2>2
<1>18. AcceptInv'
  BY <1>9, <1>14 DEF IInv, AcceptInv
<1>19. WaitingInv'
  BY <1>1, Dispatched DEF IInv, WaitingInv
<1>20. ReplyInv'
  <2> SUFFICES ASSUME NEW d \in Connections, replies'[d] # 0
               PROVE  /\ service[d] # "none"
                      /\ op[d] = "none"
                      /\ Places(Transfers(d))' = {}
                      /\ \A v \in Inside(d)' : pc'[v] = "finish"
    BY DEF ReplyInv
  <2>1. CASE d = c
    <3>1. label = "finish"
      BY <1>1, <1>7, <2>1
    <3> QED BY <1>6, <1>7, <1>8, <1>12, <2>1, <3>1
  <2>2. CASE d # c
    <3>1. replies[d] # 0
      BY <1>1, <2>2 DEF IInv, TypeOK
    <3>2. /\ service[d] # "none" /\ op[d] = "none" /\ Places(Transfers(d)) = {}
          /\ \A v \in Inside(d) : pc[v] = "finish"
      BY <3>1 DEF IInv, ReplyInv
    <3>3. \A v \in Inside(d) : v \in Workers /\ v # w
      BY <1>10 DEF Inside
    <3> QED BY <1>8, <1>11, <1>13, <2>2, <3>2, <3>3
  <2> QED BY <2>1, <2>2
<1>21. StopInv'
  BY <1>3, <1>8, <1>14 DEF IInv, StopInv
<1> QED BY <1>15, <1>16, <1>17, <1>18, <1>19, <1>20, <1>21 DEF IInv

\* A worker leaves run() once the io_service is stopped.
LEMMA ExitPreserves ==
  ASSUME IInv, NEW w \in Workers, Exit(w)
  PROVE  IInv'
<1>1. pc[w] = "idle" /\ ios_stopped /\ GoTo(w, "exited", None)
  BY DEF Exit
<1>2. UNCHANGED <<queue, acceptor, services, stop_vars, late>>
  BY DEF Exit
<1> USE <1>2 DEF acceptor, services, stop_vars
<1>3. conn[w] = None
  BY <1>1 DEF IInv, WorkerInv
<1>4. \A K : Places(K)' = Places(K)
  BY DEF Places
<1>5. /\ \A c \in Connections : Inside(c)' = Inside(c)
      /\ \A c \in Connections : \A v \in Inside(c) : pc'[v] = pc[v]
  BY <1>1, <1>3, OutsideStays
<1>6. InAcceptor' = InAcceptor \ {w} /\ w \notin InAcceptor
  BY <1>1, Moves DEF IInv, InAcceptor
<1>7. TypeOK'
  BY <1>1 DEF GoTo, IInv, TypeOK
<1>8. WorkerInv'
  BY <1>1, Moves DEF IInv, WorkerInv
<1>9. OwnerInv'
  BY <1>4, <1>5 DEF IInv, OwnerInv, Transfers, Completions
<1>10. AcceptInv'
  <2>1. InAcceptor' = InAcceptor
    BY <1>6
  <2> QED BY <1>4, <2>1 DEF IInv, AcceptInv
<1>11. WaitingInv'
  BY DEF IInv, WaitingInv
<1>12. ReplyInv'
  BY <1>4, <1>5 DEF IInv, ReplyInv, Transfers, Completions
<1>13. StopInv'
  BY <1>1, <1>4, Moves DEF IInv, StopInv
<1> QED BY <1>7, <1>8, <1>9, <1>10, <1>11, <1>12, <1>13 DEF IInv
-----------------------------------------------------------------------------
\* Server::Stop changes nothing but its own state.
LEMMA StopPreserves ==
  ASSUME IInv, StopStep
  PROVE  IInv'
<1>1. UNCHANGED <<worker, queue, acceptor, services, late>>
  BY DEF StopStep, SetStopped, StopService, JoinPool
<1> USE <1>1 DEF worker, acceptor, services
<1>2. /\ \A K : Places(K)' = Places(K)
      /\ \A c \in Connections : Inside(c)' = Inside(c)
      /\ InAcceptor' = InAcceptor
  BY DEF Places, Inside, InAcceptor
<1>3. \/ stopper = "idle" /\ stopper' = "flagged" /\ is_stopped' = TRUE /\ UNCHANGED ios_stopped
      \/ /\ stopper = "flagged" /\ stopper' = "joining" /\ ios_stopped' = TRUE
         /\ UNCHANGED is_stopped
      \/ /\ stopper = "joining" /\ stopper' = "returned" /\ UNCHANGED <<is_stopped, ios_stopped>>
         /\ \A w \in Workers : pc[w] = "exited"
  BY DEF StopStep, SetStopped, StopService, JoinPool
<1>4. is_stopped \in BOOLEAN /\ ios_stopped \in BOOLEAN
  BY DEF IInv, TypeOK
<1>5. (is_stopped => is_stopped') /\ (ios_stopped => ios_stopped')
  BY <1>3
<1>6. TypeOK'
  <2>1. is_stopped' \in BOOLEAN
    BY <1>3, <1>4
  <2>2. ios_stopped' \in BOOLEAN
    BY <1>3, <1>4
  <2>3. stopper' \in {"idle", "flagged", "joining", "returned"}
    BY <1>3
  <2> QED BY <2>1, <2>2, <2>3 DEF IInv, TypeOK
<1>7. WorkerInv'
  BY <1>5 DEF IInv, WorkerInv
<1>8. OwnerInv'
  BY <1>2 DEF IInv, OwnerInv, Transfers, Completions
<1>9. AcceptInv'
  BY <1>2, <1>5 DEF IInv, AcceptInv
<1>10. WaitingInv'
  BY DEF IInv, WaitingInv
<1>11. ReplyInv'
  BY <1>2 DEF IInv, ReplyInv, Transfers, Completions
<1>12. StopInv'
  <2>1. is_stopped' <=> stopper' # "idle"
    BY <1>3 DEF IInv, StopInv
  <2>2. ios_stopped' <=> stopper' \in {"joining", "returned"}
    BY <1>3 DEF IInv, StopInv
  <2>3. stopper' = "returned" => \A w \in Workers : pc[w] = "exited"
    BY <1>3
  <2> QED BY <1>2, <1>5, <2>1, <2>2, <2>3 DEF IInv, StopInv
<1> QED BY <1>6, <1>7, <1>8, <1>9, <1>10, <1>11, <1>12 DEF IInv
-----------------------------------------------------------------------------
(***************************************************************************)
(* The reactor.                                                            *)
(***************************************************************************)

\* A client connects: the connection waits in the backlog, and nowhere else.
LEMMA ConnectPreserves ==
  ASSUME IInv, NEW c \in Connections, Connect(c)
  PROVE  IInv'
<1>1. /\ UNCHANGED <<worker, queue, accepting, listening, accept_errors, services, stop_vars, late>>
      /\ backlog' = backlog \cup {c} /\ service[c] = "none"
      /\ \A k \in DOMAIN queue : queue[k].conn # c
  BY DEF Connect
<1> USE <1>1 DEF worker, services, stop_vars
<1>2. /\ \A K : Places(K)' = Places(K)
      /\ \A d \in Connections : Inside(d)' = Inside(d)
      /\ InAcceptor' = InAcceptor
  BY DEF Places, Inside, InAcceptor
<1>3. TypeOK' /\ WorkerInv'
  BY DEF IInv, TypeOK, WorkerInv
<1>4. OwnerInv' /\ ReplyInv'
  BY <1>2 DEF IInv, OwnerInv, ReplyInv, Transfers, Completions
<1>5. AcceptInv' /\ StopInv'
  BY <1>2 DEF IInv, AcceptInv, StopInv
<1>6. WaitingInv'
  BY DEF IInv, WaitingInv
<1> QED BY <1>3, <1>4, <1>5, <1>6 DEF IInv

\* The outstanding accept ends, with a connection of the backlog or an error.
LEMMA AcceptPreserves ==
  ASSUME IInv, AcceptFailed \/ \E c \in Connections : AcceptReady(c)
  PROVE  IInv'
<1>1. PICK e \in Accepts :
        /\ queue' = Append(queue, e)
        /\ backlog' = backlog \ {e.conn}
        /\ e.ok => e.conn \in backlog
        /\ accept_errors' \in 0..MaxAcceptErrors
  <2>1. CASE AcceptFailed
    <3> DEFINE e == [kind |-> "accept", conn |-> None, ok |-> FALSE]
    <3>1. e \in Accepts
      BY DEF Accepts, Completions
    <3>2. queue' = Append(queue, e) /\ backlog' = backlog
      BY <2>1 DEF AcceptFailed, Enqueue
    <3>3. None \notin backlog
      BY ServerAssumption DEF IInv, TypeOK
    <3>4. accept_errors' \in 0..MaxAcceptErrors
      BY <2>1, ServerAssumption DEF AcceptFailed, IInv, TypeOK
    <3> QED BY <3>1, <3>2, <3>3, <3>4
  <2>2. ASSUME NEW c \in Connections, AcceptReady(c)
        PROVE  \E e \in Accepts :
                 /\ queue' = Append(queue, e)
                 /\ backlog' = backlog \ {e.conn}
                 /\ e.ok => e.conn \in backlog
                 /\ accept_errors' \in 0..MaxAcceptErrors
    <3> DEFINE e == [kind |-> "accept", conn |-> c, ok |-> TRUE]
    <3>1. e \in Accepts
      BY DEF Accepts, Completions
    <3>2. /\ queue' = Append(queue, e) /\ backlog' = backlog \ {c} /\ c \in backlog
          /\ accept_errors' = accept_errors
      BY <2>2 DEF AcceptReady, Enqueue
    <3> QED BY <3>1, <3>2 DEF IInv, TypeOK
  <2> QED BY <2>1, <2>2
<1>2. /\ UNCHANGED <<worker, listening, services, stop_vars, late>>
      /\ accepting /\ accepting' = FALSE /\ ~ios_stopped
  BY DEF AcceptFailed, AcceptReady
<1> USE <1>2 DEF worker, services, stop_vars
<1>3. queue \in Seq(Completions) /\ e \in Completions
  BY DEF IInv, TypeOK, Accepts
<1>4. Places(Accepts) = {} /\ InAcceptor = {} /\ listening /\ late = 0
  BY <1>2 DEF IInv, AcceptInv, StopInv
<1>5. Places(Accepts)' # {} /\ OneAtMost(Places(Accepts)')
  BY <1>1, <1>3, <1>4, EnqueuedPlaces
<1>6. \A d \in Connections : Places(Transfers(d))' = Places(Transfers(d))
  <2> TAKE d \in Connections
  <2> DEFINE K == Transfers(d)
  <2>1. K' = K /\ e \notin K
    BY <1>1 DEF Accepts, Transfers, Completions
  <2> HIDE DEF K
  <2>2. Places(K)' = Places(K)
    BY <1>1, <1>3, <2>1, EnqueuedPlaces
  <2> QED BY <2>1, <2>2 DEF K
<1>7. /\ \A d \in Connections : Inside(d)' = Inside(d)
      /\ InAcceptor' = InAcceptor
  BY DEF Inside, InAcceptor
<1>8. TypeOK'
  <2>1. queue' \in Seq(Completions)
    BY <1>1, <1>3, Enqueued
  <2> QED BY <1>1, <2>1 DEF IInv, TypeOK
<1>9. WorkerInv'
  BY DEF IInv, WorkerInv
<1>10. OwnerInv'
  BY <1>6, <1>7 DEF IInv, OwnerInv
<1>11. AcceptInv'
  BY <1>4, <1>5, <1>7
     DEF IInv, AcceptInv, OneAtMost
<1>12. WaitingInv'
  <2>1. \A c \in backlog' : service[c] = "none"
    BY <1>1 DEF IInv, WaitingInv
  <2>2. ASSUME NEW k \in DOMAIN queue'
        PROVE  /\ queue'[k].kind # "accept" => queue'[k].conn \in Connections
               /\ queue'[k].kind = "accept" /\ queue'[k].ok =>
                    /\ queue'[k].conn \in Connections \ backlog'
                    /\ service[queue'[k].conn] = "none"
    <3>1. CASE k \in DOMAIN queue
      <4>1. queue'[k] = queue[k]
        BY <1>1, <1>3, <3>1, Enqueued
      <4> QED BY <1>1, <3>1, <4>1 DEF IInv, WaitingInv
    <3>2. CASE k \notin DOMAIN queue
      <4>1. queue'[k] = e
        BY <1>1, <1>3, <3>2, Enqueued
      <4>2. e.kind = "accept"
        BY <1>1 DEF Accepts
      <4>3. e.ok => e.conn \in Connections \ backlog' /\ service[e.conn] = "none"
        BY <1>1 DEF IInv, TypeOK, WaitingInv
      <4> QED BY <4>1, <4>2, <4>3
    <3> QED BY <3>1, <3>2
  <2> QED BY <2>1, <2>2 DEF WaitingInv
<1>13. ReplyInv'
  BY <1>6, <1>7 DEF IInv, ReplyInv
<1>14. StopInv'
  BY <1>4 DEF IInv, StopInv
<1> QED BY <1>8, <1>9, <1>10, <1>11, <1>12, <1>13, <1>14 DEF IInv

\* The operation of a Service ends: it is in the queue instead of the reactor.
LEMMA TransferPreserves ==
  ASSUME IInv, NEW c \in Connections, TransferEnds(c)
  PROVE  IInv'
<1>1. /\ UNCHANGED <<worker, acceptor, service, replies, stop_vars, late>>
      /\ op[c] # "none" /\ op' = [op EXCEPT ![c] = "none"]
  BY DEF TransferEnds
<1>2. PICK e \in Transfers(c) : queue' = Append(queue, e)
  <2>1. PICK ok \in BOOLEAN : queue' = Append(queue, [kind |-> op[c], conn |-> c, ok |-> ok])
    BY DEF TransferEnds, Enqueue
  <2>2. op[c] \in {"read", "write"}
    BY <1>1 DEF IInv, TypeOK
  <2> QED BY <2>1, <2>2 DEF Transfers, Completions
<1> USE <1>1 DEF worker, acceptor, stop_vars
<1>3. queue \in Seq(Completions) /\ e \in Completions /\ e.kind # "accept" /\ e.conn = c
  BY DEF IInv, TypeOK, Transfers
<1>4. service[c] = "live" /\ Places(Transfers(c)) = {} /\ Inside(c) = {} /\ replies[c] = 0
  BY DEF IInv, OwnerInv, ReplyInv
<1>5. \A d \in Connections :
        IF d = c THEN Places(Transfers(d))' # {} /\ OneAtMost(Places(Transfers(d))')
                 ELSE Places(Transfers(d))' = Places(Transfers(d))
  <2> TAKE d \in Connections
  <2> DEFINE K == Transfers(d)
  <2>1. K' = K /\ (e \in K <=> d = c) /\ (d = c => Places(K) = {})
    BY <1>3, <1>4 DEF Transfers, Completions
  <2> HIDE DEF K
  <2>2. IF d = c THEN Places(K)' # {} /\ OneAtMost(Places(K)') ELSE Places(K)' = Places(K)
    BY <1>2, <1>3, <2>1, EnqueuedPlaces
  <2> QED BY <2>1, <2>2 DEF K
<1>6. Places(Accepts)' = Places(Accepts)
  <2>1. e \notin Accepts
    BY <1>3 DEF Accepts
  <2> QED BY <1>2, <1>3, <2>1, EnqueuedPlaces
<1>7. /\ \A d \in Connections : Inside(d)' = Inside(d)
      /\ InAcceptor' = InAcceptor
  BY DEF Inside, InAcceptor
<1>8. TypeOK'
  <2>1. queue' \in Seq(Completions)
    BY <1>2, <1>3, Enqueued
  <2> QED BY <2>1 DEF IInv, TypeOK
<1>9. WorkerInv'
  BY DEF IInv, WorkerInv
<1>10. OwnerInv'
  <2> SUFFICES ASSUME NEW d \in Connections
               PROVE  /\ service[d] = "live" <=>
                           (op'[d] # "none" \/ Places(Transfers(d))' # {} \/ Inside(d) # {})
                      /\ OneAtMost(Places(Transfers(d))')
                      /\ OneAtMost(Inside(d))
                      /\ op'[d] # "none" => Places(Transfers(d))' = {} /\ Inside(d) = {}
                      /\ Places(Transfers(d))' # {} => Inside(d) = {}
    BY <1>7 DEF OwnerInv
  <2>1. CASE d = c
    <3>1. op'[d] = "none"
      BY <2>1 DEF IInv, TypeOK
    <3> QED BY <1>4, <1>5, <2>1, <3>1 DEF OneAtMost
  <2>2. CASE d # c
    <3>1. op'[d] = op[d]
      BY <2>2 DEF IInv, TypeOK
    <3> QED BY <1>5, <2>2, <3>1 DEF IInv, OwnerInv
  <2> QED BY <2>1, <2>2
<1>11. AcceptInv'
  BY <1>6, <1>7 DEF IInv, AcceptInv
<1>12. WaitingInv'
  <2>1. ASSUME NEW k \in DOMAIN queue'
        PROVE  /\ queue'[k].kind # "accept" => queue'[k].conn \in Connections
               /\ queue'[k].kind = "accept" /\ queue'[k].ok =>
                    /\ queue'[k].conn \in Connections \ backlog
                    /\ service[queue'[k].conn] = "none"
    <3>1. CASE k \in DOMAIN queue
      <4>1. queue'[k] = queue[k]
        BY <1>2, <1>3, <3>1, Enqueued
      <4> QED BY <3>1, <4>1 DEF IInv, WaitingInv
    <3>2. CASE k \notin DOMAIN queue
      <4>1. queue'[k] = e
        BY <1>2, <1>3, <3>2, Enqueued
      <4> QED BY <1>3, <4>1
    <3> QED BY <3>1, <3>2
  <2> QED BY <2>1 DEF IInv, WaitingInv
<1>13. ReplyInv'
  <2>1. \A d \in Connections : replies[d] # 0 => d # c
    BY <1>4
  <2> QED BY <1>5, <1>7, <2>1 DEF IInv, ReplyInv, TypeOK
<1>14. StopInv'
  BY <1>6 DEF IInv, StopInv
<1> QED BY <1>8, <1>9, <1>10, <1>11, <1>12, <1>13, <1>14 DEF IInv
-----------------------------------------------------------------------------
LEMMA Inductive == IInv /\ [Next]_vars => IInv'
<1> SUFFICES ASSUME IInv, [Next]_vars PROVE IInv'
  OBVIOUS
<1>1. ASSUME NEW w \in Workers, WorkerStep(w) PROVE IInv'
  BY <1>1, OnAcceptPreserves, AcceptorPreserves, EnteringPreserves, LeavingPreserves,
     ExitPreserves DEF WorkerStep
<1>2. CASE StopStep
  BY <1>2, StopPreserves
<1>3. CASE NetworkStep
  BY <1>3, ConnectPreserves, AcceptPreserves, TransferPreserves DEF NetworkStep
<1>4. CASE UNCHANGED vars
  <2>1. /\ \A K : Places(K)' = Places(K)
        /\ \A c \in Connections : Inside(c)' = Inside(c)
        /\ InAcceptor' = InAcceptor
    BY <1>4 DEF vars, Places, Inside, InAcceptor
  <2>2. TypeOK' /\ WorkerInv' /\ WaitingInv'
    BY <1>4 DEF vars, IInv, TypeOK, WorkerInv, WaitingInv
  <2>3. OwnerInv' /\ ReplyInv'
    BY <1>4, <2>1 DEF vars, IInv, OwnerInv, ReplyInv, Transfers, Completions
  <2>4. AcceptInv' /\ StopInv'
    BY <1>4, <2>1 DEF vars, IInv, AcceptInv, StopInv
  <2> QED BY <2>2, <2>3, <2>4 DEF IInv
<1> QED BY <1>1, <1>2, <1>3, <1>4 DEF Next

LEMMA Invariance == Spec => []IInv
BY InitInv, Inductive, PTL DEF Spec

\* Every variable keeps its type; in particular no response is sent twice.
THEOREM TypeCorrect == Spec => []TypeOK
BY Invariance, PTL DEF IInv

\* A live Service has one operation, one completion or one worker inside it,
\* and nothing refers to one that deleted itself.
THEOREM Ownership == Spec => []ServiceOwnedOnce
<1>1. IInv => ServiceOwnedOnce
  <2> SUFFICES ASSUME IInv PROVE ServiceOwnedOnce
    OBVIOUS
  <2>1. \A k \in DOMAIN queue : queue[k] \in Completions
    BY LenProperties, ElementOfSeq DEF IInv, TypeOK
  <2>2. \A c \in Connections : Queued(c) = Places(Transfers(c))
    BY <2>1 DEF Queued, Places, Transfers
  <2> QED BY <2>2 DEF IInv, OwnerInv, OneAtMost, ServiceOwnedOnce
<1> QED BY <1>1, Invariance, PTL

\* The Acceptor has one accept under way until it closes the listening socket,
\* which it does only after Stop was called.
THEOREM AcceptingGoesOn == Spec => []AcceptChain
<1>1. IInv => AcceptChain
  <2> SUFFICES ASSUME IInv PROVE AcceptChain
    OBVIOUS
  <2>1. \A k \in DOMAIN queue : queue[k] \in Completions
    BY LenProperties, ElementOfSeq DEF IInv, TypeOK
  <2>2. QueuedAccepts = Places(Accepts)
    BY <2>1 DEF QueuedAccepts, Places, Accepts
  <2> QED BY <2>2 DEF IInv, AcceptInv, OneAtMost, AcceptChain
<1> QED BY <1>1, Invariance, PTL
-----------------------------------------------------------------------------
(***************************************************************************)
(* The server implements RequestServer.                                    *)
(***************************************************************************)
Statuses == [c \in Connections |-> ConnectionStatus(c)]

\* A step that leaves the Services and the responses alone leaves every status.
LEMMA StatusesKept ==
  ASSUME service' = service, replies' = replies
  PROVE  Statuses' = Statuses
BY DEF Statuses, ConnectionStatus

\* One that changes the Service of c changes the status of c.
LEMMA StatusMove ==
  ASSUME IInv, NEW c \in Connections, NEW to,
         service' = [service EXCEPT ![c] = to], replies' = replies
  PROVE  /\ to = "live" => Statuses' = [Statuses EXCEPT ![c] = "serving"]
         /\ to = "deleted" =>
              Statuses' = [Statuses EXCEPT ![c] = IF replies[c] = 1 THEN "answered" ELSE "dropped"]
<1>1. service'[c] = to /\ \A d \in Connections : d # c => service'[d] = service[d]
  BY DEF IInv, TypeOK
<1>2. \A d \in Connections : d # c => ConnectionStatus(d)' = ConnectionStatus(d)
  BY <1>1 DEF ConnectionStatus
<1>3. replies[c] \in {0, 1}
  BY DEF IInv, TypeOK
<1>4. /\ to = "live" => ConnectionStatus(c)' = "serving"
      /\ to = "deleted" =>
           ConnectionStatus(c)' = IF replies[c] = 1 THEN "answered" ELSE "dropped"
  BY <1>1, <1>3 DEF ConnectionStatus
<1>5. Statuses' = [Statuses EXCEPT ![c] = ConnectionStatus(c)']
  BY <1>2 DEF Statuses
<1> QED BY <1>4, <1>5

\* OnAccept takes a connection; a server that was told to stop is draining then.
LEMMA OnAcceptTakes ==
  ASSUME IInv, IInv', NEW w \in Workers, OnAccept(w)
  PROVE  (\E c \in Connections : Promise!Take(c)) \/ UNCHANGED <<Statuses, ServerMode>>
<1>1. Dispatch(w, "accept") /\ UNCHANGED <<replies, stop_vars>>
  BY DEF OnAccept
<1>2. CASE ~Head(queue).ok
  <2>1. UNCHANGED <<service, late>>
    BY <1>2 DEF OnAccept
  <2> QED BY <1>1, <2>1 DEF Statuses, ConnectionStatus, ServerMode, stop_vars
<1>3. CASE Head(queue).ok
  <2>1. PICK c \in Connections : c = Head(queue).conn /\ service[c] = "none"
    BY <1>1, <1>3, Dispatched DEF IInv, WaitingInv
  <2>2. /\ service' = [service EXCEPT ![c] = "live"]
        /\ late' = IF is_stopped THEN late + 1 ELSE late
    BY <1>3, <2>1 DEF OnAccept, StartHandling
  <2>3. Statuses[c] = "waiting" /\ Statuses' = [Statuses EXCEPT ![c] = "serving"]
    BY <1>1, <2>1, <2>2, StatusMove DEF Statuses, ConnectionStatus
  <2>4. late = 0 /\ stopper # "returned"
    BY <1>1, Dispatched DEF IInv, StopInv
  <2>5. is_stopped \in BOOLEAN
    BY DEF IInv, TypeOK
  <2>6. \/ ServerMode = "running" /\ ServerMode' = ServerMode
        \/ ServerMode = "stopping" /\ ServerMode' = "draining"
    BY <1>1, <2>2, <2>4, <2>5 DEF ServerMode, stop_vars
  <2> QED BY <2>3, <2>6 DEF Promise!Take, Promise!Move, Statuses
<1> QED BY <1>2, <1>3

\* OnFinish ends a Service, of a server that has not stopped.
LEMMA OnFinishFinishes ==
  ASSUME IInv, IInv', NEW w \in Workers, OnFinish(w)
  PROVE  \E c \in Connections : Promise!Finish(c)
<1>1. PICK c \in Connections : c = conn[w] /\ service[c] = "live"
  <2>1. conn[w] # None
    BY DEF OnFinish, IInv, WorkerInv
  <2> QED BY <2>1, AloneInside
<1>2. /\ service' = [service EXCEPT ![c] = "deleted"]
      /\ UNCHANGED <<replies, stop_vars, late>> /\ pc[w] = "finish"
  BY <1>1 DEF OnFinish
<1>3. replies[c] \in {0, 1}
  BY DEF IInv, TypeOK
<1>4. /\ Statuses[c] = "serving"
      /\ Statuses' = [Statuses EXCEPT ![c] = IF replies[c] = 1 THEN "answered" ELSE "dropped"]
  BY <1>1, <1>2, <1>3, StatusMove DEF Statuses, ConnectionStatus
<1>5. stopper # "returned"
  BY <1>2 DEF IInv, StopInv
<1>6. ServerMode # "stopped" /\ ServerMode' = ServerMode
  <2>1. is_stopped \in BOOLEAN /\ late \in Nat
    BY DEF IInv, TypeOK
  <2> QED BY <1>2, <1>5, <2>1 DEF ServerMode, stop_vars
<1> QED BY <1>4, <1>6 DEF Promise!Finish, Promise!Move, Statuses

\* Stop shows when the flag is set and when the pool is joined.
LEMMA StopShows ==
  ASSUME IInv, IInv', StopStep
  PROVE  Promise!Stop \/ Promise!Stopped \/ UNCHANGED <<Statuses, ServerMode>>
<1>1. Statuses' = Statuses /\ late' = late
  BY StatusesKept DEF StopStep, SetStopped, StopService, JoinPool, services
<1>2. is_stopped \in BOOLEAN /\ late \in Nat
  BY DEF IInv, TypeOK
<1>3. CASE SetStopped
  <2>1. ~is_stopped /\ is_stopped' /\ late = 0 /\ stopper # "returned" /\ stopper' # "returned"
    BY <1>2, <1>3 DEF SetStopped, IInv, StopInv
  <2> QED BY <1>1, <2>1 DEF ServerMode, Promise!Stop, Statuses
<1>4. CASE StopService
  <2>1. is_stopped' = is_stopped /\ stopper # "returned" /\ stopper' # "returned"
    BY <1>4 DEF StopService
  <2> QED BY <1>1, <2>1 DEF ServerMode
<1>5. CASE JoinPool
  <2>1. is_stopped /\ stopper # "returned" /\ stopper' = "returned"
    BY <1>5 DEF JoinPool, IInv, StopInv
  <2> QED BY <1>1, <1>2, <2>1 DEF ServerMode, Promise!Stopped, Statuses
<1> QED BY <1>3, <1>4, <1>5 DEF StopStep

\* Nothing else shows: a response is counted when its Service is still there.
LEMMA OtherSteps ==
  ASSUME IInv, IInv',
         \/ \E w \in Workers :
              \/ CheckStopped(w) \/ InitAccept(w) \/ CloseAcceptor(w)
              \/ OnRequestReceived(w) \/ ProcessRequest(w) \/ OnResponseSent(w)
              \/ Exit(w)
         \/ NetworkStep
         \/ UNCHANGED vars
  PROVE  UNCHANGED <<Statuses, ServerMode>>
<1>1. UNCHANGED <<service, stop_vars, late>>
  BY DEF CheckStopped, InitAccept, CloseAcceptor, OnRequestReceived, ProcessRequest,
         OnResponseSent, Exit, NetworkStep, Connect, AcceptReady, AcceptFailed, TransferEnds,
         vars, services, stop_vars
<1>2. ServerMode' = ServerMode
  BY <1>1 DEF ServerMode, stop_vars
<1>3. CASE UNCHANGED replies
  BY <1>1, <1>2, <1>3 DEF Statuses, ConnectionStatus
<1>4. ASSUME NEW w \in Workers, OnResponseSent(w) PROVE Statuses' = Statuses
  <2>1. Dispatch(w, "write")
    BY <1>4 DEF OnResponseSent
  <2>2. PICK c \in Connections :
          c = Head(queue).conn /\ Head(queue) \in Completions /\ Head(queue).kind = "write"
    BY <2>1, Dispatched DEF IInv, WaitingInv
  <2>3. service[c] = "live"
    <3>1. Head(queue) \in Transfers(c)
      BY <2>2 DEF Transfers
    <3>2. Places(Transfers(c)) # {}
      BY <2>1, <3>1, Dispatched
    <3> QED BY <3>2 DEF IInv, OwnerInv
  <2>4. \A d \in Connections : d # c => replies'[d] = replies[d]
    BY <1>4, <2>2 DEF OnResponseSent, IInv, TypeOK
  <2>5. ASSUME NEW d \in Connections PROVE ConnectionStatus(d)' = ConnectionStatus(d)
    BY <1>1, <2>3, <2>4 DEF ConnectionStatus
  <2> QED BY <2>5 DEF Statuses
<1>5. UNCHANGED replies \/ \E w \in Workers : OnResponseSent(w)
  BY DEF CheckStopped, InitAccept, CloseAcceptor, OnRequestReceived, ProcessRequest,
         Exit, NetworkStep, Connect, AcceptReady, AcceptFailed, TransferEnds,
         vars, services
<1> QED BY <1>2, <1>3, <1>4, <1>5

\* The server implements RequestServer: a connection is taken once and ends once,
\* one is taken after Stop at most, and a server that has stopped does nothing.
THEOREM Refinement == Spec => ImplementsRequestServer
<1>1. Init => Promise!Init
  <2> SUFFICES ASSUME Init PROVE Promise!Init
    OBVIOUS
  <2>1. \A c \in Connections : ConnectionStatus(c) = "waiting"
    BY DEF Init, ConnectionStatus
  <2>2. ServerMode = "running"
    BY DEF Init, ServerMode
  <2> QED BY <2>1, <2>2 DEF Promise!Init
<1>2. IInv /\ IInv' /\ [Next]_vars => [Promise!Next]_(Promise!vars)
  <2> SUFFICES ASSUME IInv, IInv', [Next]_vars
               PROVE  Promise!Next \/ UNCHANGED <<Statuses, ServerMode>>
    BY DEF Promise!vars, Statuses
  <2>1. ASSUME NEW w \in Workers, OnAccept(w)
        PROVE  Promise!Next \/ UNCHANGED <<Statuses, ServerMode>>
    BY <2>1, OnAcceptTakes DEF Promise!Next
  <2>2. ASSUME NEW w \in Workers, OnFinish(w) PROVE Promise!Next
    BY <2>2, OnFinishFinishes DEF Promise!Next
  <2>3. CASE StopStep
    BY <2>3, StopShows DEF Promise!Next
  <2>4. CASE \/ \E w \in Workers :
                  \/ CheckStopped(w) \/ InitAccept(w) \/ CloseAcceptor(w)
                  \/ OnRequestReceived(w) \/ ProcessRequest(w) \/ OnResponseSent(w)
                  \/ Exit(w)
             \/ NetworkStep
             \/ UNCHANGED vars
    BY <2>4, OtherSteps
  <2> QED BY <2>1, <2>2, <2>3, <2>4 DEF Next, WorkerStep
<1> QED
  BY <1>1, <1>2, Invariance, PTL DEF Spec, ImplementsRequestServer, Promise!Spec
=============================================================================
