------------------------- MODULE HttpRequestProofs -------------------------
(***************************************************************************)
(* Proofs about HttpRequest, for any number of requests, of Cancels and of *)
(* partial transfers.                                                      *)
(***************************************************************************)
EXTENDS HttpRequest, TLAPS

(***************************************************************************)
(* The inductive invariant.                                                *)
(***************************************************************************)

\* The thread is inside the handler of the one request whose operation ended
\* and whose next is not begun; the body's handler does not get there.
HandlingInv ==
  \A r \in Requests :
    /\ phase[r] = "idle" => stage[r] = 0
    /\ phase[r] \in InFlight => stage[r] # 0
    /\ handling = r =>
         phase[r] \in {"checking", "checked", "spinning"} /\ stage[r] \in 1..Headers
    /\ phase[r] \in {"checking", "spinning"} => handling = r
    /\ phase[r] = "checked" /\ stage[r] # 0 => handling = r

\* AtMostOneOperationAfterCancel; the operation that the Cancel missed is begun
\* after the check, so none is about to be begun behind it.
CancelInv ==
  \A r \in Requests :
    /\ cancelled_at[r] <= stage[r]
    /\ was_cancelled[r] =>
         \/ stage[r] = cancelled_at[r]
         \/ stage[r] = cancelled_at[r] + 1 /\ phase[r] # "checked"

\* The callback is the last thing that happens to a request.
CalledInv ==
  \A r \in Requests : called[r] # 0 => phase[r] = "finished" /\ stage[r] = Body

IInv == TypeOK /\ HandlingInv /\ CancelInv /\ CalledInv

Phases == {"idle", "checking", "checked", "spinning", "finished"} \cup InFlight
-----------------------------------------------------------------------------
LEMMA InitInv == Init => IInv
<1> SUFFICES ASSUME Init PROVE IInv
  OBVIOUS
<1>1. TypeOK
  <2>1. /\ stage \in [Requests -> 0..Body] /\ cancelled_at \in [Requests -> 0..Body]
        /\ pieces \in [Requests -> 0..MaxPieces] /\ cancels \in [Requests -> 0..MaxCancels]
        /\ called \in [Requests -> 0..1]
    BY RequestAssumption DEF Init, Body
  <2>2. was_cancelled \in [Requests -> BOOLEAN]
    BY DEF Init
  <2>3. work \in BOOLEAN /\ stopped \in BOOLEAN /\ crashed \in BOOLEAN
    BY DEF Init
  <2> QED BY <2>1, <2>2, <2>3 DEF Init, TypeOK
<1>2. HandlingInv
  BY RequestAssumption DEF Init, HandlingInv, InFlight, Queued
<1>3. CancelInv /\ CalledInv
  BY DEF Init, CancelInv, CalledInv
<1> QED BY <1>1, <1>2, <1>3 DEF IInv

\* A step that moves one request to another phase, with the thread inside it or
\* not, preserves the invariant if the move is one of these.
LEMMA PhasePreserves ==
  ASSUME IInv, NEW r \in Requests, NEW p \in Phases \ {"idle"}, Goto(r, p),
         UNCHANGED <<stage, cancel_vars, called>>,
         pieces' \in [Requests -> 0..MaxPieces],
         work' \in BOOLEAN, stopped' \in BOOLEAN, crashed' \in BOOLEAN,
         client' \in {"open", "join", "closed"},
         phase[r] # "finished",
         \/ /\ UNCHANGED handling
            /\ p = "checked" => stage[r] = 0 \/ handling = r
            /\ p \notin {"checking", "spinning"}
            /\ p \in InFlight => phase[r] \in InFlight
            /\ p # "checked" => handling # r
         \/ handling' = r /\ handling = None /\ p = "checking" /\ stage[r] \in 1..Headers
         \/ UNCHANGED handling /\ handling = r /\ p = "spinning"
         \/ handling' = None /\ handling = r /\ p = "finished",
         p = "checked" => ~was_cancelled[r]
  PROVE  IInv'
<1>1. /\ phase'[r] = p
      /\ \A s \in Requests : s # r => phase'[s] = phase[s]
      /\ phase' \in [Requests -> Phases]
  BY DEF IInv, TypeOK, Goto, Phases
<1>2. TypeOK'
  BY <1>1 DEF IInv, TypeOK, cancel_vars, Phases
<1>3. HandlingInv'
  BY <1>1, RequestAssumption DEF IInv, HandlingInv, InFlight, Queued
<1>4. CancelInv'
  BY <1>1 DEF IInv, CancelInv, cancel_vars
<1>5. CalledInv'
  BY <1>1 DEF IInv, CalledInv
<1> QED BY <1>2, <1>3, <1>4, <1>5 DEF IInv

\* A step that begins the next operation of r: no Cancel came before the check.
LEMMA BeginPreserves ==
  ASSUME IInv, NEW r \in Requests, BeginOp(r), phase[r] = "checked",
         \/ stage[r] = 0 /\ handling' = handling
         \/ handling = r /\ handling' = None,
         UNCHANGED <<cancel_vars, called, service, crashed>>
  PROVE  IInv'
<1>1. /\ stage[r] \in 0..Headers /\ stage'[r] = stage[r] + 1 /\ phase'[r] = "reactor"
      /\ \A s \in Requests : s # r => phase'[s] = phase[s] /\ stage'[s] = stage[s]
  BY DEF IInv, TypeOK, HandlingInv, BeginOp, Goto, Headers
<1>2. TypeOK'
  <2>1. stage' \in [Requests -> 0..Body]
    BY <1>1 DEF IInv, TypeOK, BeginOp, Headers, Body
  <2>2. pieces' \in [Requests -> 0..MaxPieces]
    BY RequestAssumption DEF IInv, TypeOK, BeginOp
  <2>3. phase' \in [Requests -> Phases]
    BY DEF IInv, TypeOK, BeginOp, Goto, Phases, InFlight
  <2> QED BY <2>1, <2>2, <2>3 DEF IInv, TypeOK, cancel_vars, service, Phases
<1>3. HandlingInv'
  BY <1>1, RequestAssumption DEF IInv, HandlingInv, InFlight, Queued, Headers
<1>4. CancelInv'
  <2>1. cancelled_at[r] <= stage[r] /\ (was_cancelled[r] => stage[r] = cancelled_at[r])
    BY <1>1 DEF IInv, CancelInv, TypeOK
  <2> QED BY <1>1, <2>1 DEF IInv, TypeOK, CancelInv, cancel_vars, Headers, Body
<1>5. CalledInv'
  BY <1>1 DEF IInv, CalledInv
<1> QED BY <1>2, <1>3, <1>4, <1>5 DEF IInv

\* A Cancel records the stage it found, and leaves the handlers alone.
LEMMA CancelPreserves ==
  ASSUME IInv, NEW r \in Requests, Cancel(r)
  PROVE  IInv'
<1>1. /\ UNCHANGED <<stage, handling, called, service, crashed>>
      /\ was_cancelled' = [was_cancelled EXCEPT ![r] = TRUE]
      /\ cancelled_at' = [cancelled_at EXCEPT ![r] = IF was_cancelled[r] THEN @ ELSE stage[r]]
      /\ cancels' = [cancels EXCEPT ![r] = @ + 1] /\ cancels[r] < MaxCancels
  BY DEF Cancel
<1>2. \/ /\ phase[r] = "reactor"
         /\ \/ phase' = [phase EXCEPT ![r] = "partial"] /\ pieces[r] < MaxPieces
            \/ phase' = [phase EXCEPT ![r] = "aborted"]
      \/ phase' = phase
  BY DEF Cancel, AbortOperation, Goto
<1>3. \A s \in Requests :
        \/ phase'[s] = phase[s]
        \/ phase[s] = "reactor" /\ phase'[s] \in {"partial", "aborted"}
  BY <1>2 DEF IInv, TypeOK
<1>4. pieces' = pieces \/ (pieces' = [pieces EXCEPT ![r] = @ + 1] /\ pieces[r] < MaxPieces)
  BY <1>2 DEF Cancel, IInv, TypeOK
<1>5. TypeOK'
  <2>1. phase' \in [Requests -> Phases]
    BY <1>2 DEF IInv, TypeOK, Phases, InFlight, Queued
  <2>2. pieces' \in [Requests -> 0..MaxPieces]
    BY <1>4, RequestAssumption DEF IInv, TypeOK
  <2>3. cancels' \in [Requests -> 0..MaxCancels]
    BY <1>1, RequestAssumption DEF IInv, TypeOK
  <2>4. cancelled_at' \in [Requests -> 0..Body]
    BY <1>1 DEF IInv, TypeOK
  <2>5. was_cancelled' \in [Requests -> BOOLEAN]
    BY <1>1 DEF IInv, TypeOK
  <2> QED BY <1>1, <2>1, <2>2, <2>3, <2>4, <2>5 DEF IInv, TypeOK, service, Phases
<1>6. HandlingInv'
  BY <1>1, <1>3 DEF IInv, HandlingInv, InFlight, Queued
<1>7. CancelInv'
  BY <1>1, <1>3 DEF IInv, TypeOK, CancelInv
<1>8. CalledInv'
  BY <1>1, <1>3 DEF IInv, CalledInv
<1> QED BY <1>5, <1>6, <1>7, <1>8 DEF IInv

\* The last handler ends the request and calls back.
LEMMA CallbackPreserves ==
  ASSUME IInv, NEW r \in Requests, OnResponseBodyReceived(r)
  PROVE  IInv'
<1>1. /\ UNCHANGED <<stage, pieces, handling, cancel_vars, work, client, crashed>>
      /\ phase[r] = "ok" /\ stage[r] = Body
      /\ phase' = [phase EXCEPT ![r] = "finished"]
      /\ called' = [called EXCEPT ![r] = @ + 1]
      /\ stopped' \in BOOLEAN
  BY DEF OnResponseBodyReceived, Goto, StopIfIdle, IInv, TypeOK
<1>2. called[r] = 0
  BY <1>1 DEF IInv, TypeOK, CalledInv
<1>3. TypeOK'
  BY <1>1, <1>2 DEF IInv, TypeOK, cancel_vars
<1>4. HandlingInv'
  BY <1>1 DEF IInv, TypeOK, HandlingInv, InFlight, Queued
<1>5. CancelInv'
  BY <1>1 DEF IInv, TypeOK, CancelInv, cancel_vars
<1>6. CalledInv'
  BY <1>1 DEF IInv, TypeOK, CalledInv
<1> QED BY <1>3, <1>4, <1>5, <1>6 DEF IInv
-----------------------------------------------------------------------------
LEMMA Inductive == IInv /\ [Next]_vars => IInv'
<1> SUFFICES ASSUME IInv, [Next]_vars PROVE IInv'
  OBVIOUS
<1>1. ASSUME NEW r \in Requests,
             Execute(r) \/ OperationEnds(r) \/ Transfer(r) \/ Resume(r) \/ OnError(r)
      PROVE  IInv'
  <2>1. PICK p \in Phases \ {"idle"} :
          /\ Goto(r, p)
          /\ p \in {"checked", "finished"} \cup InFlight
          /\ p = "checked" => phase[r] = "idle" /\ ~was_cancelled[r]
          /\ p \in InFlight => phase[r] \in InFlight
          /\ phase[r] \notin {"finished", "checking", "checked", "spinning"}
    BY <1>1 DEF Execute, OperationEnds, Transfer, Resume, OnError, Phases, InFlight, Queued
  <2>2. UNCHANGED <<stage, handling, cancel_vars, called, work, client, crashed>>
    BY <1>1 DEF Execute, OperationEnds, Transfer, Resume, OnError, service
  <2>3. pieces' \in [Requests -> 0..MaxPieces]
    BY <1>1, RequestAssumption
       DEF Execute, OperationEnds, Transfer, Resume, OnError, IInv, TypeOK
  <2>4. stopped' \in BOOLEAN
    BY <1>1 DEF Execute, OperationEnds, Transfer, Resume, OnError, service, StopIfIdle,
                IInv, TypeOK
  <2>5. handling # r /\ (phase[r] = "idle" => stage[r] = 0)
    BY <2>1 DEF IInv, HandlingInv
  <2>6. work \in BOOLEAN /\ crashed \in BOOLEAN /\ client \in {"open", "join", "closed"}
    BY DEF IInv, TypeOK
  <2>7. p \notin {"checking", "spinning"}
    BY <2>1 DEF InFlight, Queued
  <2> QED BY <2>1, <2>2, <2>3, <2>4, <2>5, <2>6, <2>7, PhasePreserves
<1>2. ASSUME NEW r \in Requests, AsyncResolve(r) PROVE IInv'
  <2>1. /\ BeginOp(r) /\ phase[r] = "checked" /\ stage[r] = 0 /\ handling' = handling
        /\ UNCHANGED <<cancel_vars, called, service, crashed>>
    BY <1>2 DEF AsyncResolve
  <2> QED BY <2>1, BeginPreserves
<1>3. ASSUME NEW r \in Requests, Cancel(r) PROVE IInv'
  BY <1>3, CancelPreserves
<1>4. ASSUME NEW r \in Requests, OnCompletion(r) PROVE IInv'
  <2>1. stage[r] \in 1..Headers
    BY <1>4 DEF OnCompletion, IInv, TypeOK, HandlingInv, InFlight, Queued, Headers, Body
  <2>2. "checking" \in Phases \ {"idle"} /\ phase[r] # "finished"
    BY <1>4 DEF OnCompletion, Phases
  <2>3. /\ Goto(r, "checking") /\ handling' = r /\ handling = None
        /\ UNCHANGED <<stage, pieces, cancel_vars, called, work, stopped, client, crashed>>
    BY <1>4 DEF OnCompletion, Free, service
  <2>4. pieces \in [Requests -> 0..MaxPieces] /\ client \in {"open", "join", "closed"}
    BY DEF IInv, TypeOK
  <2>5. work \in BOOLEAN /\ stopped \in BOOLEAN /\ crashed \in BOOLEAN
    BY DEF IInv, TypeOK
  <2> QED BY <2>1, <2>2, <2>3, <2>4, <2>5, PhasePreserves
<1>5. ASSUME NEW r \in Requests, OnResponseBodyReceived(r) PROVE IInv'
  BY <1>5, CallbackPreserves
<1>6. CASE IsCancelled \/ InvalidResponse \/ HeaderLoopSpins
  <2>1. PICK r \in Requests, p \in {"checked", "spinning", "finished"} :
          /\ handling = r /\ Goto(r, p) /\ phase[r] # "finished"
          /\ p = "checked" => ~was_cancelled[r]
          /\ p # "finished" => handling' = handling
          /\ p = "finished" => handling' = None
    BY <1>6 DEF IsCancelled, InvalidResponse, HeaderLoopSpins, IInv, TypeOK
  <2>2. /\ UNCHANGED <<stage, pieces, cancel_vars, called, work, client, crashed>>
        /\ stopped' \in BOOLEAN
    BY <1>6 DEF IsCancelled, InvalidResponse, HeaderLoopSpins, StopIfIdle, service, IInv, TypeOK
  <2>3. p \in Phases \ {"idle"} /\ p \notin InFlight
    BY DEF Phases, InFlight, Queued
  <2> QED BY <2>1, <2>2, <2>3, PhasePreserves DEF IInv, TypeOK
<1>7. CASE BeginNext
  BY <1>7, BeginPreserves DEF BeginNext, IInv, TypeOK
<1>8. CASE ResetWork \/ Join \/ ShutdownThrows \/ UNCHANGED vars
  <2>1. UNCHANGED <<stage, phase, pieces, handling, cancel_vars, called>>
    BY <1>8 DEF ResetWork, Join, ShutdownThrows, vars, cancel_vars
  <2>2. work' \in BOOLEAN /\ crashed' \in BOOLEAN
    BY <1>8 DEF ResetWork, Join, ShutdownThrows, vars, service, IInv, TypeOK
  <2>3. stopped' \in BOOLEAN
    BY <1>8 DEF ResetWork, Join, ShutdownThrows, vars, service, StopIfIdle, IInv, TypeOK
  <2>4. client' \in {"open", "join", "closed"}
    BY <1>8 DEF ResetWork, Join, ShutdownThrows, vars, service, IInv, TypeOK
  <2>5. TypeOK'
    BY <2>1, <2>2, <2>3, <2>4 DEF IInv, TypeOK, cancel_vars
  <2> QED BY <2>1, <2>5 DEF IInv, HandlingInv, CancelInv, CalledInv, cancel_vars
<1> QED
  BY <1>1, <1>2, <1>3, <1>4, <1>5, <1>6, <1>7, <1>8 DEF Next, ThreadStep

LEMMA Invariance == Spec => []IInv
BY InitInv, Inductive, PTL DEF Spec

\* Every variable keeps its type; in particular no callback is called twice.
THEOREM TypeCorrect == Spec => []TypeOK
BY Invariance, PTL DEF IInv

\* A Cancel that falls between the check of the flag and the next operation
\* misses that operation and no other, however many Cancels there are.
THEOREM CancelMissesOneAtMost == Spec => []AtMostOneOperationAfterCancel
<1>1. IInv => AtMostOneOperationAfterCancel
  BY DEF IInv, TypeOK, CancelInv, AtMostOneOperationAfterCancel
<1> QED BY <1>1, Invariance, PTL

\* The io_service stops only when no request is under way.
THEOREM Drained == Spec => StopsOnlyWhenDrained
<1>1. IInv' /\ [Next]_vars =>
        [stopped' /\ ~stopped =>
           \A r \in Requests :
             \/ phase'[r] \in {"idle", "finished"}
             \/ phase'[r] = "checked" /\ stage'[r] = 0]_vars
  <2> SUFFICES ASSUME IInv', Next, stopped', ~stopped, NEW r \in Requests
               PROVE  \/ phase'[r] \in {"idle", "finished"}
                      \/ phase'[r] = "checked" /\ stage'[r] = 0
    BY DEF vars
  <2>1. StopIfIdle
    BY DEF Next, ThreadStep, Execute, AsyncResolve, Cancel, ResetWork, Join, OnError,
           OnCompletion, OnResponseBodyReceived, IsCancelled, BeginNext, InvalidResponse,
           HeaderLoopSpins, ShutdownThrows, Resume, OperationEnds, Transfer, service
  <2>2. handling' = None /\ phase'[r] \notin InFlight
    BY <2>1 DEF StopIfIdle
  <2>3. phase'[r] \in Phases
    BY DEF IInv, TypeOK, Phases
  <2> QED BY <2>2, <2>3, RequestAssumption DEF IInv, HandlingInv, Phases
<1> QED BY <1>1, Invariance, PTL DEF Spec, StopsOnlyWhenDrained
-----------------------------------------------------------------------------
(***************************************************************************)
(* A request implements CancellableRequest.                                *)
(***************************************************************************)
Statuses == [r \in Requests |-> RequestStatus(r)]

\* The status of a request, by the things it depends on.
LEMMA StatusCases ==
  ASSUME IInv, NEW r \in Requests
  PROVE  /\ phase[r] = "finished" =>
              RequestStatus(r) = IF called[r] > 0 THEN "succeeded" ELSE "failed"
         /\ phase[r] # "finished" =>
              RequestStatus(r) = IF CountsAsCancelled(r) THEN "cancelled"
                                 ELSE IF phase[r] = "idle" THEN "idle" ELSE "active"
<1>1. called[r] \in 0..1 /\ CountsAsCancelled(r) \in BOOLEAN
  BY DEF IInv, TypeOK, CountsAsCancelled
<1> QED BY <1>1 DEF RequestStatus

\* A step shows only in the status of the one request it is about, which is
\* begun, goes on, ends or is cancelled.
LEMMA StepOfOne ==
  ASSUME IInv, IInv', NEW r \in Requests,
         \A s \in Requests \ {r} :
           /\ phase'[s] = phase[s] /\ called'[s] = called[s]
           /\ was_cancelled'[s] = was_cancelled[s] /\ cancelled_at'[s] = cancelled_at[s],
         \/ /\ phase[r] # "finished" /\ phase'[r] # "idle"
            /\ phase[r] = "idle" /\ phase'[r] = "finished" => CountsAsCancelled(r)
            /\ UNCHANGED cancel_vars
         \/ /\ phase'[r] = phase[r] \/ {phase[r], phase'[r]} \cap {"idle", "finished"} = {}
            /\ called'[r] = called[r]
            /\ CountsAsCancelled(r) => CountsAsCancelled(r)'
  PROVE  Request!Next \/ UNCHANGED Statuses
<1>1. \A s \in Requests \ {r} : RequestStatus(s)' = RequestStatus(s)
  BY DEF RequestStatus, CountsAsCancelled
<1>2. Statuses' = [Statuses EXCEPT ![r] = RequestStatus(r)']
  BY <1>1 DEF Statuses
<1>3. /\ phase[r] = "finished" =>
           RequestStatus(r) = IF called[r] > 0 THEN "succeeded" ELSE "failed"
      /\ phase[r] # "finished" =>
           RequestStatus(r) = IF CountsAsCancelled(r) THEN "cancelled"
                              ELSE IF phase[r] = "idle" THEN "idle" ELSE "active"
  BY StatusCases
<1>4. /\ phase'[r] = "finished" =>
           RequestStatus(r)' = IF called'[r] > 0 THEN "succeeded" ELSE "failed"
      /\ phase'[r] # "finished" =>
           RequestStatus(r)' = IF CountsAsCancelled(r)' THEN "cancelled"
                               ELSE IF phase'[r] = "idle" THEN "idle" ELSE "active"
  <2>1. called'[r] \in 0..1 /\ CountsAsCancelled(r)' \in BOOLEAN
    BY DEF IInv, TypeOK, CountsAsCancelled
  <2> QED BY <2>1 DEF RequestStatus
<1>5. called'[r] > 0 => ~CountsAsCancelled(r)'
  BY DEF IInv, TypeOK, CancelInv, CalledInv, CountsAsCancelled, Headers, Body
<1>6. /\ CountsAsCancelled(r) \in BOOLEAN /\ CountsAsCancelled(r)' \in BOOLEAN
      /\ UNCHANGED cancel_vars => CountsAsCancelled(r)' = CountsAsCancelled(r)
  BY DEF IInv, TypeOK, CountsAsCancelled, cancel_vars
<1>7. \/ RequestStatus(r)' = RequestStatus(r)
      \/ RequestStatus(r) = "idle" /\ RequestStatus(r)' = "active"
      \/ RequestStatus(r) \in {"idle", "active"} /\ RequestStatus(r)' = "cancelled"
      \/ RequestStatus(r) = "active" /\ RequestStatus(r)' = "succeeded"
      \/ RequestStatus(r) \in {"active", "cancelled"} /\ RequestStatus(r)' = "failed"
  BY <1>3, <1>4, <1>5, <1>6
<1>8. Statuses[r] = RequestStatus(r)
  BY DEF Statuses
<1>9. CASE RequestStatus(r)' = RequestStatus(r)
  <2>1. \A s \in Requests : RequestStatus(s)' = RequestStatus(s)
    BY <1>1, <1>9
  <2> QED BY <2>1 DEF Statuses
<1> QED
  BY <1>2, <1>7, <1>8, <1>9
     DEF Request!Next, Request!Begin, Request!Cancel, Request!Succeed, Request!Fail,
         Request!Move, Statuses

\* The client implements CancellableRequest for each of its requests: a Cancel
\* that comes before the headers are handled rules a success out.
THEOREM Refinement == Spec => ImplementsCancellableRequest
<1>1. Init => Request!Init
  BY DEF Init, Request!Init, RequestStatus, CountsAsCancelled
<1>2. IInv /\ IInv' /\ [Next]_vars => [Request!Next]_Statuses
  <2> SUFFICES ASSUME IInv, IInv', [Next]_vars PROVE Request!Next \/ UNCHANGED Statuses
    OBVIOUS
  <2>1. ASSUME NEW r \in Requests,
               \/ Execute(r) \/ AsyncResolve(r) \/ OperationEnds(r) \/ Transfer(r)
               \/ Resume(r) \/ OnError(r) \/ OnCompletion(r) \/ OnResponseBodyReceived(r)
        PROVE  Request!Next \/ UNCHANGED Statuses
    <3>1. PICK p \in Phases \ {"idle"} : phase' = [phase EXCEPT ![r] = p]
      BY <2>1 DEF Execute, AsyncResolve, OperationEnds, Transfer, Resume, OnError,
                  OnCompletion, OnResponseBodyReceived, BeginOp, Goto, Phases, InFlight, Queued
    <3>2. phase[r] # "finished" /\ (phase[r] = "idle" /\ p = "finished" => was_cancelled[r])
      <4>1. CASE Execute(r)
        BY <3>1, <4>1 DEF Execute, Goto, IInv, TypeOK
      <4>2. CASE ~Execute(r)
        BY <2>1, <4>2 DEF AsyncResolve, OperationEnds, Transfer, Resume, OnError,
                          OnCompletion, OnResponseBodyReceived
      <4> QED BY <4>1, <4>2
    <3>3. UNCHANGED cancel_vars
      BY <2>1 DEF Execute, AsyncResolve, OperationEnds, Transfer, Resume, OnError,
                  OnCompletion, OnResponseBodyReceived
    <3>4. \A s \in Requests \ {r} : called'[s] = called[s]
      BY <2>1 DEF Execute, AsyncResolve, OperationEnds, Transfer, Resume, OnError,
                  OnCompletion, OnResponseBodyReceived, IInv, TypeOK
    <3>5. CountsAsCancelled(r) \/ ~(phase[r] = "idle" /\ p = "finished")
      <4>1. phase[r] = "idle" /\ was_cancelled[r] => cancelled_at[r] = 0
        BY DEF IInv, TypeOK, HandlingInv, CancelInv
      <4> QED BY <3>2, <4>1 DEF CountsAsCancelled, Headers
    <3> QED BY <3>1, <3>2, <3>3, <3>4, <3>5, StepOfOne DEF cancel_vars, IInv, TypeOK
  <2>2. ASSUME NEW r \in Requests, Cancel(r) PROVE Request!Next \/ UNCHANGED Statuses
    <3>1. /\ called' = called
          /\ was_cancelled' = [was_cancelled EXCEPT ![r] = TRUE]
          /\ cancelled_at' = [cancelled_at EXCEPT ![r] = IF was_cancelled[r] THEN @ ELSE stage[r]]
      BY <2>2 DEF Cancel
    <3>2. \/ phase[r] = "reactor" /\ phase' = [phase EXCEPT ![r] = "partial"]
          \/ phase[r] = "reactor" /\ phase' = [phase EXCEPT ![r] = "aborted"]
          \/ phase' = phase
      BY <2>2 DEF Cancel, AbortOperation, Goto
    <3>3. /\ phase'[r] = phase[r] \/ {phase[r], phase'[r]} \cap {"idle", "finished"} = {}
          /\ \A s \in Requests \ {r} : phase'[s] = phase[s]
      BY <3>2 DEF IInv, TypeOK
    <3>4. CountsAsCancelled(r) => CountsAsCancelled(r)'
      BY <3>1 DEF CountsAsCancelled, IInv, TypeOK
    <3>5. \A s \in Requests \ {r} :
            was_cancelled'[s] = was_cancelled[s] /\ cancelled_at'[s] = cancelled_at[s]
      BY <3>1 DEF IInv, TypeOK
    <3> QED BY <3>1, <3>3, <3>4, <3>5, StepOfOne
  <2>3. CASE IsCancelled \/ BeginNext \/ InvalidResponse \/ HeaderLoopSpins
    <3>1. PICK r \in Requests, p \in {"checked", "spinning", "finished", "reactor"} :
            /\ phase' = [phase EXCEPT ![r] = p] /\ phase[r] \in {"checking", "checked"}
      BY <2>3 DEF IsCancelled, BeginNext, InvalidResponse, HeaderLoopSpins, BeginOp, Goto, IInv,
                  TypeOK
    <3>2. UNCHANGED <<cancel_vars, called>>
      BY <2>3 DEF IsCancelled, BeginNext, InvalidResponse, HeaderLoopSpins
    <3> QED BY <3>1, <3>2, StepOfOne DEF cancel_vars, IInv, TypeOK
  <2>4. CASE ResetWork \/ Join \/ ShutdownThrows \/ UNCHANGED vars
    <3>1. UNCHANGED <<phase, called, was_cancelled, cancelled_at>>
      BY <2>4 DEF ResetWork, Join, ShutdownThrows, vars, cancel_vars
    <3> QED BY <3>1 DEF Statuses, RequestStatus, CountsAsCancelled
  <2> QED BY <2>1, <2>2, <2>3, <2>4 DEF Next, ThreadStep
<1> QED
  BY <1>1, <1>2, Invariance, PTL
     DEF Spec, ImplementsCancellableRequest, Request!Spec, Statuses
=============================================================================
