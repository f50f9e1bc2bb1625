------------------------- MODULE CancellableRequest -------------------------
(***************************************************************************)
(* What a client that issues cancellable asynchronous requests promises    *)
(* its caller, with no threads, locks or sockets: a request is begun once, *)
(* may be cancelled until it finishes, and finishes once; a cancelled      *)
(* request never finishes as a success, and a finished one never changes.  *)
(***************************************************************************)
CONSTANT Requests

VARIABLE status

Finished == {"succeeded", "failed"}

TypeOK == status \in [Requests -> {"idle", "active", "cancelled"} \cup Finished]

Move(r, from, to) ==
  /\ status[r] \in from
  /\ status' = [status EXCEPT ![r] = to]

Begin(r)   == Move(r, {"idle"}, "active")
Cancel(r)  == Move(r, {"idle", "active"}, "cancelled")
Succeed(r) == Move(r, {"active"}, "succeeded")
Fail(r)    == Move(r, {"active", "cancelled"}, "failed")

Init == status = [r \in Requests |-> "idle"]

Next == \E r \in Requests : Begin(r) \/ Cancel(r) \/ Succeed(r) \/ Fail(r)

Spec == Init /\ [][Next]_status
=============================================================================
