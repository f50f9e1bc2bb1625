--------------------------- MODULE RequestServer ---------------------------
(***************************************************************************)
(* What a server that answers one request per connection promises, with no *)
(* threads, sockets or queues: a connection is taken once and answered or  *)
(* dropped once; after the server was told to stop it takes one more       *)
(* connection at most; and once stopped it does nothing.                   *)
(***************************************************************************)
CONSTANT Connections

VARIABLES status, mode

vars == <<status, mode>>

Statuses == {"waiting", "serving", "answered", "dropped"}
Modes == {"running", "stopping", "draining", "stopped"}

TypeOK ==
  /\ status \in [Connections -> Statuses]
  /\ mode \in Modes

Init ==
  /\ status = [c \in Connections |-> "waiting"]
  /\ mode = "running"

Move(c, from, to) ==
  /\ status[c] = from
  /\ status' = [status EXCEPT ![c] = to]

Take(c) ==
  /\ Move(c, "waiting", "serving")
  /\ \/ mode = "running" /\ UNCHANGED mode
     \/ mode = "stopping" /\ mode' = "draining"

Finish(c) ==
  /\ mode # "stopped"
  /\ Move(c, "serving", "answered") \/ Move(c, "serving", "dropped")
  /\ UNCHANGED mode

Stop ==
  /\ mode = "running"
  /\ mode' = "stopping"
  /\ UNCHANGED status

Stopped ==
  /\ mode \in {"stopping", "draining"}
  /\ mode' = "stopped"
  /\ UNCHANGED status

Next ==
  \/ \E c \in Connections : Take(c) \/ Finish(c)
  \/ Stop
  \/ Stopped

Spec == Init /\ [][Next]_vars
=============================================================================
