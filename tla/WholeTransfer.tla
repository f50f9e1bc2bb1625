--------------------------- MODULE WholeTransfer ---------------------------
(***************************************************************************)
(* What the transfer of a buffer promises the program that asks for it: it *)
(* never moves more than the buffer holds, never takes a byte back, and is *)
(* complete exactly when every byte was moved; otherwise it fails, once.   *)
(***************************************************************************)
EXTENDS Naturals

CONSTANT Length

VARIABLES moved, result

vars == <<moved, result>>

TypeOK == moved \in 0..Length /\ result \in {"pending", "complete", "failed"}

Init == moved = 0 /\ result = "pending"

\* Some bytes, or the last of them, which completes the transfer.
Move ==
  /\ result = "pending"
  /\ moved' \in 0..Length
  /\ moved' > moved
  /\ \/ UNCHANGED result
     \/ moved' = Length /\ result' = "complete"

Complete == result = "pending" /\ moved = Length /\ result' = "complete" /\ UNCHANGED moved

Fail == result = "pending" /\ result' = "failed" /\ UNCHANGED moved

Next == Move \/ Complete \/ Fail

Spec == Init /\ [][Next]_vars
=============================================================================
