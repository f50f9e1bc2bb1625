------------------------- MODULE MCBlockingExchange -------------------------
(***************************************************************************)
(* The instance of BlockingExchange for TLC.                               *)
(***************************************************************************)
EXTENDS BlockingExchange
=============================================================================
