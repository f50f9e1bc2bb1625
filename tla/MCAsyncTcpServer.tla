-------------------------- MODULE MCAsyncTcpServer --------------------------
(***************************************************************************)
(* Instances of AsyncTcpServer for TLC.                                    *)
(***************************************************************************)
EXTENDS AsyncTcpServer

CONSTANTS c1, c2, c3, w1, w2
=============================================================================
