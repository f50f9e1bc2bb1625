-------------------------- MODULE MCBufferTransfer --------------------------
(***************************************************************************)
(* Instances of BufferTransfer for TLC.                                    *)
(***************************************************************************)
EXTENDS BufferTransfer
=============================================================================
