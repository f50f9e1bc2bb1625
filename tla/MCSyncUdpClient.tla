-------------------------- MODULE MCSyncUdpClient --------------------------
(***************************************************************************)
(* The instance of SyncUdpClient for TLC.                                  *)
(***************************************************************************)
EXTENDS SyncUdpClient
=============================================================================
