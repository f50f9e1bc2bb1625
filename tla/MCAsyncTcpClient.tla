-------------------------- MODULE MCAsyncTcpClient --------------------------
(***************************************************************************)
(* Instances of AsyncTcpClient for TLC.                                    *)
(***************************************************************************)
EXTENDS AsyncTcpClient, TLC

CONSTANTS s1, s2

\* Both requests are created with one id.
MCIdOfReused == (s1 :> 1) @@ (s2 :> 1)

\* Every request has an id of its own.
MCIdOfDistinct == (s1 :> 1) @@ (s2 :> 2)

\* Callers are interchangeable, and so are workers.
MCSymmetry == Permutations(Callers) \cup Permutations(Workers)
=============================================================================
