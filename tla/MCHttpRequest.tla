--------------------------- MODULE MCHttpRequest ---------------------------
(***************************************************************************)
(* Instances of HttpRequest for TLC.                                       *)
(***************************************************************************)
EXTENDS HttpRequest, TLC

CONSTANTS r1, r2

\* Requests are interchangeable.
MCSymmetry == Permutations(Requests)
=============================================================================
