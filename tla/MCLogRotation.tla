--------------------------- MODULE MCLogRotation ---------------------------
(***************************************************************************)
(* Instances of LogRotation for TLC.                                       *)
(***************************************************************************)
EXTENDS LogRotation

CONSTANTS p1, p2
=============================================================================
