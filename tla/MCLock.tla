----------------------------- MODULE MCLock -----------------------------
(* Instances of Lock for TLC.                                              *)
EXTENDS Lock

CONSTANTS p1, p2, p3

=============================================================================
