--------------------------- MODULE MCTransaction ---------------------------
(* Instances of Transaction for TLC.                                       *)
EXTENDS Transaction

CONSTANTS d1, d2, bm

=============================================================================
