------------------------------ MODULE MCPhases ------------------------------
(* Phases over all graphs of at most MaxNode changesets.                   *)
EXTENDS Phases
=============================================================================
