---------------------------- MODULE MCRepoAgent ----------------------------
(* Instances of RepoAgent for TLC.                                         *)
EXTENDS RepoAgent

CONSTANTS p1, s1

=============================================================================
