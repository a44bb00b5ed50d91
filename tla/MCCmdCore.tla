--------------------------- MODULE MCCmdCore ---------------------------
(***************************************************************************)
(* Constants for model checking CmdCore.                                   *)
(***************************************************************************)
EXTENDS CmdCore

CONSTANTS s1, s2, s3

\* a sequence of two commands, and sessions of a single one
MCNCmd == [s \in Sess |-> IF s = s1 THEN 2 ELSE 1]

=============================================================================
