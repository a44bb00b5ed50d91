----------------------------- MODULE MCDirstate -----------------------------
(* Instances of Dirstate for TLC.                                          *)
EXTENDS Dirstate, TLC

CONSTANTS f1, f2, c1, c2, c3

\* Two contents have the same size.
MCSize == [c \in Content |-> IF c = c3 THEN 1 ELSE 0]

\* Files are alike; contents are not, as one has another size.
Symmetry == Permutations(File)

=============================================================================
