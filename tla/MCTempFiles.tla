----------------------------- MODULE MCTempFiles -----------------------------
(* A small instance of TempFiles.                                          *)
EXTENDS TempFiles, TLC

CONSTANTS p1, p2, p3, p4

Paths == {p1, p2, p3, p4}

Symmetry == Permutations(Paths) \union Permutations(Worker)
=============================================================================
