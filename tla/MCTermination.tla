--------------------------- MODULE MCTermination ---------------------------
(* Small instances of Termination for TLC. *)
EXTENDS Termination, TLC

CONSTANTS k1, k2

MCTwoCases == {k1, k2}

\* The secondary assignment starts tomorrow.
MCStart == [a \in Assignment |-> IF a = "office" THEN 1 ELSE 2]

MCSymmetry == Permutations({k1, k2})
===========================================================================
