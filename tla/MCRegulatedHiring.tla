------------------------ MODULE MCRegulatedHiring ------------------------
(* Small instances of RegulatedHiring for TLC. *)
EXTENDS RegulatedHiring, TLC

CONSTANTS x1, x2

MCSession == {x1, x2}
MCSymmetry == Permutations(MCSession)
===========================================================================
