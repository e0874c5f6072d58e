------------------------ MODULE MCHiringRequests ------------------------
(***************************************************************************)
(* Two browser tabs, three forms (complete, complete with secondary         *)
(* education, incomplete), one version of a file; stages as in the cfg.     *)
(***************************************************************************)
EXTENDS HiringRequests, TLC

CONSTANTS c1, c2, high, school, blank, x1

MCClient == {c1, c2}
MCForm == {high, school, blank}
MCIncomplete == {blank}
MCSecondary == {school}
MCFile == {x1}
===========================================================================
