---------------------- MODULE MCWorkflowDefinitions ----------------------
(***************************************************************************)
(* Two requests on a definition of at most three versions.  A route has at  *)
(* most one step and, wrongly, a transition of it to itself: the empty      *)
(* route and the self-cycle are what validation refuses.                    *)
(***************************************************************************)
EXTENDS WorkflowDefinitions, TLC

CONSTANTS s1, s2

MCSession == {s1, s2}
MCStep == {1}
MCEdge == {<<1, 1>>}
MCSymmetry == Permutations(MCSession)
===========================================================================
