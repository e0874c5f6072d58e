----------------------------- MODULE MCHiring -----------------------------
(***************************************************************************)
(* A case of four stages with two requests on one of its forms; or two      *)
(* candidates for one slot.  A behaviour moves one of these, chosen at the   *)
(* start.  With everybody hired or refused, recruitment may stop.            *)
(***************************************************************************)
EXTENDS RegulatedHiring, Recruitment, TLC

CONSTANTS x1, x2, r1, c1, c2

VARIABLE part

MCSession == {x1, x2}
MCHandler == {r1}
MCCandidate == {c1, c2}
\* Of two members one has a conflict; a board that decides and one that cannot.
Board == [members |-> 2, conflicts |-> 1, quorum |-> 1]
Biased == [members |-> 2, conflicts |-> 1, quorum |-> 2]
MCCommission == {Board, Biased}
MCSymmetry == Permutations(MCSession) \cup Permutations(MCCandidate)

MCInit == part \in {"regulated", "recruitment"} /\ Init /\ RecruitmentInit

Stopped == UNCHANGED recruitmentVars

MCNext ==
  /\ UNCHANGED part
  /\ \/ part = "regulated" /\ Next /\ UNCHANGED recruitmentVars
     \/ part = "recruitment" /\ (RecruitmentNext \/ Stopped) /\ UNCHANGED vars

MCSpec == MCInit /\ [][MCNext]_<<part, vars, recruitmentVars>>
===========================================================================
