----------------------------- MODULE MCAbsence -----------------------------
(* Small instances of Absence for TLC. *)
EXTENDS Absence, TLC

CONSTANTS l1, l2, t1

MCOneLeave == {l1}
MCTwoLeaves == {l1, l2}
MCOneTrip == {t1}

MCOneReviewer == [s \in Stage |-> {1}]
MCTwoHR == [s \in Stage |-> IF s = "hr_review" THEN {1, 2} ELSE {1}]

MCSameYear == [d \in 1..LastDay |-> 1]
\* The last day is the first of the next year.
MCTwoYears == [d \in 1..LastDay |-> IF d = LastDay THEN 2 ELSE 1]

MCEntitled == [y \in {1} |-> 2]
MCEntitledTwice == [y \in {1, 2} |-> IF y = 1 THEN 2 ELSE 1]

MCSymmetry == Permutations({l1, l2})
===========================================================================
