------------------------ MODULE StructureTimeline ------------------------
(***************************************************************************)
(* What publication promises: on every day exactly one structure version   *)
(* is in force, and a publication decides about the days from its effective *)
(* date on.  It is refused when a version already published starts on that *)
(* day or later, so nothing announced for the future is ever withdrawn.     *)
(***************************************************************************)
EXTENDS Naturals

CONSTANTS Version, LastDay

VARIABLE inForce   \* the version in force on each day

Day == 1..LastDay

TypeOK == inForce \in [Day -> Version]

\* The organization starts with one published version without an end.
Init == \E v \in Version : inForce = [d \in Day |-> v]

Publish(v, from) ==
  /\ \A d \in Day : inForce[d] # v
  /\ from - 1 \in Day /\ inForce[from - 1] = inForce[LastDay]
  /\ inForce' = [d \in Day |-> IF d < from THEN inForce[d] ELSE v]

Next == \E v \in Version, from \in Day : Publish(v, from)

Spec == Init /\ [][Next]_inForce
===========================================================================
