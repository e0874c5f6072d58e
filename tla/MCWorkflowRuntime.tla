------------------------ MODULE MCWorkflowRuntime ------------------------
(***************************************************************************)
(* Routes of two steps for three users: one approver each, all of several,  *)
(* any of several, with and without a way back.                              *)
(***************************************************************************)
EXTENDS WorkflowRuntime, TLC

CONSTANTS x1, x2

MCStep == {1, 2}
MCUser == {1, 2, 3}
MCSession == {x1, x2}
MCSymmetry == Permutations(MCSession)

\* Transitions 1 -> 2 by approval, and those of "more".
Forward(more) ==
  [k \in MCStep \X Action |->
     IF k = <<1, "approve">> THEN 2 ELSE IF k \in DOMAIN more THEN more[k] ELSE NoStep]

MCRoute(required, mode, parallel, more) ==
  [first |-> 1, required |-> [s \in MCStep |-> required], mode |-> [s \in MCStep |-> mode],
   parallel |-> parallel, allowed |-> [s \in MCStep |-> Action], goto |-> Forward(more)]

Back == <<2, "return">> :> 1
Escalate == <<1, "reject">> :> 2

MCSequential == {MCRoute(1, "all", {}, Back), MCRoute(1, "any", {}, Back)}

MCRoutes == MCSequential \cup
  {MCRoute(required, mode, parallel, Escalate) :
     required \in {1, 2}, mode \in {"all", "any"}, parallel \in {{}, MCStep}}

MCHolders == {[s \in MCStep |-> IF s = 1 THEN a ELSE b] :
                a \in {{1, 2}, {3}}, b \in {{2, 3}, {3}, {}}}
MCDelegates == {<<2, 1>>, <<2, 3>>}
===========================================================================
