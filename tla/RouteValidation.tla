------------------------- MODULE RouteValidation -------------------------
(***************************************************************************)
(* validate_definition: what makes a configured route publishable.  A route *)
(* is a set of active steps, named by their sequence number, and a set of   *)
(* active transitions, of which only source and target matter here.         *)
(* Duplicate codes and non-positive approver counts are ruled out by the    *)
(* database constraints; action and condition syntax is abstracted away.    *)
(***************************************************************************)
EXTENDS Naturals, FiniteSets

\* Transitions whose two ends are steps of the route: only these enter the graph.
GraphEdges(steps, edges) == edges \cap (steps \X steps)

\* The steps no transition leads to.
Roots(steps, edges) ==
  {s \in steps : \A e \in GraphEdges(steps, edges) : e[2] # s}

\* The steps the depth-first walk from r visits: the least set that holds r
\* and is closed under the transitions.
Reachable(steps, edges, r) ==
  {s \in steps :
     \A closed \in SUBSET steps :
       (/\ r \in closed
        /\ \A e \in GraphEdges(steps, edges) : e[1] \in closed => e[2] \in closed)
       => s \in closed}

\* validate_definition returns no ConfigurationProblem.
NoProblems(steps, edges) ==
  /\ edges \subseteq steps \X steps
  /\ \A e \in edges : e[1] # e[2]
  /\ \E r \in steps :
       /\ Roots(steps, edges) = {r}
       /\ Reachable(steps, edges, r) = steps
===========================================================================
