---------------------------- MODULE MCStaffing ----------------------------
(***************************************************************************)
(* The employees module: assignments and employee rows, and the scopes in   *)
(* which both are reached, which share no state with them.  A behaviour      *)
(* moves one part of them, chosen at the start, so that the states of the     *)
(* parts add up instead of multiplying.                                       *)
(***************************************************************************)
EXTENDS Staffing, AccessScopes, TLC

CONSTANTS r1, r2, ann, bob

VARIABLE part

\* Assignments and rows: two requests about two employees and two slots; one
\* employee occupies the first slot, the other is hired or registered meanwhile.
MCSession == {r1, r2}
MCEmployee == {"ann", "bob"}
MCSlot == {"desk", "post"}
MCSlotFte == [desk |-> 2, post |-> 1]
MCStaff == [ann |-> "desk"]

\* Half-time work from today on that HR has to approve, and a primary
\* assignment from tomorrow on.
MCProposal ==
  {[fte |-> 1, from |-> 2, to |-> 4, primary |-> FALSE, reviewed |-> TRUE],
   [fte |-> 1, from |-> 3, to |-> 4, primary |-> TRUE, reviewed |-> FALSE]}

\* HR deactivates an employee, reinstates one, and enters a termination date.
MCEdit == {[active |-> FALSE], [status |-> "active", active |-> TRUE], [ends |-> 3]}

\* Scopes: two users, a head, a department and a team, two published versions.
MCActor == {ann, bob}

MCSymmetry == Permutations(MCSession) \cup Permutations(MCActor)

mcVars == <<vars, scopeVars, part>>

MCInit ==
  /\ Init /\ ScopesInit
  /\ \/ part = "scopes"
     \/ part \in {"assignments", "registry", "list"} /\ forest[1].parent = [k \in Unit \ {Root} |-> Root]

\* Everything but the registry of employees, with one request at most about what
\* ends; and everything but the creation and review of assignments.
Ops == IF part = "assignments" THEN Op \ {"update"} ELSE Op \ {"create", "hire", "review"}
StaffingStep ==
  /\ Next
  /\ \A s \in Session : session'[s].op \in Ops
  /\ part = "assignments" =>
       /\ \A s \in Session : ~Register(s)
       /\ Cardinality({s \in Session : session'[s].op \in {"end", "terminate", "invoke"}}) <= 1

\* Two grants, or a grant and a delegation, of units to users of whom one is placed.
Granted == Cardinality(UNION {{u} \X scopes'[u] : u \in Actor})
ScopesStep ==
  /\ ScopesNext
  /\ Granted + Cardinality(loans') <= 2 /\ Cardinality(loans') <= 1
  /\ \A u \in Actor : seat'[u].kind \in {"none", "primary"} /\ [type |-> "self"] \notin scopes'[u]
  /\ Cardinality({u \in Actor : seat'[u] # Nowhere}) <= 1
  /\ author' = author

\* One grant, an assignment of any kind next to a primary one, and one draft.
ListStep ==
  /\ ScopesNext
  /\ \E u \in Actor : seat'[u].kind \in {"none", "primary"}
  /\ Granted <= 1 /\ loans' = loans
  /\ Cardinality({u \in Actor : author'[u] # NoAuthor}) <= 1

MCNext ==
  /\ UNCHANGED part
  /\ \/ part \in {"assignments", "registry"} /\ StaffingStep /\ UNCHANGED scopeVars
     \/ part = "scopes" /\ ScopesStep /\ UNCHANGED vars
     \/ part = "list" /\ ListStep /\ UNCHANGED vars

MCSpec == MCInit /\ [][MCNext]_mcVars
===========================================================================
