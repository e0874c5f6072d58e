------------------------- MODULE MCAdministration -------------------------
(***************************************************************************)
(* Parts of the administration that share no state: forms, document        *)
(* templates and authority.  A behaviour moves one of them, chosen at the   *)
(* start, so that their states add up instead of multiplying.               *)
(***************************************************************************)
EXTENDS FormVersions, DocumentTemplates, Authority, FiniteSets, TLC

CONSTANTS x1, x2, ann, bob, cyd, root

VARIABLE part

MCSession == {x1, x2}
Staff == {ann, bob, cyd}
MCUser == Staff \cup {root}
ShortPeriod == [from |-> 1, to |-> 2]
LongPeriod == [from |-> 1, to |-> 3]
MCPeriod == {ShortPeriod, LongPeriod}
MCSymmetry == Permutations(Staff)

mcVars == <<part, formVars, templateVars, authorityVars>>

MCInit ==
  /\ part \in {"forms", "templates", "delegation", "access", "roles"}
  /\ FormInit /\ TemplateInit /\ AuthorityInit
  /\ assignment[1].user = root /\ assignment[1].period = LongPeriod

Delegates(c) == c.op = "delegate" => root \notin {c.row.delegator, c.row.delegate}

\* Two requests delegate at once; nobody leaves.
Delegating ==
  /\ \A x \in Request : call'[x].op \in {"idle", "delegate"} /\ Delegates(call'[x])
  /\ UNCHANGED disabled

\* One request manages rows of the shorter period, while it lasts and each without a
\* pause, until the check of the other is decided; at most one user leaves, and the administrator stays.
Decided == call[x2].op = "granted" \/ (call[x2].op = "delegated" /\ call[x2].open = {})
Checking ==
  /\ ~Decided
  /\ call[x1] # Quiet => call'[x1] # call[x1]
  /\ call'[x1].op \in {"idle", "manage", "managing", "assign", "delegate"} /\ Delegates(call'[x1])
  /\ call'[x1].op = "manage" => call'[x1].user = root
  /\ call'[x1].op \in {"assign", "delegate"} => call'[x1].row.period = ShortPeriod /\ now' = 1
  /\ call'[x1].op = "assign" => call'[x1].row.user # root /\ call'[x1].row.role = 2
  /\ call'[x2].op \in {"idle", "use", "denied", "delegated", "granted"}
  /\ call'[x2].op = "use" => call'[x2].user # root
  /\ UNCHANGED role /\ Len(assignment') <= 2 /\ assignment'[1] = assignment[1]
  /\ Cardinality({u \in User : disabled'[u] # 0}) <= 1 /\ disabled'[root] = 0

\* The administrator gives roles to ann, who uses them to give roles to bob, at once.
Managing ==
  /\ \A x \in Request :
       /\ call'[x].op \in {"idle", "manage", "managing", "assign"}
       /\ call'[x].op = "manage" => call'[x].user = (IF x = x1 THEN root ELSE ann)
       /\ call'[x].op = "assign" => /\ call'[x].row.user = (IF x = x1 THEN ann ELSE bob)
                                   /\ call'[x].row.role # 1 /\ call'[x].row.period = LongPeriod
  /\ Len(role') = 3 => role'[3].grants = Permission
  /\ UNCHANGED delegation /\ \A u \in {root, bob, cyd} : disabled'[u] = 0

MCNext ==
  /\ UNCHANGED part
  /\ \/ part = "forms" /\ FormNext /\ UNCHANGED <<templateVars, authorityVars>>
     \/ part = "templates" /\ TemplateNext /\ UNCHANGED <<formVars, authorityVars>>
     \/ part = "delegation" /\ AuthorityNext /\ Delegating /\ UNCHANGED <<formVars, templateVars>>
     \/ part = "access" /\ AuthorityNext /\ Checking /\ UNCHANGED <<formVars, templateVars>>
     \/ part = "roles" /\ AuthorityNext /\ Managing /\ UNCHANGED <<formVars, templateVars>>

MCSpec == MCInit /\ [][MCNext]_mcVars

TypeOK == FormTypeOK /\ TemplateTypeOK /\ AuthorityTypeOK
===========================================================================
