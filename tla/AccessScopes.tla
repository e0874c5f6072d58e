---------------------------- MODULE AccessScopes ----------------------------
(***************************************************************************)
(* Which organization units a permission reaches.  A role is granted within *)
(* a scope that names units of some published version of the organization,  *)
(* every publication gives the units new row ids under the same stable key, *)
(* and the backend works scopes out twice: the authorization port decides   *)
(* for one unit, and the employees module takes a snapshot of all units an  *)
(* actor reaches and filters with it, once in SQL and once in Python.       *)
(*                                                                         *)
(* One organization, one permission (employees.read, whose holder also sees *)
(* the drafts he created), and only rows in force: one that runs out is      *)
(* revoked.  A published row never changes.                                  *)
(***************************************************************************)
EXTENDS Naturals

CONSTANTS Actor,        \* users with an account, each of them an employee
          Unit, Root,   \* stable keys
          MaxPublished  \* bound: published versions

ASSUME RootAssumption == Root \in Unit
ASSUME PublishedAssumption == MaxPublished \in Nat \ {0}

\* In the place of a unit: the organization as a whole.
NoUnit == <<0, Root>>

\* The trees of valid structures: active units hang on active units below Root, which is to
\* say that no set closed under the children of its members holds Root but not all of them.
Tree ==
  LET shapes == {t \in [active : SUBSET Unit, parent : [Unit \ {Root} -> Unit]] : Root \in t.active}
      children(t, K) == {k \in t.active \ {Root} : t.parent[k] \in K}
  IN {t \in shapes :
        /\ \A K \in SUBSET Unit : Root \in K /\ children(t, K) \subseteq K => t.active \subseteq K
        /\ \A k \in Unit \ t.active : t.parent[k] = Root}

\* Rows of units: the version and the key.
UnitRow == (1..MaxPublished) \X Unit

Scope == [type : {"self", "own_unit", "own_unit_and_descendants", "organization"}]
         \cup [type : {"selected_units"}, unit : UnitRow]

Loan == [from : Actor, to : Actor, type : {"permissions", "organization"}]
        \cup [from : Actor, to : Actor, type : {"unit"}, unit : UnitRow]

\* An assignment: the unit its slot belongs to, and what it counts for.
Seat == [at : UnitRow, kind : {"primary", "secondary", "pending_review"}]

VARIABLES forest,   \* the trees of the published versions, the last one in force
          seat,     \* the assignment of each employee
          scopes,   \* the scopes of the roles that grant the permission, by user
          loans,    \* the delegations of it
          author    \* for an employee who is a draft, the user who created it

scopeVars == <<forest, seat, scopes, loans, author>>

Nowhere == [at |-> <<1, Root>>, kind |-> "none"]
NoAuthor == "nobody"

ScopesTypeOK ==
  /\ DOMAIN forest \subseteq 1..MaxPublished /\ \A v \in DOMAIN forest : forest[v] \in Tree
  /\ seat \in [Actor -> Seat \cup {Nowhere}]
  /\ scopes \in [Actor -> SUBSET Scope]
  /\ loans \subseteq Loan
  /\ author \in [Actor -> Actor \cup {NoAuthor}]

ScopesInit ==
  /\ forest \in [{1} -> {t \in Tree : t.active = Unit}]
  /\ seat = [u \in Actor |-> Nowhere]
  /\ scopes = [u \in Actor |-> {}]
  /\ loans = {}
  /\ author = [u \in Actor |-> NoAuthor]

---------------------------------------------------------------------------
(* The authorization port: may a user act on one unit? *)

InForceVersion == CHOOSE v \in DOMAIN forest : \A w \in DOMAIN forest : w <= v

ActiveRow(row) == row[1] \in DOMAIN forest /\ row[2] \in forest[row[1]].active

\* user_unit_ids: the units in force of the user's primary or acting assignment.
OwnUnits(u) ==
  {row \in {InForceVersion} \X Unit :
     ActiveRow(row) /\ seat[u].kind = "primary" /\ seat[u].at[2] = row[2]}

\* The key of a unit and the keys above it, in one version: the least set with the key that
\* is closed under parents.
Above(row) ==
  LET tree == forest[row[1]] IN
  {k \in Unit : \A K \in SUBSET Unit :
     row[2] \in K /\ (\A j \in K \ {Root} : tree.parent[j] \in K) => k \in K}

\* The tree of the candidate's version decides; the ancestor is found by its key.
IsDescendantOrSame(ancestor, candidate) == ActiveRow(candidate) /\ ancestor[2] \in Above(candidate)

\* Slip: a unit below is taken for the unit, too.
SameUnitOrBelow(a, b) == a = b \/ IsDescendantOrSame(a, b)

\* Two rows are taken for the same unit if each is above the other, each in the
\* tree of the other's version.
SameUnit(a, b) == a = b \/ (IsDescendantOrSame(a, b) /\ IsDescendantOrSame(b, a))

\* scope_allows, of a unit or of the organization as a whole.
ScopeAllows(scope, u, row) ==
  \/ scope.type = "organization"
  \/ /\ row # NoUnit
     /\ \/ scope.type = "selected_units" /\ SameUnit(scope.unit, row)
        \/ scope.type = "own_unit" /\ \E own \in OwnUnits(u) : SameUnit(own, row)
        \/ scope.type = "own_unit_and_descendants"
             /\ \E own \in OwnUnits(u) : IsDescendantOrSame(own, row)

RoleAllows(u, row) == \E scope \in scopes[u] : ScopeAllows(scope, u, row)

LoanMatches(loan, row) ==
  loan.type = "unit" => row # NoUnit /\ loan.unit[2] = row[2]

\* DelegationAwareAuthorizationAdapter.require
Allowed(u, row) ==
  \/ RoleAllows(u, row)
  \/ \E loan \in loans : loan.to = u /\ LoanMatches(loan, row) /\ RoleAllows(loan.from, row)

---------------------------------------------------------------------------
(* The snapshot of the employees module *)

CurrentRows == {row \in {InForceVersion} \X Unit : ActiveRow(row)}

\* own_and_descendants, through the children of the version in force.
OwnAndDescendants(u) ==
  {row \in CurrentRows : \E own \in OwnUnits(u) : own[2] \in Above(row)}

\* selected_unit_remap
Selected(scope) == {row \in CurrentRows : row[2] = scope.unit[2]}

RoleRows(u) ==
  UNION {CASE scope.type = "selected_units" -> Selected(scope)
           [] scope.type = "own_unit" -> OwnUnits(u)
           [] scope.type = "own_unit_and_descendants" -> OwnAndDescendants(u)
           [] OTHER -> {} : scope \in scopes[u]}

\* A delegation is tried for the organization, then for one unit after the other.
LoanReachesAll(u, loan) ==
  loan.to = u /\ loan.type \in {"permissions", "organization"} /\ Allowed(u, NoUnit)

LoanRows(u, loan) ==
  {row \in CurrentRows :
     /\ loan.to = u /\ ~LoanReachesAll(u, loan) /\ loan.type # "organization"
     /\ Allowed(u, row)}

\* get_employee_actor
Snapshot(u) ==
  [employee |-> u,
   everywhere |-> \/ \E scope \in scopes[u] : scope.type = "organization"
                  \/ \E loan \in loans : LoanReachesAll(u, loan),
   self |-> \E scope \in scopes[u] : scope.type = "self",
   holds |-> scopes[u] # {} \/ \E loan \in loans : LoanReachesAll(u, loan) \/ LoanRows(u, loan) # {},
   rows |-> RoleRows(u) \cup UNION {LoanRows(u, loan) : loan \in loans}]

\* Actor.allows_unit
AllowsUnit(actor, row) ==
  actor.everywhere \/ row \in actor.rows \/ row[2] \in {r[2] : r \in actor.rows}

\* Slip: the rows of the slots are compared, which keep the version they were made in.
VisibleByRow(actor, e) ==
  \/ actor.everywhere
  \/ actor.self /\ e = actor.employee
  \/ author[e] = actor.employee
  \/ seat[e].kind \in {"primary", "secondary"} /\ seat[e].at \in actor.rows

\* _visible_query: what the list shows and its total counts.
Visible(actor, e) ==
  \/ actor.everywhere
  \/ actor.self /\ e = actor.employee
  \/ author[e] = actor.employee
  \/ /\ seat[e].kind \in {"primary", "secondary"}
     /\ seat[e].at[2] \in {r[2] : r \in {x \in actor.rows : ActiveRow(x)}}

\* _has_employee_scope: what may be opened.
HasEmployeeScope(actor, e) ==
  \/ actor.self /\ e = actor.employee
  \/ actor.everywhere
  \/ author[e] = actor.employee
  \/ seat[e].kind # "none" /\ AllowsUnit(actor, seat[e].at)

\* list_employees: the rows of the query that may be opened, and how many there are.
Listed(actor) ==
  {e \in Actor : actor.holds /\ Visible(actor, e) /\ HasEmployeeScope(actor, e)}
Counted(actor) == {e \in Actor : actor.holds /\ Visible(actor, e)}

\* get_employee
Opened(actor) == {e \in Actor : actor.holds /\ HasEmployeeScope(actor, e)}

---------------------------------------------------------------------------
(* What changes *)

\* publish_structure: the next version, with the units of the last one moved about.
PublishTree(tree) ==
  /\ InForceVersion < MaxPublished
  /\ forest' = [v \in DOMAIN forest \cup {InForceVersion + 1} |->
                  IF v \in DOMAIN forest THEN forest[v] ELSE tree]
  /\ UNCHANGED <<seat, scopes, loans, author>>

\* assign_role, with a unit of the version in force, and revoke_role_assignment.
GrantScope(u, scope) ==
  /\ scope \notin scopes[u] /\ (scope.type = "selected_units" => scope.unit \in CurrentRows)
  /\ scopes' = [scopes EXCEPT ![u] = @ \cup {scope}]
  /\ UNCHANGED <<forest, seat, loans, author>>

RevokeScope(u, scope) ==
  /\ scope \in scopes[u]
  /\ scopes' = [scopes EXCEPT ![u] = @ \ {scope}]
  /\ UNCHANGED <<forest, seat, loans, author>>

\* create_delegation: whoever manages delegations everywhere may lend what the
\* delegator does not have.
Lend(loan) ==
  /\ loan.from # loan.to /\ loan \notin loans /\ (loan.type = "unit" => loan.unit \in CurrentRows)
  /\ loans' = loans \cup {loan}
  /\ UNCHANGED <<forest, seat, scopes, author>>

TakeBack(loan) ==
  /\ loans' = loans \ {loan}
  /\ UNCHANGED <<forest, seat, scopes, author>>

\* An assignment begins in the structure in force, and ends.
TakeSeat(u, kind) ==
  /\ seat[u] = Nowhere
  /\ \E row \in CurrentRows : seat' = [seat EXCEPT ![u] = [at |-> row, kind |-> kind]]
  /\ UNCHANGED <<forest, scopes, loans, author>>

LeaveSeat(u) ==
  /\ seat[u] # Nowhere
  /\ seat' = [seat EXCEPT ![u] = Nowhere]
  /\ UNCHANGED <<forest, scopes, loans, author>>

\* create_employee as a draft, which becomes an employee in service later.
CreateDraftEmployee(u, e) ==
  /\ u # e /\ author[e] = NoAuthor
  /\ author' = [author EXCEPT ![e] = u]
  /\ UNCHANGED <<forest, seat, scopes, loans>>

ActivateEmployee(e) ==
  /\ author[e] # NoAuthor
  /\ author' = [author EXCEPT ![e] = NoAuthor]
  /\ UNCHANGED <<forest, seat, scopes, loans>>

ScopesNext ==
  \/ \E tree \in Tree : PublishTree(tree)
  \/ \E u \in Actor :
       \/ \E scope \in Scope : GrantScope(u, scope)
       \/ \E scope \in scopes[u] : RevokeScope(u, scope)
       \/ \E kind \in {"primary", "secondary", "pending_review"} : TakeSeat(u, kind)
       \/ LeaveSeat(u)
       \/ \E e \in Actor : CreateDraftEmployee(u, e)
       \/ ActivateEmployee(u)
  \/ \E loan \in Loan : Lend(loan)
  \/ \E loan \in loans : TakeBack(loan)

ScopesSpec == ScopesInit /\ [][ScopesNext]_scopeVars

---------------------------------------------------------------------------
(* Properties *)

\* A selected unit that was above another when the role was granted and is below
\* it now, or the other way round, is taken for it by the authorization port.
TurnedRound(u, row) ==
  \E scope \in scopes[u] \cup UNION {scopes[loan.from] : loan \in {l \in loans : l.to = u}} :
    /\ scope.type = "selected_units" /\ scope.unit[2] # row[2] /\ ActiveRow(scope.unit)
    /\ scope.unit[2] \in Above(row) /\ row[2] \in Above(scope.unit)

\* The employees module and the authorization port agree about every unit of the
\* version in force, whatever was published since the roles were granted: the
\* snapshot never reaches further, and falls short only of a delegation for the
\* whole organization from somebody who now holds units, and of a unit that was
\* turned round (get_employee_actor next to DelegationAwareAuthorizationAdapter).
ScopesAgree ==
  \A u \in Actor : LET actor == Snapshot(u) IN
    /\ actor.everywhere <=> Allowed(u, NoUnit)
    /\ \A row \in CurrentRows :
         /\ AllowsUnit(actor, row) => Allowed(u, row)
         /\ Allowed(u, row) => \/ AllowsUnit(actor, row) \/ TurnedRound(u, row)
                               \/ \E loan \in loans : /\ loan.to = u /\ loan.type = "organization"
                                                     /\ RoleAllows(loan.from, row)

\* Whoever is listed can be opened, so no page is shorter than its total says, and
\* whoever can be opened is listed, except by an assignment that waits for its
\* review; an assignment in a unit of an earlier version counts for the unit of
\* the same key (_visible_query next to _has_employee_scope).
ListedIsWithinScope ==
  \A u \in Actor : LET actor == Snapshot(u) IN
    /\ Listed(actor) = Counted(actor)
    /\ \A e \in Opened(actor) : e \in Listed(actor) \/ seat[e].kind = "pending_review"
===========================================================================
