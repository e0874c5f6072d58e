-------------------------- MODULE StaffingProofs --------------------------
(***************************************************************************)
(* Proofs about who is employed, who occupies which slot and who may see    *)
(* it: the scopes that access control answers with, the capacity of slots   *)
(* and employees, and what an employment operation may assume of the rows   *)
(* it has read.                                                             *)
(***************************************************************************)
EXTENDS Staffing, AccessScopes, FiniteSetTheorems, TLAPS

---------------------------------------------------------------------------
(* Trees.  Above(row) is Up of the tree of its version; a tree has no cycle, for the active      *)
(* units that are not above their own parents are closed under children.                        *)

Up(t, k) ==
  {j \in Unit : \A K \in SUBSET Unit :
     k \in K /\ (\A i \in K \ {Root} : t.parent[i] \in K) => j \in K}

LEMMA AboveIsUp == \A row : Above(row) = Up(forest[row[1]], row[2])
BY DEF Above, Up

LEMMA TreeFields ==
  ASSUME NEW t \in Tree
  PROVE  /\ t.active \subseteq Unit /\ Root \in t.active
         /\ \A k \in Unit : k # Root => t.parent[k] \in Unit
         /\ \A K \in SUBSET Unit :
              Root \in K /\ (\A k \in t.active : k # Root /\ t.parent[k] \in K => k \in K) => t.active \subseteq K
BY DEF Tree

LEMMA UpLeast ==
  ASSUME NEW t \in Tree, NEW k \in Unit, NEW K \in SUBSET Unit, k \in K,
         \A i \in K : i # Root => t.parent[i] \in K
  PROVE  Up(t, k) \subseteq K
BY DEF Up

LEMMA UpFacts ==
  ASSUME NEW t \in Tree, NEW k \in Unit
  PROVE  /\ k \in Up(t, k) /\ Up(t, k) \subseteq Unit
         /\ \A j \in Up(t, k) : j # Root => t.parent[j] \in Up(t, k)
<1>1. k \in Up(t, k) /\ Up(t, k) \subseteq Unit
  BY DEF Up
<1>2. ASSUME NEW j \in Up(t, k), j # Root PROVE t.parent[j] \in Up(t, k)
  <2>1. t.parent[j] \in Unit
    BY <1>2, TreeFields DEF Up
  <2> QED
    BY <1>2, <2>1 DEF Up
<1> QED
  BY <1>1, <1>2

LEMMA UpOfRoot ==
  ASSUME NEW t \in Tree
  PROVE  Up(t, Root) \subseteq {Root}
<1>1. {Root} \in SUBSET Unit /\ Root \in {Root} /\ \A i \in {Root} : i # Root => t.parent[i] \in {Root}
  BY RootAssumption
<1> QED
  BY <1>1, UpLeast

LEMMA UpStep ==
  ASSUME NEW t \in Tree, NEW k \in Unit, k # Root
  PROVE  Up(t, k) \subseteq {k} \cup Up(t, t.parent[k])
<1>1. PICK p \in Unit : p = t.parent[k]
  BY TreeFields
<1>2. PICK K \in SUBSET Unit : K = {k} \cup Up(t, p)
  BY UpFacts
<1>3. \A i \in K : i # Root => t.parent[i] \in K
  BY <1>1, <1>2, UpFacts
<1> QED
  BY <1>1, <1>2, <1>3, UpLeast

LEMMA UpWithin ==
  ASSUME NEW t \in Tree, NEW k \in Unit, NEW j \in Up(t, k)
  PROVE  Up(t, j) \subseteq Up(t, k)
<1>1. j \in Unit /\ Up(t, k) \in SUBSET Unit
  BY UpFacts
<1> QED
  BY <1>1, UpFacts, UpLeast

LEMMA NoCycle ==
  ASSUME NEW t \in Tree, NEW k \in t.active, k # Root
  PROVE  k \notin Up(t, t.parent[k])
<1>1. PICK K \in SUBSET Unit : K = {i \in Unit : i = Root \/ i \notin Up(t, t.parent[i])}
  OBVIOUS
<1>2. ASSUME NEW i \in t.active, i # Root, t.parent[i] \in K PROVE i \in K
  <2>1. PICK p \in Unit : p = t.parent[i]
    BY <1>2, TreeFields
  <2>2. i \in Unit
    BY TreeFields
  <2> SUFFICES ASSUME i \in Up(t, p) PROVE FALSE
    BY <1>1, <2>1, <2>2
  <2>3. p # Root
    BY <1>2, UpOfRoot
  <2>4. p \notin Up(t, t.parent[p]) /\ t.parent[p] \in Unit
    BY <1>1, <1>2, <2>1, <2>3, TreeFields
  <2>5. i \in {p} \cup Up(t, t.parent[p])
    BY <2>3, UpStep
  <2>6. CASE i = p
    <3>1. p \in Up(t, t.parent[p])
      BY <2>1, <2>2, <2>6, UpFacts
    <3> QED
      BY <2>4, <3>1
  <2>7. CASE i \in Up(t, t.parent[p])
    BY <1>2, <2>1, <2>4, <2>7, UpFacts
  <2> QED
    BY <2>5, <2>6, <2>7
<1>3. Root \in K
  BY <1>1, RootAssumption
<1>4. t.active \subseteq K
  BY <1>2, <1>3, TreeFields
<1> QED
  BY <1>1, <1>4

\* Two active units that are above each other are one.
LEMMA AboveEachOther ==
  ASSUME NEW t \in Tree, NEW a \in t.active, NEW b \in t.active, a \in Up(t, b), b \in Up(t, a)
  PROVE  a = b
<1> SUFFICES ASSUME a # b PROVE FALSE
  OBVIOUS
<1>1. a \in Unit /\ b \in Unit
  BY TreeFields
<1>2. b # Root
  BY UpOfRoot
<1>3. a \in Up(t, t.parent[b])
  BY <1>1, <1>2, UpStep
<1>4. t.parent[b] \in Unit
  BY <1>1, <1>2, TreeFields
<1>5. b \in Up(t, t.parent[b])
  BY <1>3, <1>4, UpWithin
<1> QED
  BY <1>2, <1>5, NoCycle

---------------------------------------------------------------------------
(* The versions there are, and the units that were granted: each is a unit of some version. *)

ScopesInv ==
  /\ ScopesTypeOK
  /\ \E n \in 1..MaxPublished : DOMAIN forest = 1..n
  /\ \A u \in Actor : \A scope \in scopes[u] : scope.type = "selected_units" => ActiveRow(scope.unit)

LEMMA InForce ==
  ASSUME ScopesInv
  PROVE  /\ DOMAIN forest = 1..InForceVersion /\ InForceVersion \in 1..MaxPublished
         /\ \A v \in DOMAIN forest : forest[v] \in Tree
<1>1. PICK n \in 1..MaxPublished : DOMAIN forest = 1..n
  BY DEF ScopesInv
<1>2. n \in DOMAIN forest /\ \A w \in DOMAIN forest : w <= n
  BY <1>1, PublishedAssumption
<1>3. InForceVersion \in DOMAIN forest /\ \A w \in DOMAIN forest : w <= InForceVersion
  BY <1>2 DEF InForceVersion
<1>4. InForceVersion = n
  BY <1>1, <1>2, <1>3, PublishedAssumption
<1> QED
  BY <1>1, <1>4 DEF ScopesInv, ScopesTypeOK

\* A unit of the version in force.
LEMMA CurrentRow ==
  ASSUME ScopesInv, NEW row \in CurrentRows
  PROVE  /\ row = <<InForceVersion, row[2]>> /\ row[1] = InForceVersion /\ row[2] \in Unit
         /\ ActiveRow(row) /\ row \in UnitRow /\ row # NoUnit /\ row[2] \in Above(row)
<1>1. PICK k \in Unit : row = <<InForceVersion, k>> /\ ActiveRow(row)
  BY DEF CurrentRows
<1>2. row[1] = InForceVersion /\ row[2] = k /\ row # <<0, Root>>
  BY <1>1, InForce, PublishedAssumption
<1>3. row[2] \in Above(row)
  BY <1>1, <1>2, UpFacts, InForce, AboveIsUp DEF ActiveRow
<1> QED
  BY <1>1, <1>2, <1>3, InForce DEF UnitRow, NoUnit

LEMMA OwnUnitsAreCurrent ==
  ASSUME ScopesInv, NEW u
  PROVE  OwnUnits(u) \subseteq CurrentRows
BY DEF OwnUnits, CurrentRows

LEMMA GrantedScope ==
  ASSUME ScopesInv, NEW u \in Actor, NEW scope \in scopes[u]
  PROVE  /\ scope \in Scope
         /\ scope.type = "selected_units" => scope.unit \in UnitRow /\ ActiveRow(scope.unit)
BY DEF ScopesInv, ScopesTypeOK, Scope

LEMMA GivenLoan ==
  ASSUME ScopesInv, NEW loan \in loans
  PROVE  /\ loan.from \in Actor /\ loan.to \in Actor
         /\ loan.type \in {"permissions", "organization", "unit"}
         /\ loan.type = "unit" => loan.unit \in UnitRow
BY DEF ScopesInv, ScopesTypeOK, Loan

\* What the grants of a role reach, by the snapshot and by the authorization port.
LEMMA InRoleRows ==
  ASSUME NEW u, NEW row
  PROVE  row \in RoleRows(u) <=>
           \E scope \in scopes[u] :
             \/ scope.type = "selected_units" /\ row \in Selected(scope)
             \/ scope.type = "own_unit" /\ row \in OwnUnits(u)
             \/ scope.type = "own_unit_and_descendants" /\ row \in OwnAndDescendants(u)
<1> DEFINE S(scope) == CASE scope.type = "selected_units" -> Selected(scope)
                         [] scope.type = "own_unit" -> OwnUnits(u)
                         [] scope.type = "own_unit_and_descendants" -> OwnAndDescendants(u)
                         [] OTHER -> {}
<1>1. row \in RoleRows(u) <=> \E scope \in scopes[u] : row \in S(scope)
  BY DEF RoleRows
<1>2. ASSUME NEW scope
      PROVE  row \in S(scope) <=>
               \/ scope.type = "selected_units" /\ row \in Selected(scope)
               \/ scope.type = "own_unit" /\ row \in OwnUnits(u)
               \/ scope.type = "own_unit_and_descendants" /\ row \in OwnAndDescendants(u)
  OBVIOUS
<1> HIDE DEF S
<1> QED
  BY <1>1, <1>2

LEMMA RoleRowsAreCurrent ==
  ASSUME ScopesInv, NEW u
  PROVE  RoleRows(u) \subseteq CurrentRows
BY InRoleRows, OwnUnitsAreCurrent DEF Selected, OwnAndDescendants

\* Every unit of the snapshot is one of the version in force.
LEMMA SnapshotIsCurrent ==
  ASSUME ScopesInv, NEW u
  PROVE  Snapshot(u).rows \subseteq CurrentRows
BY RoleRowsAreCurrent DEF Snapshot, LoanRows

\* A unit that was selected and one of the version in force.
LEMMA SelectedAgrees ==
  ASSUME ScopesInv, NEW row \in CurrentRows, NEW unit \in UnitRow, ActiveRow(unit)
  PROVE  /\ unit[2] = row[2] => SameUnit(unit, row)
         /\ SameUnit(unit, row) =>
              unit[2] = row[2] \/ (unit[2] \in Above(row) /\ row[2] \in Above(unit))
<1>1. forest[unit[1]] \in Tree /\ unit[2] \in Unit
  BY InForce DEF ActiveRow, UnitRow
<1>2. unit[2] \in Above(unit)
  BY <1>1, UpFacts, AboveIsUp
<1> QED
  BY <1>2, CurrentRow DEF SameUnit, IsDescendantOrSame

LEMMA OwnAgrees ==
  ASSUME ScopesInv, NEW row \in CurrentRows, NEW own \in CurrentRows, SameUnit(own, row)
  PROVE  own = row
<1> SUFFICES ASSUME own # row PROVE FALSE
  OBVIOUS
<1>1. own[2] \in Above(row) /\ row[2] \in Above(own)
  BY DEF SameUnit, IsDescendantOrSame
<1>2. own[1] = InForceVersion /\ row[1] = InForceVersion
  BY CurrentRow
<1>3. own[2] = row[2]
  BY <1>1, <1>2, CurrentRow, InForce, AboveIsUp, AboveEachOther DEF ActiveRow
<1> QED
  BY <1>3, CurrentRow

LEMMA RolesAgree ==
  ASSUME ScopesInv, NEW u \in Actor, NEW row \in CurrentRows
  PROVE  /\ row \in RoleRows(u) => RoleAllows(u, row)
         /\ RoleAllows(u, row) =>
              \/ RoleAllows(u, NoUnit) \/ row \in RoleRows(u)
              \/ \E scope \in scopes[u] :
                   /\ scope.type = "selected_units" /\ scope.unit[2] # row[2] /\ ActiveRow(scope.unit)
                   /\ scope.unit[2] \in Above(row) /\ row[2] \in Above(scope.unit)
<1>1. ASSUME row \in RoleRows(u) PROVE RoleAllows(u, row)
  <2>1. PICK scope \in scopes[u] :
          \/ scope.type = "selected_units" /\ row \in Selected(scope)
          \/ scope.type = "own_unit" /\ row \in OwnUnits(u)
          \/ scope.type = "own_unit_and_descendants" /\ row \in OwnAndDescendants(u)
    BY <1>1, InRoleRows
  <2>2. row # NoUnit
    BY CurrentRow
  <2>3. CASE scope.type = "selected_units" /\ row \in Selected(scope)
    <3>1. SameUnit(scope.unit, row)
      BY <2>3, GrantedScope, SelectedAgrees DEF Selected
    <3> QED
      BY <2>2, <2>3, <3>1 DEF RoleAllows, ScopeAllows
  <2>4. CASE scope.type = "own_unit" /\ row \in OwnUnits(u)
    BY <2>2, <2>4 DEF RoleAllows, ScopeAllows, SameUnit
  <2>5. CASE scope.type = "own_unit_and_descendants" /\ row \in OwnAndDescendants(u)
    BY <2>2, <2>5, CurrentRow DEF RoleAllows, ScopeAllows, OwnAndDescendants, IsDescendantOrSame
  <2> QED
    BY <2>1, <2>3, <2>4, <2>5
<1>2. ASSUME NEW scope \in scopes[u], ScopeAllows(scope, u, row)
      PROVE  \/ RoleAllows(u, NoUnit) \/ row \in RoleRows(u)
             \/ /\ scope.type = "selected_units" /\ scope.unit[2] # row[2] /\ ActiveRow(scope.unit)
                /\ scope.unit[2] \in Above(row) /\ row[2] \in Above(scope.unit)
  <2>1. CASE scope.type = "organization"
    BY <2>1 DEF RoleAllows, ScopeAllows
  <2>2. CASE scope.type = "selected_units" /\ SameUnit(scope.unit, row)
    <3>1. scope.unit \in UnitRow /\ ActiveRow(scope.unit)
      BY <2>2, GrantedScope
    <3>2. scope.unit[2] = row[2] \/ (scope.unit[2] \in Above(row) /\ row[2] \in Above(scope.unit))
      BY <2>2, <3>1, SelectedAgrees
    <3>3. scope.unit[2] = row[2] => row \in Selected(scope)
      BY DEF Selected
    <3> QED
      BY <2>2, <3>1, <3>2, <3>3, InRoleRows
  <2>3. CASE scope.type = "own_unit" /\ \E own \in OwnUnits(u) : SameUnit(own, row)
    BY <2>3, OwnUnitsAreCurrent, OwnAgrees, InRoleRows
  <2>4. CASE scope.type = "own_unit_and_descendants" /\ \E own \in OwnUnits(u) : IsDescendantOrSame(own, row)
    <3>1. row \in OwnAndDescendants(u)
      BY <2>4 DEF OwnAndDescendants, IsDescendantOrSame
    <3> QED
      BY <2>4, <3>1, InRoleRows
  <2> QED
    BY <1>2, <2>1, <2>2, <2>3, <2>4 DEF ScopeAllows
<1> QED
  BY <1>1, <1>2 DEF RoleAllows

---------------------------------------------------------------------------
(* The steps *)

LEMMA ScopesInits ==
  ASSUME ScopesInit
  PROVE  ScopesInv
<1>1. DOMAIN forest = 1..1 /\ 1 \in 1..MaxPublished /\ \A v \in DOMAIN forest : forest[v] \in Tree
  BY PublishedAssumption DEF ScopesInit
<1>2. ScopesTypeOK
  BY <1>1, PublishedAssumption DEF ScopesInit, ScopesTypeOK
<1> QED
  BY <1>1, <1>2 DEF ScopesInit, ScopesInv

LEMMA PublishKeeps ==
  ASSUME ScopesInv, NEW tree \in Tree, PublishTree(tree)
  PROVE  ScopesInv'
<1>1. PICK n \in Nat : n = InForceVersion
  BY InForce
<1>2. PICK m \in Nat : m = n + 1
  OBVIOUS
<1>3. /\ DOMAIN forest = 1..n /\ m \in 1..MaxPublished
      /\ \A v \in 1..n : forest[v] \in Tree
  BY <1>1, <1>2, InForce, PublishedAssumption DEF PublishTree
<1>4. /\ forest' = [v \in 1..n \cup {m} |-> IF v \in 1..n THEN forest[v] ELSE tree]
      /\ UNCHANGED <<seat, scopes, loans, author>>
  BY <1>1, <1>2, <1>3 DEF PublishTree
<1>5. 1..n \cup {m} = 1..m /\ m \notin 1..n
  BY <1>2
<1>6. DOMAIN forest' = 1..m /\ (\A v \in 1..n : forest'[v] = forest[v]) /\ forest'[m] = tree
  BY <1>4, <1>5
<1>7. \A v \in 1..m : forest'[v] \in Tree
  BY <1>3, <1>5, <1>6
<1>8. ScopesTypeOK'
  <2>1. DOMAIN forest' \subseteq 1..MaxPublished
    BY <1>3, <1>6, PublishedAssumption
  <2>2. \A v \in DOMAIN forest' : forest'[v] \in Tree
    BY <1>6, <1>7
  <2> QED
    BY <1>4, <2>1, <2>2 DEF ScopesInv, ScopesTypeOK
<1>9. ASSUME NEW row, ActiveRow(row) PROVE ActiveRow(row)'
  BY <1>3, <1>5, <1>6, <1>9 DEF ActiveRow
<1> QED
  BY <1>3, <1>4, <1>6, <1>8, <1>9 DEF ScopesInv

LEMMA GrantKeeps ==
  ASSUME ScopesInv, NEW u \in Actor, NEW scope \in Scope, GrantScope(u, scope)
  PROVE  ScopesInv'
<1>1. PICK granted : granted = scopes[u] \cup {scope}
  OBVIOUS
<1>2. /\ scopes' = [scopes EXCEPT ![u] = granted] /\ UNCHANGED <<forest, seat, loans, author>>
      /\ scope.type = "selected_units" => ActiveRow(scope.unit)
  BY <1>1 DEF GrantScope, CurrentRows
<1>3. scopes \in [Actor -> SUBSET Scope] /\ granted \in SUBSET Scope
  BY <1>1 DEF ScopesInv, ScopesTypeOK
<1>4. scopes' \in [Actor -> SUBSET Scope] /\ \A v \in Actor : scopes'[v] = IF v = u THEN granted ELSE scopes[v]
  BY <1>2, <1>3
<1>5. ScopesTypeOK'
  BY <1>2, <1>4 DEF ScopesInv, ScopesTypeOK
<1>6. \A v \in Actor : \A x \in scopes'[v] : x.type = "selected_units" => ActiveRow(x.unit)
  BY <1>1, <1>2, <1>4 DEF ScopesInv
<1> QED
  BY <1>2, <1>5, <1>6 DEF ScopesInv, ActiveRow

LEMMA RevokeKeeps ==
  ASSUME ScopesInv, NEW u \in Actor, NEW scope, RevokeScope(u, scope)
  PROVE  ScopesInv'
<1>1. PICK left : left = scopes[u] \ {scope}
  OBVIOUS
<1>2. scopes' = [scopes EXCEPT ![u] = left] /\ UNCHANGED <<forest, seat, loans, author>>
  BY <1>1 DEF RevokeScope
<1>3. scopes \in [Actor -> SUBSET Scope] /\ left \in SUBSET Scope
  BY <1>1 DEF ScopesInv, ScopesTypeOK
<1>4. scopes' \in [Actor -> SUBSET Scope] /\ \A v \in Actor : scopes'[v] = IF v = u THEN left ELSE scopes[v]
  BY <1>2, <1>3
<1>5. ScopesTypeOK'
  BY <1>2, <1>4 DEF ScopesInv, ScopesTypeOK
<1>6. \A v \in Actor : \A x \in scopes'[v] : x.type = "selected_units" => ActiveRow(x.unit)
  BY <1>1, <1>2, <1>4 DEF ScopesInv
<1> QED
  BY <1>2, <1>5, <1>6 DEF ScopesInv, ActiveRow

\* The other steps leave the versions and the scopes alone.
LEMMA OthersKeep ==
  ASSUME ScopesInv, UNCHANGED <<forest, scopes>>, ScopesTypeOK'
  PROVE  ScopesInv'
BY DEF ScopesInv, ActiveRow

LEMMA SeatKeeps ==
  ASSUME ScopesInv, NEW u \in Actor,
         LeaveSeat(u) \/ \E kind \in {"primary", "secondary", "pending_review"} : TakeSeat(u, kind)
  PROVE  ScopesInv'
<1>1. PICK where \in Seat \cup {Nowhere} :
        seat' = [seat EXCEPT ![u] = where] /\ UNCHANGED <<forest, scopes, loans, author>>
  <2>1. CASE LeaveSeat(u)
    BY <2>1 DEF LeaveSeat
  <2>2. ASSUME NEW kind \in {"primary", "secondary", "pending_review"}, TakeSeat(u, kind)
        PROVE  \E where \in Seat : seat' = [seat EXCEPT ![u] = where] /\ UNCHANGED <<forest, scopes, loans, author>>
    <3>1. PICK row \in CurrentRows : seat' = [seat EXCEPT ![u] = [at |-> row, kind |-> kind]]
      BY <2>2 DEF TakeSeat
    <3>2. [at |-> row, kind |-> kind] \in Seat
      BY <3>1, CurrentRow DEF Seat
    <3> QED
      BY <2>2, <3>1, <3>2 DEF TakeSeat
  <2> QED
    BY <2>1, <2>2
<1>2. ScopesTypeOK'
  BY <1>1 DEF ScopesInv, ScopesTypeOK
<1> QED
  BY <1>1, <1>2, OthersKeep

LEMMA ScopesStepKeeps == ScopesInv /\ [ScopesNext]_scopeVars => ScopesInv'
<1> SUFFICES ASSUME ScopesInv, [ScopesNext]_scopeVars PROVE ScopesInv'
  OBVIOUS
<1>1. ASSUME NEW loan \in Loan, Lend(loan) \/ TakeBack(loan) PROVE ScopesInv'
  <2>1. ScopesTypeOK' /\ UNCHANGED <<forest, scopes>>
    BY <1>1 DEF Lend, TakeBack, ScopesInv, ScopesTypeOK
  <2> QED
    BY <2>1, OthersKeep
<1>2. ASSUME NEW u \in Actor, ActivateEmployee(u) \/ \E e \in Actor : CreateDraftEmployee(u, e) PROVE ScopesInv'
  <2>1. ScopesTypeOK' /\ UNCHANGED <<forest, scopes>>
    BY <1>2 DEF ActivateEmployee, CreateDraftEmployee, ScopesInv, ScopesTypeOK
  <2> QED
    BY <2>1, OthersKeep
<1>3. CASE UNCHANGED scopeVars
  BY <1>3, OthersKeep DEF scopeVars, ScopesInv, ScopesTypeOK
<1>4. \A loan \in loans : loan \in Loan
  BY DEF ScopesInv, ScopesTypeOK
<1> QED
  BY <1>1, <1>2, <1>3, <1>4, PublishKeeps, GrantKeeps, RevokeKeeps, SeatKeeps DEF ScopesNext

\* The inductive invariant: the versions have no gap, and every unit a scope selects is a unit
\* of the version it was selected in (publish_structure, assign_role).
THEOREM ScopesInvariant == ScopesSpec => []ScopesInv
BY ScopesInits, ScopesStepKeeps, PTL DEF ScopesSpec

---------------------------------------------------------------------------

LEMMA SnapshotEverywhere ==
  ASSUME ScopesInv, NEW u
  PROVE  Snapshot(u).everywhere <=> Allowed(u, NoUnit)
<1>1. RoleAllows(u, NoUnit) <=> \E scope \in scopes[u] : scope.type = "organization"
  BY DEF RoleAllows, ScopeAllows
<1>2. Snapshot(u).everywhere <=> RoleAllows(u, NoUnit) \/ \E loan \in loans : LoanReachesAll(u, loan)
  BY <1>1 DEF Snapshot
<1>3. \A loan \in loans : LoanMatches(loan, NoUnit) => loan.type \in {"permissions", "organization"}
  BY GivenLoan DEF LoanMatches
<1>4. \A loan \in loans : LoanReachesAll(u, loan) => Allowed(u, NoUnit)
  BY DEF LoanReachesAll
<1>5. \A loan \in loans :
        loan.to = u /\ LoanMatches(loan, NoUnit) /\ RoleAllows(loan.from, NoUnit) => LoanReachesAll(u, loan)
  BY <1>3 DEF LoanReachesAll, Allowed
<1> QED
  BY <1>2, <1>4, <1>5 DEF Allowed

LEMMA SnapshotAllows ==
  ASSUME ScopesInv, NEW u, NEW row \in CurrentRows
  PROVE  AllowsUnit(Snapshot(u), row) <=> Snapshot(u).everywhere \/ row \in Snapshot(u).rows
<1>1. \A r \in Snapshot(u).rows : r[2] = row[2] => r = row
  BY SnapshotIsCurrent, CurrentRow
<1> QED
  BY <1>1 DEF AllowsUnit

LEMMA EverywhereIsEach ==
  ASSUME ScopesInv, NEW u \in Actor, NEW row \in CurrentRows, RoleAllows(u, NoUnit)
  PROVE  RoleAllows(u, row)
BY DEF RoleAllows, ScopeAllows

LEMMA ScopesAgreeAlways ==
  ASSUME ScopesInv
  PROVE  ScopesAgree
<1> SUFFICES ASSUME NEW u \in Actor, NEW row \in CurrentRows
             PROVE  /\ AllowsUnit(Snapshot(u), row) => Allowed(u, row)
                    /\ Allowed(u, row) =>
                         \/ AllowsUnit(Snapshot(u), row) \/ TurnedRound(u, row)
                         \/ \E loan \in loans : /\ loan.to = u /\ loan.type = "organization"
                                                /\ RoleAllows(loan.from, row)
  BY SnapshotEverywhere DEF ScopesAgree
<1>1. Snapshot(u).rows = RoleRows(u) \cup UNION {LoanRows(u, loan) : loan \in loans}
  BY DEF Snapshot
<1>2. ASSUME AllowsUnit(Snapshot(u), row) PROVE Allowed(u, row)
  <2>1. CASE Allowed(u, NoUnit)
    <3>1. CASE RoleAllows(u, NoUnit)
      BY <3>1, EverywhereIsEach DEF Allowed
    <3>2. ASSUME NEW loan \in loans, loan.to = u, LoanMatches(loan, NoUnit), RoleAllows(loan.from, NoUnit)
          PROVE  Allowed(u, row)
      <4>1. RoleAllows(loan.from, row) /\ LoanMatches(loan, row)
        BY <3>2, GivenLoan, EverywhereIsEach DEF LoanMatches
      <4> QED
        BY <3>2, <4>1 DEF Allowed
    <3> QED
      BY <2>1, <3>1, <3>2 DEF Allowed
  <2>2. CASE row \in RoleRows(u)
    BY <2>2, RolesAgree DEF Allowed
  <2>3. CASE \E loan \in loans : row \in LoanRows(u, loan)
    BY <2>3 DEF LoanRows
  <2> QED
    BY <1>1, <1>2, <2>1, <2>2, <2>3, SnapshotAllows, SnapshotEverywhere
<1>3. ASSUME NEW v \in Actor, RoleAllows(v, row),
             v = u \/ \E loan \in loans : loan.to = u /\ loan.from = v
      PROVE  RoleAllows(v, NoUnit) \/ row \in RoleRows(v) \/ TurnedRound(u, row)
  <2>1. scopes[v] \subseteq scopes[u] \cup UNION {scopes[loan.from] : loan \in {l \in loans : l.to = u}}
    BY <1>3
  <2> QED
    BY <1>3, <2>1, RolesAgree DEF TurnedRound
<1>4. ASSUME RoleAllows(u, row)
      PROVE  AllowsUnit(Snapshot(u), row) \/ TurnedRound(u, row)
  <2>1. RoleAllows(u, NoUnit) => Allowed(u, NoUnit)
    BY DEF Allowed
  <2> QED
    BY <1>1, <1>3, <1>4, <2>1, SnapshotAllows, SnapshotEverywhere
<1>5. ASSUME NEW loan \in loans, loan.to = u, LoanMatches(loan, row), RoleAllows(loan.from, row),
             loan.type # "organization"
      PROVE  AllowsUnit(Snapshot(u), row)
  <2>1. Allowed(u, row)
    BY <1>5 DEF Allowed
  <2>2. CASE LoanReachesAll(u, loan)
    BY <2>2, SnapshotAllows, SnapshotEverywhere DEF LoanReachesAll
  <2>3. CASE ~LoanReachesAll(u, loan)
    <3>1. row \in LoanRows(u, loan)
      BY <1>5, <2>1, <2>3 DEF LoanRows
    <3> QED
      BY <1>1, <3>1, SnapshotAllows
  <2> QED
    BY <2>2, <2>3
<1> QED
  BY <1>2, <1>4, <1>5 DEF Allowed

\* The employees module and the authorization port agree about every unit in force, whatever was
\* published since the roles were granted: the snapshot never reaches further, and falls short
\* only as the property says (get_employee_actor, DelegationAwareAuthorizationAdapter).
THEOREM SnapshotsAgree == ScopesSpec => []ScopesAgree
<1>1. ScopesInv => ScopesAgree
  BY ScopesAgreeAlways
<1> QED
  BY <1>1, ScopesInvariant, PTL

LEMMA ListedAlways ==
  ASSUME ScopesInv
  PROVE  ListedIsWithinScope
<1> SUFFICES ASSUME NEW u \in Actor, NEW e \in Actor
             PROVE  /\ Visible(Snapshot(u), e) => HasEmployeeScope(Snapshot(u), e)
                    /\ HasEmployeeScope(Snapshot(u), e) =>
                         Visible(Snapshot(u), e) \/ seat[e].kind = "pending_review"
  BY DEF ListedIsWithinScope, Listed, Counted, Opened
<1>1. seat[e] \in Seat \/ seat[e].kind = "none"
  BY DEF ScopesInv, ScopesTypeOK, Nowhere
<1>2. seat[e].kind \in {"none", "primary", "secondary", "pending_review"}
  BY <1>1 DEF Seat
<1>3. \A row \in Snapshot(u).rows : ActiveRow(row)
  BY SnapshotIsCurrent, CurrentRow
<1>4. {row \in Snapshot(u).rows : ActiveRow(row)} = Snapshot(u).rows
  BY <1>3
<1> QED
  BY <1>2, <1>4 DEF Visible, HasEmployeeScope, AllowsUnit

\* Whoever is listed can be opened, and whoever can be opened is listed, except by an assignment
\* that waits for its review (_visible_query, _has_employee_scope).
THEOREM ListShowsWhatOpens == ScopesSpec => []ListedIsWithinScope
<1>1. ScopesInv => ListedIsWithinScope
  BY ListedAlways
<1> QED
  BY <1>1, ScopesInvariant, PTL
---------------------------------------------------------------------------
(* Assignments.  A row that is there stays where it is and only ever ends earlier; whatever      *)
(* happens to it gives it another revision, so that a request that still finds the revision it   *)
(* has read finds the row it has read.  The same is true of the rows of employees.               *)

RowInv(i) ==
  /\ ~Exists(i) => review[i] = "none"
  /\ Exists(i) => /\ assignment[i].from <= assignment[i].to
                  /\ assignment[i].status = "ended" => assignment[i].to <= Today
                  /\ employee[assignment[i].employee].status # "absent"

(* What a request knows between its steps *)

\* The rows a request adds its assignment under, and those it still waits for.
Needed(c) ==
  IF c.op \in {"create", "transfer"} THEN {c.new.employee, c.new.slot}
  ELSE IF c.op = "hire" THEN {c.new.slot} ELSE {}

Holds(s) ==
  \A r \in Needed(session[s]) :
    lock[r] = s \/ \E n \in 1..Len(session[s].wants) : session[s].wants[n] = r

\* The assignment it adds, which fits while the locks are held.
AddsInv(s) ==
  LET c == session[s] IN
  c.op \in {"create", "hire", "transfer"} =>
    /\ c.new.status \in {"planned", "active", "ended"} \cup (IF c.op = "create" THEN {"pending_review"} ELSE {})
    /\ c.new.from <= c.new.to
    /\ c.new.status = "ended" => c.new.to <= Today
    /\ c.checked => /\ c.wants = <<>>
                    /\ c.op # "hire" \/ employee[c.new.employee].status = "absent"
                         => Fits(assignment, c.target, c.new)
    /\ c.op = "transfer" => c.new.employee = assignment[c.target].employee
    /\ c.op = "create" => employee[c.new.employee].status # "absent" /\ c.target = 0
    /\ c.op = "hire" => c.target = 0

\* The assignment it ends or reviews.
RowReadInv(s) ==
  LET c == session[s] IN
  c.op \in {"review", "transfer", "end"} =>
    /\ c.target \in Id /\ Exists(c.target)
    /\ c.revision <= assignment[c.target].revision /\ c.revision < MaxRevision
    /\ Fresh(s) => /\ c.op = "end" => CanEnd(assignment[c.target], c.day)
                   /\ c.op = "transfer" /\ c.checked => CanEnd(assignment[c.target], c.new.from - 1)

\* The employee it changes, and for a termination the assignments of that employee.
EmployeeReadInv(s) ==
  LET c == session[s]
      row == employee[c.new.employee]
  IN
  /\ c.op \in {"invoke", "update", "terminate"} =>
       /\ row.status # "absent" /\ c.revision <= row.revision
       /\ c.op # "invoke" => c.revision < MaxRevision
       /\ (c.op = "terminate" \/ c.function = "employee.terminate") /\ c.revision = row.revision
            => row.ends = Forever
  /\ c.op = "update" => c.edit \in Edit
  /\ c.op = "terminate" => c.day \in Day /\ \A p \in c.read : Exists(p[1]) /\ p[2] < MaxRevision

StaffingInv ==
  /\ TypeOK
  /\ \A i \in Id : RowInv(i)
  /\ ApprovedBeforeWork
  /\ CapacityIsKept
  /\ \A s \in Session : Holds(s) /\ AddsInv(s) /\ RowReadInv(s) /\ EmployeeReadInv(s)
---------------------------------------------------------------------------
(* FTE units *)

UnitsOf(rows, ids) == UNION {{i} \X (1..rows[i].fte) : i \in ids}

LEMMA RowFields ==
  ASSUME NEW row \in Row
  PROVE  /\ row.status \in Status /\ row.employee \in Employee /\ row.slot \in Slot
         /\ row.fte \in 1..Whole /\ row.fte \in Nat /\ row.from \in Day /\ row.from \in Nat
         /\ row.to \in Day \cup {Forever} /\ row.to \in Nat
         /\ row.primary \in BOOLEAN /\ row.revision \in Nat /\ row.revision <= MaxRevision
BY DayAssumption, FteAssumption, BoundAssumption DEF Row, Day, Forever, Revision

LEMMA UnitsAreFinite ==
  ASSUME NEW rows \in [Id -> Row], NEW ids \in SUBSET Id
  PROVE  IsFiniteSet(UnitsOf(rows, ids)) /\ Load(rows, ids) \in Nat
<1>1. IsFiniteSet(Id) /\ IsFiniteSet(1..Whole)
  BY FS_Interval, BoundAssumption, FteAssumption DEF Id
<1>2. IsFiniteSet(Id \X (1..Whole))
  BY <1>1, FS_Product
<1>3. \A i \in ids : 1..rows[i].fte \subseteq 1..Whole
  <2>1. \A i \in ids : rows[i] \in Row
    OBVIOUS
  <2> QED
    BY <2>1, RowFields, FteAssumption
<1>4. UnitsOf(rows, ids) \subseteq Id \X (1..Whole)
  BY <1>3 DEF UnitsOf
<1>5. IsFiniteSet(UnitsOf(rows, ids))
  BY <1>2, <1>4, FS_Subset
<1> QED
  BY <1>5, FS_CardinalityType DEF Load, UnitsOf

\* Fewer assignments with the same FTE, no more load.
LEMMA LoadMonotone ==
  ASSUME NEW rows \in [Id -> Row], NEW next \in [Id -> Row], NEW some \in SUBSET Id, NEW ids \in SUBSET some,
         \A i \in ids : next[i].fte = rows[i].fte
  PROVE  Load(next, ids) <= Load(rows, some)
<1>1. UnitsOf(next, ids) \subseteq UnitsOf(rows, some)
  BY DEF UnitsOf
<1>2. Cardinality(UnitsOf(next, ids)) <= Cardinality(UnitsOf(rows, some))
  BY <1>1, UnitsAreFinite, FS_Subset
<1> QED
  BY <1>2 DEF Load, UnitsOf

\* One more assignment adds its FTE.
LEMMA LoadAdded ==
  ASSUME NEW rows \in [Id -> Row], NEW ids \in SUBSET Id, NEW i \in Id
  PROVE  Load(rows, ids \cup {i}) <= Load(rows, ids) + rows[i].fte
<1>1. PICK f \in Nat : f = rows[i].fte
  <2>1. rows[i] \in Row
    OBVIOUS
  <2> QED
    BY <2>1, RowFields
<1> DEFINE own == {i} \X (1..f)
           all == UnitsOf(rows, ids)
<1>2. IsFiniteSet(own) /\ Cardinality(own) = f
  <2>1. IsFiniteSet({i}) /\ Cardinality({i}) = 1
    BY FS_Singleton
  <2>2. IsFiniteSet(1..f) /\ Cardinality(1..f) = f
    <3>1. IsFiniteSet(1..f) /\ Cardinality(1..f) = IF 1 > f THEN 0 ELSE f - 1 + 1
      BY FS_Interval
    <3> QED
      BY <3>1
  <2>3. IsFiniteSet(own) /\ Cardinality(own) = Cardinality({i}) * Cardinality(1..f)
    BY <2>1, <2>2, FS_Product
  <2> HIDE DEF own
  <2> QED
    BY <2>1, <2>2, <2>3
<1>3. UnitsOf(rows, ids \cup {i}) = all \cup own
  BY <1>1 DEF UnitsOf
<1> HIDE DEF own
<1>4. IsFiniteSet(all) /\ Cardinality(all) \in Nat
  BY UnitsAreFinite, FS_CardinalityType
<1> HIDE DEF all
<1>5. IsFiniteSet(all \cap own) /\ Cardinality(all \cap own) \in Nat
  BY <1>4, FS_Intersection, FS_CardinalityType
<1>6. Cardinality(all \cup own) = Cardinality(all) + Cardinality(own) - Cardinality(all \cap own)
  BY <1>2, <1>4, FS_Union
<1>7. Cardinality(all \cup own) <= Cardinality(all) + f
  BY <1>2, <1>4, <1>5, <1>6
<1>8. Cardinality(UnitsOf(rows, ids \cup {i})) <= Cardinality(UnitsOf(rows, ids)) + rows[i].fte
  BY <1>1, <1>3, <1>7 DEF all
<1> QED
  BY <1>8 DEF Load, UnitsOf

---------------------------------------------------------------------------
(* Capacity *)

\* What becomes of an assignment that still counts: it may only end earlier.
Lessened(row, next) ==
  /\ Counts(row)
  /\ next.employee = row.employee /\ next.slot = row.slot /\ next.fte = row.fte
  /\ next.from = row.from /\ next.to <= row.to /\ next.primary = row.primary

LEMMA LessenedCovers ==
  ASSUME NEW row \in Row, NEW next \in Row, Lessened(row, next), NEW d \in Day, Covers(next, d)
  PROVE  Covers(row, d)
<1>1. row.to \in Nat /\ next.to \in Nat /\ d \in Nat
  BY RowFields DEF Day
<1> QED
  BY <1>1 DEF Lessened, Covers

\* What fitted goes on fitting when the other assignments of its employee and slot only lessen.
LEMMA FitsKept ==
  ASSUME NEW rows \in [Id -> Row], NEW next \in [Id -> Row], NEW id, NEW new \in Row, Fits(rows, id, new),
         \A i \in Id : Counts(next[i]) /\ (next[i].employee = new.employee \/ next[i].slot = new.slot)
                         => Lessened(rows[i], next[i])
  PROVE  Fits(next, id, new)
<1> SUFFICES ASSUME NEW d \in Day, Covers(new, d)
             PROVE  LET others == {i \in Id \ {id} : Counts(next[i])}
                        mine == {i \in others : next[i].employee = new.employee /\ Covers(next[i], d)}
                        here == {i \in others : next[i].slot = new.slot /\ Covers(next[i], d)}
                    IN /\ new.primary => \A i \in mine : ~next[i].primary
                       /\ Load(next, mine) + new.fte <= Whole
                       /\ Load(next, here) + new.fte <= SlotFte[new.slot]
  BY DEF Fits
<1> DEFINE Mine(r) == {i \in Id : i # id /\ Counts(r[i]) /\ r[i].employee = new.employee /\ Covers(r[i], d)}
           Here(r) == {i \in Id : i # id /\ Counts(r[i]) /\ r[i].slot = new.slot /\ Covers(r[i], d)}
<1>1. /\ new.primary => \A i \in Mine(rows) : ~rows[i].primary
      /\ Load(rows, Mine(rows)) + new.fte <= Whole
      /\ Load(rows, Here(rows)) + new.fte <= SlotFte[new.slot]
  <2>1. /\ {i \in {j \in Id \ {id} : Counts(rows[j])} : rows[i].employee = new.employee /\ Covers(rows[i], d)} = Mine(rows)
        /\ {i \in {j \in Id \ {id} : Counts(rows[j])} : rows[i].slot = new.slot /\ Covers(rows[i], d)} = Here(rows)
    OBVIOUS
  <2> HIDE DEF Mine, Here
  <2> QED
    BY <2>1 DEF Fits
<1>2. \A i \in Id : rows[i] \in Row /\ next[i] \in Row
  OBVIOUS
<1>3. ASSUME NEW i \in Mine(next) \cup Here(next)
      PROVE  Lessened(rows[i], next[i]) /\ Covers(rows[i], d)
  BY <1>2, <1>3, LessenedCovers
<1>4. \A i \in Mine(next) : i \in Mine(rows) /\ next[i].fte = rows[i].fte /\ next[i].primary = rows[i].primary
  BY <1>3 DEF Lessened
<1>5. \A i \in Here(next) : i \in Here(rows) /\ next[i].fte = rows[i].fte
  BY <1>3 DEF Lessened
<1>6. Mine(rows) \in SUBSET Id /\ Here(rows) \in SUBSET Id /\ Mine(next) \in SUBSET Id /\ Here(next) \in SUBSET Id
  OBVIOUS
<1>7. /\ {i \in {j \in Id \ {id} : Counts(next[j])} : next[i].employee = new.employee /\ Covers(next[i], d)} = Mine(next)
      /\ {i \in {j \in Id \ {id} : Counts(next[j])} : next[i].slot = new.slot /\ Covers(next[i], d)} = Here(next)
  OBVIOUS
<1> HIDE DEF Mine, Here
<1>8. Load(next, Mine(next)) <= Load(rows, Mine(rows)) /\ Load(next, Here(next)) <= Load(rows, Here(rows))
  BY <1>4, <1>5, <1>6, LoadMonotone
<1>9. /\ Load(next, Mine(next)) \in Nat /\ Load(rows, Mine(rows)) \in Nat
      /\ Load(next, Here(next)) \in Nat /\ Load(rows, Here(rows)) \in Nat
      /\ new.fte \in Nat /\ Whole \in Nat /\ SlotFte[new.slot] \in Nat
  BY <1>6, UnitsAreFinite, RowFields, FteAssumption
<1>10. Load(next, Mine(next)) + new.fte <= Whole /\ Load(next, Here(next)) + new.fte <= SlotFte[new.slot]
  BY <1>1, <1>8, <1>9
<1> QED
  BY <1>1, <1>4, <1>7, <1>10

EmployeeUnits(rows, e, d) ==
  Load(rows, {i \in Id : Counts(rows[i]) /\ Covers(rows[i], d) /\ rows[i].employee = e})
SlotUnits(rows, s, d) ==
  Load(rows, {i \in Id : Counts(rows[i]) /\ Covers(rows[i], d) /\ rows[i].slot = s})

\* CapacityIsKept, of any rows.
Capacity(rows) ==
  \A d \in Day : /\ \A e \in Employee : EmployeeUnits(rows, e, d) <= Whole
                 /\ \A s \in Slot : SlotUnits(rows, s, d) <= SlotFte[s]

LEMMA CapacityIs == CapacityIsKept <=> Capacity(assignment)
BY DEF CapacityIsKept, Capacity, EmployeeUnits, SlotUnits

\* Assignments that only lessen keep the capacity.
LEMMA CapacityLessened ==
  ASSUME NEW rows \in [Id -> Row], NEW next \in [Id -> Row], Capacity(rows),
         \A i \in Id : Counts(next[i]) => Lessened(rows[i], next[i])
  PROVE  Capacity(next)
<1> SUFFICES ASSUME NEW d \in Day
             PROVE  /\ \A e \in Employee : EmployeeUnits(next, e, d) <= Whole
                    /\ \A s \in Slot : SlotUnits(next, s, d) <= SlotFte[s]
  BY DEF Capacity
<1>1. \A i \in Id : rows[i] \in Row /\ next[i] \in Row
  OBVIOUS
<1>2. ASSUME NEW i \in Id, Counts(next[i]), Covers(next[i], d)
      PROVE  Lessened(rows[i], next[i]) /\ Covers(rows[i], d)
  BY <1>1, <1>2, LessenedCovers
<1>3. ASSUME NEW e \in Employee PROVE EmployeeUnits(next, e, d) <= Whole
  <2> DEFINE S(r) == {i \in Id : Counts(r[i]) /\ Covers(r[i], d) /\ r[i].employee = e}
  <2>1. S(next) \in SUBSET S(rows) /\ S(rows) \in SUBSET Id /\ \A i \in S(next) : next[i].fte = rows[i].fte
    BY <1>2 DEF Lessened
  <2>2. EmployeeUnits(next, e, d) = Load(next, S(next)) /\ EmployeeUnits(rows, e, d) = Load(rows, S(rows))
    BY DEF EmployeeUnits
  <2> HIDE DEF S
  <2>3. S(next) \in SUBSET Id
    BY <2>1
  <2>4. Load(next, S(next)) <= Load(rows, S(rows)) /\ Load(next, S(next)) \in Nat /\ Load(rows, S(rows)) \in Nat
    BY <2>1, <2>3, LoadMonotone, UnitsAreFinite
  <2> QED
    BY <2>2, <2>4, FteAssumption DEF Capacity
<1>4. ASSUME NEW s \in Slot PROVE SlotUnits(next, s, d) <= SlotFte[s]
  <2> DEFINE S(r) == {i \in Id : Counts(r[i]) /\ Covers(r[i], d) /\ r[i].slot = s}
  <2>1. S(next) \in SUBSET S(rows) /\ S(rows) \in SUBSET Id /\ \A i \in S(next) : next[i].fte = rows[i].fte
    BY <1>2 DEF Lessened
  <2>2. SlotUnits(next, s, d) = Load(next, S(next)) /\ SlotUnits(rows, s, d) = Load(rows, S(rows))
    BY DEF SlotUnits
  <2> HIDE DEF S
  <2>3. S(next) \in SUBSET Id
    BY <2>1
  <2>4. Load(next, S(next)) <= Load(rows, S(rows)) /\ Load(next, S(next)) \in Nat /\ Load(rows, S(rows)) \in Nat
    BY <2>1, <2>3, LoadMonotone, UnitsAreFinite
  <2>5. SlotFte[s] \in Nat
    BY FteAssumption
  <2> QED
    BY <2>2, <2>4, <2>5 DEF Capacity
<1> QED
  BY <1>3, <1>4

\* One more assignment keeps it if it fits, the others only lessen, and the one it replaces is
\* over before it begins.
LEMMA CapacityAdded ==
  ASSUME NEW rows \in [Id -> Row], NEW next \in [Id -> Row], Capacity(rows),
         NEW target, NEW new \in Row, Fits(rows, target, new),
         NEW i \in Id, next[i] = new,
         \A j \in Id : j # i /\ Counts(next[j]) => Lessened(rows[j], next[j]),
         target \in Id => target # i /\ \A d \in Day : Covers(new, d) => ~Covers(next[target], d)
  PROVE  Capacity(next)
<1> SUFFICES ASSUME NEW d \in Day
             PROVE  /\ \A e \in Employee : EmployeeUnits(next, e, d) <= Whole
                    /\ \A s \in Slot : SlotUnits(next, s, d) <= SlotFte[s]
  BY DEF Capacity
<1>1. \A j \in Id : rows[j] \in Row /\ next[j] \in Row
  OBVIOUS
<1>2. ASSUME NEW j \in Id, j # i, Counts(next[j]), Covers(next[j], d)
      PROVE  Lessened(rows[j], next[j]) /\ Covers(rows[j], d)
  BY <1>1, <1>2, LessenedCovers
<1>3. new.fte \in Nat /\ Whole \in Nat /\ \A s \in Slot : SlotFte[s] \in Nat
  BY RowFields, FteAssumption
<1>4. ASSUME Covers(new, d)
      PROVE  LET mine == {j \in Id : j # target /\ Counts(rows[j]) /\ rows[j].employee = new.employee /\ Covers(rows[j], d)}
                 here == {j \in Id : j # target /\ Counts(rows[j]) /\ rows[j].slot = new.slot /\ Covers(rows[j], d)}
             IN  Load(rows, mine) + new.fte <= Whole /\ Load(rows, here) + new.fte <= SlotFte[new.slot]
  <2> DEFINE mine == {j \in Id : j # target /\ Counts(rows[j]) /\ rows[j].employee = new.employee /\ Covers(rows[j], d)}
             here == {j \in Id : j # target /\ Counts(rows[j]) /\ rows[j].slot = new.slot /\ Covers(rows[j], d)}
  <2>1. /\ {j \in {k \in Id \ {target} : Counts(rows[k])} : rows[j].employee = new.employee /\ Covers(rows[j], d)} = mine
        /\ {j \in {k \in Id \ {target} : Counts(rows[k])} : rows[j].slot = new.slot /\ Covers(rows[j], d)} = here
    OBVIOUS
  <2> HIDE DEF mine, here
  <2>2. Load(rows, mine) + new.fte <= Whole /\ Load(rows, here) + new.fte <= SlotFte[new.slot]
    BY <1>4, <2>1 DEF Fits
  <2> QED
    BY <2>2 DEF mine, here
<1>5. ASSUME NEW e \in Employee PROVE EmployeeUnits(next, e, d) <= Whole
  <2> DEFINE S(r) == {j \in Id : Counts(r[j]) /\ Covers(r[j], d) /\ r[j].employee = e}
             M == {j \in Id : j # target /\ Counts(rows[j]) /\ rows[j].employee = new.employee /\ Covers(rows[j], d)}
  <2>1. EmployeeUnits(next, e, d) = Load(next, S(next)) /\ EmployeeUnits(rows, e, d) = Load(rows, S(rows))
    BY DEF EmployeeUnits
  <2>2. S(next) \in SUBSET Id /\ S(rows) \in SUBSET Id /\ M \in SUBSET Id
    OBVIOUS
  <2>3. CASE Covers(new, d) /\ new.employee = e
    <3>1. \A j \in S(next) \ {i} : j \in M /\ next[j].fte = rows[j].fte
      BY <1>2, <2>3 DEF Lessened
    <3>2. i \in S(next) => S(next) = (S(next) \ {i}) \cup {i}
      OBVIOUS
    <3>3. Load(rows, M) + new.fte <= Whole
      BY <1>4, <2>3
    <3> HIDE DEF S, M
    <3>4. S(next) \ {i} \in SUBSET M /\ S(next) \ {i} \in SUBSET Id
      BY <2>2, <3>1
    <3>5. Load(next, S(next) \ {i}) <= Load(rows, M)
      BY <2>2, <3>1, <3>4, LoadMonotone
    <3>6. Load(next, S(next)) <= Load(next, S(next) \ {i}) + new.fte
      <4>1. CASE i \in S(next)
        BY <3>2, <3>4, <4>1, LoadAdded
      <4>2. CASE i \notin S(next)
        <5>1. S(next) \ {i} = S(next)
          BY <4>2
        <5>2. Load(next, S(next)) \in Nat
          BY <2>2, UnitsAreFinite
        <5> QED
          BY <1>3, <5>1, <5>2
      <4> QED
        BY <4>1, <4>2
    <3>7. Load(next, S(next)) \in Nat /\ Load(next, S(next) \ {i}) \in Nat /\ Load(rows, M) \in Nat
      BY <2>2, <3>4, UnitsAreFinite
    <3> QED
      BY <1>3, <2>1, <3>3, <3>5, <3>6, <3>7
  <2>4. CASE ~(Covers(new, d) /\ new.employee = e)
    <3>1. \A j \in S(next) : j \in S(rows) /\ next[j].fte = rows[j].fte
      BY <1>2, <2>4 DEF Lessened
    <3> HIDE DEF S
    <3>2. Load(next, S(next)) <= Load(rows, S(rows)) /\ Load(next, S(next)) \in Nat /\ Load(rows, S(rows)) \in Nat
      BY <2>2, <3>1, LoadMonotone, UnitsAreFinite
    <3>3. Load(rows, S(rows)) <= Whole
      BY <2>1 DEF Capacity
    <3> QED
      BY <1>3, <2>1, <3>2, <3>3
  <2> QED
    BY <2>3, <2>4
<1>6. ASSUME NEW s \in Slot PROVE SlotUnits(next, s, d) <= SlotFte[s]
  <2> DEFINE S(r) == {j \in Id : Counts(r[j]) /\ Covers(r[j], d) /\ r[j].slot = s}
             M == {j \in Id : j # target /\ Counts(rows[j]) /\ rows[j].slot = new.slot /\ Covers(rows[j], d)}
  <2>1. SlotUnits(next, s, d) = Load(next, S(next)) /\ SlotUnits(rows, s, d) = Load(rows, S(rows))
    BY DEF SlotUnits
  <2>2. S(next) \in SUBSET Id /\ S(rows) \in SUBSET Id /\ M \in SUBSET Id
    OBVIOUS
  <2>3. CASE Covers(new, d) /\ new.slot = s
    <3>1. \A j \in S(next) \ {i} : j \in M /\ next[j].fte = rows[j].fte
      BY <1>2, <2>3 DEF Lessened
    <3>2. i \in S(next) => S(next) = (S(next) \ {i}) \cup {i}
      OBVIOUS
    <3>3. Load(rows, M) + new.fte <= SlotFte[s]
      BY <1>4, <2>3
    <3> HIDE DEF S, M
    <3>4. S(next) \ {i} \in SUBSET M /\ S(next) \ {i} \in SUBSET Id
      BY <2>2, <3>1
    <3>5. Load(next, S(next) \ {i}) <= Load(rows, M)
      BY <2>2, <3>1, <3>4, LoadMonotone
    <3>6. Load(next, S(next)) <= Load(next, S(next) \ {i}) + new.fte
      <4>1. CASE i \in S(next)
        BY <3>2, <3>4, <4>1, LoadAdded
      <4>2. CASE i \notin S(next)
        <5>1. S(next) \ {i} = S(next)
          BY <4>2
        <5>2. Load(next, S(next)) \in Nat
          BY <2>2, UnitsAreFinite
        <5> QED
          BY <1>3, <5>1, <5>2
      <4> QED
        BY <4>1, <4>2
    <3>7. Load(next, S(next)) \in Nat /\ Load(next, S(next) \ {i}) \in Nat /\ Load(rows, M) \in Nat
      BY <2>2, <3>4, UnitsAreFinite
    <3> QED
      BY <1>3, <2>1, <3>3, <3>5, <3>6, <3>7
  <2>4. CASE ~(Covers(new, d) /\ new.slot = s)
    <3>1. \A j \in S(next) : j \in S(rows) /\ next[j].fte = rows[j].fte
      BY <1>2, <2>4 DEF Lessened
    <3> HIDE DEF S
    <3>2. Load(next, S(next)) <= Load(rows, S(rows)) /\ Load(next, S(next)) \in Nat /\ Load(rows, S(rows)) \in Nat
      BY <2>2, <3>1, LoadMonotone, UnitsAreFinite
    <3>3. Load(rows, S(rows)) <= SlotFte[s]
      BY <2>1 DEF Capacity
    <3> QED
      BY <1>3, <2>1, <3>2, <3>3
  <2> QED
    BY <2>3, <2>4
<1> QED
  BY <1>5, <1>6
---------------------------------------------------------------------------
(* How rows change *)

Moved(row, next) ==
  /\ next \in Row
  /\ row.status \notin {"absent", "ended", "cancelled"} /\ next.status # "absent"
  /\ next.employee = row.employee /\ next.slot = row.slot /\ next.fte = row.fte
  /\ next.from = row.from /\ next.to <= row.to /\ next.primary = row.primary
  /\ next.from <= next.to
  /\ next.status = "ended" => next.to <= Today
  /\ next.revision = row.revision + 1

RowsMove ==
  \A i \in Id : Exists(i) => assignment'[i] = assignment[i] \/ Moved(assignment[i], assignment'[i])

EmployeesMove ==
  \A e \in Employee : employee[e].status # "absent" =>
    \/ employee'[e] = employee[e]
    \/ employee'[e].status # "absent" /\ employee'[e].revision = employee[e].revision + 1

LEMMA MovedLessens == ASSUME NEW row, NEW next, Moved(row, next) PROVE Lessened(row, next)
BY DEF Moved, Lessened, Counts

LEMMA EndedMoves ==
  ASSUME NEW row \in Row, NEW day \in Int, CanEnd(row, day), row.revision < MaxRevision
  PROVE  Moved(row, Ended(row, day)) /\ row.status # "pending_review"
<1>1. row.from \in Day /\ row.to \in Nat /\ row.to <= Forever /\ row.revision \in Nat
  BY RowFields, DayAssumption DEF Day, Forever
<1>2. row.from <= day /\ day <= row.to
  BY DEF CanEnd
<1>3. day \in Day \cup {Forever}
  BY <1>1, <1>2, DayAssumption DEF Day, Forever
<1>4. PICK next : next = Ended(row, day)
  OBVIOUS
<1>5. row.revision + 1 \in Revision
  BY <1>1, BoundAssumption DEF Revision
<1>6. next \in Row
  BY <1>3, <1>4, <1>5 DEF Ended, Row, Status
<1>7. /\ next.employee = row.employee /\ next.slot = row.slot /\ next.fte = row.fte
      /\ next.from = row.from /\ next.to = day /\ next.primary = row.primary
      /\ next.status = (IF day > Today THEN "scheduled_end" ELSE "ended")
      /\ next.revision = row.revision + 1
  BY <1>4 DEF Ended, Row
<1>8. Today \in Nat
  BY DayAssumption DEF Day
<1>9. next.status # "absent" /\ (next.status = "ended" => next.to <= Today)
  BY <1>7, <1>8
<1>10. row.status \notin {"absent", "pending_review", "cancelled", "ended"}
  BY DEF CanEnd
<1> QED
  BY <1>2, <1>4, <1>6, <1>7, <1>9, <1>10 DEF Moved

LEMMA TerminatedMoves ==
  ASSUME NEW row \in Row, NEW day \in Day, row.from <= row.to,
         Terminated(row, day) # row => row.revision < MaxRevision
  PROVE  \/ Terminated(row, day) = row
         \/ /\ Moved(row, Terminated(row, day))
            /\ row.status = "pending_review" => Terminated(row, day).status = "cancelled"
<1> SUFFICES ASSUME Terminated(row, day) # row
             PROVE  /\ Moved(row, Terminated(row, day))
                    /\ row.status = "pending_review" => Terminated(row, day).status = "cancelled"
  OBVIOUS
<1>1. row.revision < MaxRevision /\ row.revision \in Nat /\ row.to \in Nat /\ day \in Nat
  BY RowFields DEF Day
<1>2. CASE CancelledBy(row, day)
  <2>1. PICK next : next = [row EXCEPT !.status = "cancelled", !.revision = row.revision + 1]
    OBVIOUS
  <2>2. row.revision + 1 \in Revision
    BY <1>1, BoundAssumption DEF Revision
  <2>3. next \in Row
    BY <2>1, <2>2 DEF Row, Status
  <2>4. /\ next.employee = row.employee /\ next.slot = row.slot /\ next.fte = row.fte
        /\ next.from = row.from /\ next.to = row.to /\ next.primary = row.primary
        /\ next.status = "cancelled" /\ next.revision = row.revision + 1
    BY <2>1 DEF Row
  <2>5. Terminated(row, day) = next
    BY <1>2, <2>1 DEF Terminated
  <2>6. row.status \notin {"absent", "cancelled", "ended"}
    BY <1>2 DEF CancelledBy
  <2> QED
    BY <1>1, <2>3, <2>4, <2>5, <2>6 DEF Moved
<1>3. CASE ~CancelledBy(row, day) /\ EndedBy(row, day)
  <2>1. Terminated(row, day) = Ended(row, day)
    BY <1>3 DEF Terminated
  <2>2. CanEnd(row, day) /\ day \in Int
    BY <1>1, <1>3 DEF EndedBy, CanEnd
  <2> QED
    BY <1>1, <2>1, <2>2, EndedMoves
<1> QED
  BY <1>2, <1>3 DEF Terminated

LEMMA RequestFields ==
  ASSUME NEW c \in Request
  PROVE  /\ c.op \in Op /\ c.function \in Function \cup {"none"} /\ c.checked \in BOOLEAN
         /\ c.wants \in Seq(Employee \cup Slot) /\ c.target \in 0..MaxAssignment /\ c.new \in Row
         /\ c.day \in 0..LastDay /\ c.approved \in BOOLEAN /\ c.read \in SUBSET (Id \X Revision)
         /\ c.revision \in Nat
BY BoundAssumption DEF Request, Revision

SessionInv(s) == Holds(s) /\ AddsInv(s) /\ RowReadInv(s) /\ EmployeeReadInv(s)

\* What is added beside a request is no concern of it: it holds the rows it counts under.
Apart(x) ==
  LET c == session[x] IN
  \A i \in Id :
    /\ ~Exists(i) /\ assignment'[i].status # "absent"
    /\ c.op \in {"create", "hire", "transfer"} /\ c.checked
    /\ c.op = "hire" => employee'[c.new.employee].status = "absent"
    => assignment'[i].employee # c.new.employee /\ assignment'[i].slot # c.new.slot

\* What a request knows outlasts what the others do.
LEMMA RequestKept ==
  ASSUME TypeOK, TypeOK', NEW x \in Session, SessionInv(x), session'[x] = session[x],
         RowsMove, EmployeesMove, \A r \in Employee \cup Slot : lock[r] = x => lock'[r] = x, Apart(x)
  PROVE  SessionInv(x)'
<1> DEFINE c == session[x]
<1>1. PICK d : d = session[x] /\ d = session'[x] /\ d \in Request
  BY DEF TypeOK
<1>2. /\ d.new \in Row /\ d.new.employee \in Employee /\ d.new.slot \in Slot /\ d.revision \in Nat
  BY <1>1, RequestFields, RowFields
<1>3. \A i \in Id : assignment[i] \in Row /\ assignment'[i] \in Row
  BY DEF TypeOK
<1>4. \A i \in Id : assignment[i].revision \in Nat /\ assignment'[i].revision \in Nat
  BY <1>3, RowFields
<1>5. Holds(x)'
  <2>1. Needed(d) \subseteq Employee \cup Slot
    BY <1>2 DEF Needed
  <2> QED
    BY <1>1, <2>1 DEF SessionInv, Holds
<1>6. RowReadInv(x)'
  <2> SUFFICES ASSUME d.op \in {"review", "transfer", "end"}
               PROVE  /\ d.target \in Id /\ assignment'[d.target].status # "absent"
                      /\ d.revision <= assignment'[d.target].revision /\ d.revision < MaxRevision
                      /\ assignment'[d.target].revision = d.revision =>
                           /\ d.op = "end" => CanEnd(assignment'[d.target], d.day)
                           /\ d.op = "transfer" /\ d.checked => CanEnd(assignment'[d.target], d.new.from - 1)
    BY <1>1 DEF RowReadInv, Exists, Fresh, CanEnd
  <2>1. /\ d.target \in Id /\ Exists(d.target)
        /\ d.revision <= assignment[d.target].revision /\ d.revision < MaxRevision
        /\ assignment[d.target].revision = d.revision =>
             /\ d.op = "end" => CanEnd(assignment[d.target], d.day)
             /\ d.op = "transfer" /\ d.checked => CanEnd(assignment[d.target], d.new.from - 1)
    BY <1>1 DEF SessionInv, RowReadInv, Fresh
  <2>2. CASE assignment'[d.target] = assignment[d.target]
    BY <2>1, <2>2 DEF Exists
  <2>3. CASE Moved(assignment[d.target], assignment'[d.target])
    <3>1. assignment'[d.target].revision = assignment[d.target].revision + 1 /\ assignment'[d.target].status # "absent"
      BY <2>3 DEF Moved
    <3> QED
      BY <1>2, <1>4, <2>1, <3>1
  <2> QED
    BY <2>1, <2>2, <2>3 DEF RowsMove
<1>7. EmployeeReadInv(x)'
  <2>1. employee[d.new.employee] \in EmployeeRow /\ employee'[d.new.employee] \in EmployeeRow
    BY <1>2 DEF TypeOK
  <2>2. employee[d.new.employee].revision \in Nat
    BY <2>1, BoundAssumption DEF EmployeeRow, Revision
  <2>3. d.op \in {"invoke", "update", "terminate"} =>
          /\ employee'[d.new.employee].status # "absent" /\ d.revision <= employee'[d.new.employee].revision
          /\ d.op # "invoke" => d.revision < MaxRevision
          /\ (d.op = "terminate" \/ d.function = "employee.terminate") /\ d.revision = employee'[d.new.employee].revision
               => employee'[d.new.employee].ends = Forever
    BY <1>1, <1>2, <2>2 DEF SessionInv, EmployeeReadInv, EmployeesMove
  <2>4. d.op = "update" => d.edit \in Edit
    BY <1>1 DEF SessionInv, EmployeeReadInv
  <2>5. d.op = "terminate" => d.day \in Day /\ \A p \in d.read : assignment'[p[1]].status # "absent" /\ p[2] < MaxRevision
    <3>1. d.op = "terminate" => d.day \in Day /\ \A p \in d.read : Exists(p[1]) /\ p[2] < MaxRevision
      BY <1>1 DEF SessionInv, EmployeeReadInv
    <3>2. \A p \in d.read : p[1] \in Id
      BY <1>1, RequestFields
    <3>3. \A i \in Id : Exists(i) => assignment'[i].status # "absent"
      BY DEF RowsMove, Moved, Exists
    <3> QED
      BY <3>1, <3>2, <3>3
  <2> QED
    BY <1>1, <2>3, <2>4, <2>5 DEF EmployeeReadInv, Exists
<1>8. AddsInv(x)'
  <2> SUFFICES ASSUME d.op \in {"create", "hire", "transfer"}
               PROVE  /\ d.new.status \in {"planned", "active", "ended"} \cup (IF d.op = "create" THEN {"pending_review"} ELSE {})
                      /\ d.new.from <= d.new.to
                      /\ d.new.status = "ended" => d.new.to <= Today
                      /\ d.checked => /\ d.wants = <<>>
                                      /\ d.op # "hire" \/ employee'[d.new.employee].status = "absent"
                                           => Fits(assignment', d.target, d.new)
                      /\ d.op = "transfer" => d.new.employee = assignment'[d.target].employee
                      /\ d.op = "create" => employee'[d.new.employee].status # "absent" /\ d.target = 0
                      /\ d.op = "hire" => d.target = 0
    BY <1>1 DEF AddsInv
  <2>1. /\ d.new.status \in {"planned", "active", "ended"} \cup (IF d.op = "create" THEN {"pending_review"} ELSE {})
        /\ d.new.from <= d.new.to
        /\ d.new.status = "ended" => d.new.to <= Today
        /\ d.checked => /\ d.wants = <<>>
                        /\ d.op # "hire" \/ employee[d.new.employee].status = "absent"
                             => Fits(assignment, d.target, d.new)
        /\ d.op = "transfer" => d.new.employee = assignment[d.target].employee
        /\ d.op = "create" => employee[d.new.employee].status # "absent" /\ d.target = 0
        /\ d.op = "hire" => d.target = 0
    BY <1>1 DEF SessionInv, AddsInv
  <2>2. employee[d.new.employee].status # "absent" => employee'[d.new.employee].status # "absent"
    BY <1>2 DEF EmployeesMove
  <2>3. d.op = "transfer" => d.new.employee = assignment'[d.target].employee
    <3>1. d.op = "transfer" => d.target \in Id /\ Exists(d.target)
      BY <1>1 DEF SessionInv, RowReadInv
    <3> QED
      BY <2>1, <3>1 DEF RowsMove, Moved
  <2>4. ASSUME d.checked, d.op # "hire" \/ employee'[d.new.employee].status = "absent"
        PROVE  Fits(assignment', d.target, d.new)
    <3>1. Fits(assignment, d.target, d.new)
      BY <2>1, <2>2, <2>4
    <3>2. assignment \in [Id -> Row] /\ assignment' \in [Id -> Row]
      BY DEF TypeOK
    <3>3. ASSUME NEW i \in Id, Counts(assignment'[i]),
                 assignment'[i].employee = d.new.employee \/ assignment'[i].slot = d.new.slot
          PROVE  Lessened(assignment[i], assignment'[i])
      <4>1. assignment'[i].status # "absent"
        BY <3>3 DEF Counts
      <4>2. Exists(i)
        BY <1>1, <2>4, <3>3, <4>1 DEF Apart
      <4>3. CASE assignment'[i] = assignment[i]
        <5>1. assignment[i].to \in Nat
          BY <1>3, RowFields
        <5> QED
          BY <3>3, <4>3, <5>1 DEF Lessened
      <4>4. CASE Moved(assignment[i], assignment'[i])
        BY <4>4, MovedLessens
      <4> QED
        BY <4>2, <4>3, <4>4 DEF RowsMove
    <3> QED
      BY <1>2, <3>1, <3>2, <3>3, FitsKept
  <2> QED
    BY <2>1, <2>2, <2>3, <2>4
<1> QED
  BY <1>5, <1>6, <1>7, <1>8 DEF SessionInv
---------------------------------------------------------------------------
(* Steps that only move a request on *)

LEMMA IdleRequest == Idle \in Request /\ NoRow \in Row
<1>1. NoRow \in Row
  <2>1. (CHOOSE e \in Employee : TRUE) \in Employee /\ (CHOOSE s \in Slot : TRUE) \in Slot
    BY RegistryAssumption
  <2>2. 1 \in Day /\ 1 \in 1..Whole /\ 0 \in Revision
    BY DayAssumption, FteAssumption, BoundAssumption DEF Day, Revision
  <2> QED
    BY <2>1, <2>2 DEF NoRow, Row, Status
<1>2. 0 \in 0..MaxAssignment /\ 0 \in 0..LastDay /\ 0 \in Revision
  BY BoundAssumption, DayAssumption DEF Revision
<1>3. <<>> \in Seq(Employee \cup Slot) /\ {} \in SUBSET (Id \X Revision)
  OBVIOUS
<1> QED
  BY <1>1, <1>2, <1>3 DEF Idle, Request, Op

LEMMA ClosedRequest ==
  ASSUME NEW s \in Session, session'[s] = Idle
  PROVE  SessionInv(s)'
<1>1. session'[s].op = "none"
  BY DEF Idle
<1> QED
  BY <1>1 DEF SessionInv, Holds, AddsInv, RowReadInv, EmployeeReadInv, Needed

LEMMA InvFields ==
  ASSUME StaffingInv
  PROVE  /\ TypeOK /\ ApprovedBeforeWork /\ Capacity(assignment) /\ \A i \in Id : RowInv(i)
         /\ \A s \in Session : SessionInv(s)
BY CapacityIs DEF StaffingInv, SessionInv

LEMMA RequestMoves ==
  ASSUME StaffingInv, NEW s \in Session, NEW request \in Request,
         session' = [session EXCEPT ![s] = request],
         UNCHANGED <<employee, assignment, review>>,
         lock' \in [Employee \cup Slot -> Session \cup {NoSession}],
         \A x \in Session : x # s => \A r \in Employee \cup Slot : lock[r] = x => lock'[r] = x,
         SessionInv(s)'
  PROVE  StaffingInv' /\ RowsMove
<1>1. TypeOK /\ ApprovedBeforeWork /\ CapacityIsKept /\ \A i \in Id : RowInv(i)
  BY DEF StaffingInv
<1>2. TypeOK'
  BY <1>1 DEF TypeOK
<1>3. RowsMove /\ EmployeesMove
  BY DEF RowsMove, EmployeesMove
<1>4. ASSUME NEW x \in Session, x # s PROVE SessionInv(x)'
  <2>1. session'[x] = session[x] /\ SessionInv(x)
    BY <1>1, <1>4, InvFields DEF TypeOK
  <2>2. Apart(x)
    BY DEF Apart, Exists
  <2>3. \A r \in Employee \cup Slot : lock[r] = x => lock'[r] = x
    BY <1>4
  <2> QED
    BY <1>1, <1>2, <1>3, <2>1, <2>2, <2>3, RequestKept
<1>5. \A x \in Session : SessionInv(x)'
  BY <1>4
<1>6. ApprovedBeforeWork'
  BY <1>1 DEF ApprovedBeforeWork
<1>7. CapacityIsKept'
  BY <1>1 DEF CapacityIsKept, Load, Counts, Covers
<1>8. \A i \in Id : RowInv(i)'
  BY <1>1 DEF RowInv, Exists
<1> QED
  BY <1>2, <1>3, <1>5, <1>6, <1>7, <1>8 DEF StaffingInv, SessionInv

\* The same with no lock taken.
LEMMA RequestOpens ==
  ASSUME StaffingInv, NEW s \in Session, NEW request \in Request,
         session' = [session EXCEPT ![s] = request],
         UNCHANGED <<employee, assignment, review, lock>>,
         SessionInv(s)'
  PROVE  StaffingInv' /\ RowsMove
<1>1. lock' \in [Employee \cup Slot -> Session \cup {NoSession}]
  BY DEF StaffingInv, TypeOK
<1> QED
  BY <1>1, RequestMoves

\* A request as it begins: what it proposes, reads and waits for.
LEMMA ProposedRow ==
  ASSUME NEW e \in Employee, NEW slot \in Slot, NEW p \in Proposal
  PROVE  /\ Proposed(e, slot, p) \in Row
         /\ Proposed(e, slot, p).employee = e /\ Proposed(e, slot, p).slot = slot
         /\ Proposed(e, slot, p).from = p.from /\ Proposed(e, slot, p).to = p.to
         /\ Proposed(e, slot, p).status \in {"planned", "active", "ended"}
                                            \cup (IF p.reviewed THEN {"pending_review"} ELSE {})
         /\ Proposed(e, slot, p).status = "ended" => p.to <= Today
         /\ p.from \in Day /\ p.to \in Day \cup {Forever} /\ p.from <= p.to
<1>1. /\ p.fte \in 1..Whole /\ p.from \in Day /\ p.to \in Day \cup {Forever}
      /\ p.primary \in BOOLEAN /\ p.reviewed \in BOOLEAN /\ p.from <= p.to
  BY ProposalAssumption DEF Term
<1>2. 1 \in Revision
  BY BoundAssumption DEF Revision
<1>3. PICK status : status = (IF p.reviewed THEN "pending_review" ELSE StatusOn(p.from, p.to))
  OBVIOUS
<1>4. status \in Status
  BY <1>3 DEF StatusOn, Status
<1>5. PICK row : row = Proposed(e, slot, p)
  OBVIOUS
<1>6. row = [NoRow EXCEPT !.status = status, !.employee = e, !.slot = slot, !.fte = p.fte, !.from = p.from,
                          !.to = p.to, !.primary = p.primary, !.revision = 1]
  BY <1>3, <1>5 DEF Proposed
<1>7. row \in Row
  BY <1>1, <1>2, <1>4, <1>6, IdleRequest DEF Row
<1>8. row.employee = e /\ row.slot = slot /\ row.from = p.from /\ row.to = p.to /\ row.status = status
  BY <1>6, IdleRequest DEF Row
<1>9. status \in {"planned", "active", "ended"} \cup (IF p.reviewed THEN {"pending_review"} ELSE {})
  BY <1>3 DEF StatusOn
<1>10. status = "ended" => p.to <= Today
  <2>1. p.to \in Nat /\ Today \in Nat
    BY <1>1, DayAssumption DEF Day, Forever
  <2> QED
    BY <1>3, <2>1 DEF StatusOn
<1> QED
  BY <1>1, <1>5, <1>7, <1>8, <1>9, <1>10
---------------------------------------------------------------------------
(* Requests begin *)

LEMMA UpdateBegins ==
  ASSUME StaffingInv, NEW s \in Session, BeginUpdate(s)
  PROVE  StaffingInv' /\ RowsMove
<1>1. PICK e \in Employee, change \in Edit :
        /\ employee[e].status # "absent" /\ employee[e].revision < MaxRevision
        /\ Open(s, [Idle EXCEPT !.op = "update", !.checked = TRUE, !.new.employee = e,
                                !.edit = change, !.revision = employee[e].revision])
  BY DEF BeginUpdate
<1>2. employee[e] \in EmployeeRow /\ employee[e].revision \in Revision
  BY DEF StaffingInv, TypeOK, EmployeeRow
<1>3. PICK c : c = [Idle EXCEPT !.op = "update", !.checked = TRUE, !.new.employee = e,
                                !.edit = change, !.revision = employee[e].revision]
  OBVIOUS
<1>4. /\ c \in Request /\ c.op = "update" /\ c.function = "none" /\ c.new.employee = e /\ c.edit = change
      /\ c.revision = employee[e].revision /\ c.revision \in Nat
  <2>1. [NoRow EXCEPT !.employee = e] \in Row
    BY IdleRequest DEF Row
  <2>2. [NoRow EXCEPT !.employee = e].employee = e
    BY IdleRequest DEF Row
  <2>3. c = [Idle EXCEPT !.op = "update", !.checked = TRUE, !.new = [NoRow EXCEPT !.employee = e],
                         !.edit = change, !.revision = employee[e].revision]
    BY <1>3 DEF Idle
  <2>4. "update" \in Op
    BY DEF Op
  <2>5. c \in Request
    BY <1>2, <2>1, <2>3, <2>4, IdleRequest DEF Request
  <2>6. c.op = "update" /\ c.function = "none" /\ c.new = [NoRow EXCEPT !.employee = e] /\ c.edit = change /\ c.revision = employee[e].revision
    BY <2>3 DEF Idle
  <2> QED
    BY <2>2, <2>5, <2>6, RequestFields
<1>5. session' = [session EXCEPT ![s] = c] /\ UNCHANGED <<employee, assignment, review, lock>>
  BY <1>1, <1>3 DEF Open
<1>6. session'[s] = c
  BY <1>5 DEF StaffingInv, TypeOK
<1>7. EmployeeReadInv(s)'
  BY <1>1, <1>4, <1>5, <1>6 DEF EmployeeReadInv
<1>8. SessionInv(s)'
  BY <1>4, <1>6, <1>7 DEF SessionInv, Holds, AddsInv, RowReadInv, Needed
<1> QED
  BY <1>4, <1>5, <1>8, RequestOpens

LEMMA InvocationBegins ==
  ASSUME StaffingInv, NEW s \in Session, Invoke(s)
  PROVE  StaffingInv' /\ RowsMove
<1>1. PICK e \in Employee, function \in Function :
        /\ Available(function, e)
        /\ Open(s, [Idle EXCEPT !.op = "invoke", !.function = function, !.new.employee = e,
                                !.revision = employee[e].revision])
  BY DEF Invoke
<1>2. employee[e] \in EmployeeRow /\ employee[e].revision \in Revision
  BY DEF StaffingInv, TypeOK, EmployeeRow
<1>3. PICK c : c = [Idle EXCEPT !.op = "invoke", !.function = function, !.new.employee = e,
                                !.revision = employee[e].revision]
  OBVIOUS
<1>4. /\ c \in Request /\ c.op = "invoke" /\ c.new.employee = e /\ c.function = function
      /\ c.revision = employee[e].revision /\ c.revision \in Nat
  <2>1. [NoRow EXCEPT !.employee = e] \in Row
    BY IdleRequest DEF Row
  <2>2. [NoRow EXCEPT !.employee = e].employee = e
    BY IdleRequest DEF Row
  <2>3. c = [Idle EXCEPT !.op = "invoke", !.function = function, !.new = [NoRow EXCEPT !.employee = e],
                         !.revision = employee[e].revision]
    BY <1>3 DEF Idle
  <2>4. "invoke" \in Op
    BY DEF Op
  <2>5. c \in Request
    BY <1>2, <2>1, <2>3, <2>4, IdleRequest DEF Request
  <2>6. c.op = "invoke" /\ c.new = [NoRow EXCEPT !.employee = e] /\ c.function = function /\ c.revision = employee[e].revision
    BY <2>3 DEF Idle
  <2> QED
    BY <2>2, <2>5, <2>6, RequestFields
<1>5. session' = [session EXCEPT ![s] = c] /\ UNCHANGED <<employee, assignment, review, lock>>
  BY <1>1, <1>3 DEF Open
<1>6. session'[s] = c
  BY <1>5 DEF StaffingInv, TypeOK
<1>7. employee[e].status # "absent" /\ (function = "employee.terminate" => employee[e].ends = Forever)
  BY <1>1 DEF Available, InService
<1>8. SessionInv(s)'
  BY <1>4, <1>5, <1>6, <1>7 DEF SessionInv, Holds, AddsInv, RowReadInv, EmployeeReadInv, Needed
<1> QED
  BY <1>4, <1>5, <1>8, RequestOpens

LEMMA CreationBegins ==
  ASSUME StaffingInv, NEW s \in Session, BeginCreate(s)
  PROVE  StaffingInv' /\ RowsMove
<1>1. PICK e \in Employee, slot \in Slot, p \in Proposal :
        /\ employee[e].status # "absent"
        /\ Open(s, [Idle EXCEPT !.op = "create", !.new = Proposed(e, slot, p), !.wants = <<e, slot>>])
  BY DEF BeginCreate
<1>2. PICK new : new = Proposed(e, slot, p)
  OBVIOUS
<1>3. PICK c : c = [Idle EXCEPT !.op = "create", !.new = new, !.wants = <<e, slot>>]
  OBVIOUS
<1>4. new \in Row /\ new.employee = e /\ new.slot = slot /\ new.from <= new.to
  BY <1>2, ProposedRow
<1>5. new.status \in {"planned", "active", "ended", "pending_review"} /\ (new.status = "ended" => new.to <= Today)
  BY <1>2, ProposedRow
<1>6. /\ c \in Request /\ c.op = "create" /\ c.new = new /\ c.wants = <<e, slot>> /\ ~c.checked /\ c.target = 0
  <2>1. "create" \in Op /\ <<e, slot>> \in Seq(Employee \cup Slot)
    BY DEF Op
  <2>2. c \in Request
    BY <1>3, <1>4, <2>1, IdleRequest DEF Request
  <2> QED
    BY <1>3, <2>2 DEF Idle
<1>7. session' = [session EXCEPT ![s] = c] /\ UNCHANGED <<employee, assignment, review, lock>>
  BY <1>1, <1>2, <1>3 DEF Open
<1>8. session'[s] = c
  BY <1>7 DEF StaffingInv, TypeOK
<1>9. Holds(s)'
  <2>1. Len(c.wants) = 2 /\ c.wants[1] = e /\ c.wants[2] = slot
    BY <1>6
  <2>2. Needed(c) = {e, slot}
    BY <1>4, <1>6 DEF Needed
  <2>3. \A r \in Needed(c) : \E n \in 1..Len(c.wants) : c.wants[n] = r
    BY <2>1, <2>2
  <2> QED
    BY <1>8, <2>3 DEF Holds
<1>10. AddsInv(s)'
  BY <1>1, <1>4, <1>5, <1>6, <1>7, <1>8 DEF AddsInv
<1>11. SessionInv(s)'
  BY <1>6, <1>8, <1>9, <1>10 DEF SessionInv, RowReadInv, EmployeeReadInv
<1> QED
  BY <1>6, <1>7, <1>11, RequestOpens

LEMMA HireBegins ==
  ASSUME StaffingInv, NEW s \in Session, BeginHire(s)
  PROVE  StaffingInv' /\ RowsMove
<1>1. PICK e \in Employee, slot \in Slot, p \in Proposal :
        /\ ~p.reviewed
        /\ Open(s, [Idle EXCEPT !.op = "hire", !.new = Proposed(e, slot, p), !.wants = <<slot>>])
  BY DEF BeginHire
<1>2. PICK new : new = Proposed(e, slot, p)
  OBVIOUS
<1>3. PICK c : c = [Idle EXCEPT !.op = "hire", !.new = new, !.wants = <<slot>>]
  OBVIOUS
<1>4. new \in Row /\ new.employee = e /\ new.slot = slot /\ new.from <= new.to
  BY <1>2, ProposedRow
<1>5. new.status \in {"planned", "active", "ended"} /\ (new.status = "ended" => new.to <= Today)
  BY <1>1, <1>2, ProposedRow
<1>6. /\ c \in Request /\ c.op = "hire" /\ c.new = new /\ c.wants = <<slot>> /\ ~c.checked /\ c.target = 0
  <2>1. "hire" \in Op /\ <<slot>> \in Seq(Employee \cup Slot)
    BY DEF Op
  <2>2. c \in Request
    BY <1>3, <1>4, <2>1, IdleRequest DEF Request
  <2> QED
    BY <1>3, <2>2 DEF Idle
<1>7. session' = [session EXCEPT ![s] = c] /\ UNCHANGED <<employee, assignment, review, lock>>
  BY <1>1, <1>2, <1>3 DEF Open
<1>8. session'[s] = c
  BY <1>7 DEF StaffingInv, TypeOK
<1>9. Holds(s)'
  <2>1. Len(c.wants) = 1 /\ c.wants[1] = slot
    BY <1>6
  <2>2. Needed(c) = {slot}
    BY <1>4, <1>6 DEF Needed
  <2>3. \A r \in Needed(c) : \E n \in 1..Len(c.wants) : c.wants[n] = r
    BY <2>1, <2>2
  <2> QED
    BY <1>8, <2>3 DEF Holds
<1>10. AddsInv(s)'
  BY <1>4, <1>5, <1>6, <1>7, <1>8 DEF AddsInv
<1>11. SessionInv(s)'
  BY <1>6, <1>8, <1>9, <1>10 DEF SessionInv, RowReadInv, EmployeeReadInv
<1> QED
  BY <1>6, <1>7, <1>11, RequestOpens

LEMMA ReviewBegins ==
  ASSUME StaffingInv, NEW s \in Session, BeginReview(s)
  PROVE  StaffingInv' /\ RowsMove
<1>1. PICK i \in Id, approved \in BOOLEAN :
        /\ review[i] = "pending" /\ assignment[i].revision < MaxRevision
        /\ Open(s, [Idle EXCEPT !.op = "review", !.target = i, !.new = assignment[i], !.approved = approved,
                                !.revision = assignment[i].revision,
                                !.wants = <<assignment[i].employee, assignment[i].slot>>])
  BY DEF BeginReview
<1>2. PICK row \in Row : row = assignment[i]
  BY DEF StaffingInv, TypeOK
<1>3. Exists(i)
  BY <1>1 DEF StaffingInv, RowInv
<1>4. PICK c : c = [Idle EXCEPT !.op = "review", !.target = i, !.new = row, !.approved = approved,
                                !.revision = row.revision, !.wants = <<row.employee, row.slot>>]
  OBVIOUS
<1>5. /\ c \in Request /\ c.op = "review" /\ c.target = i /\ c.revision = row.revision /\ row.revision \in Nat
  <2>1. "review" \in Op /\ <<row.employee, row.slot>> \in Seq(Employee \cup Slot) /\ row.revision \in Revision
    BY DEF Op, Row
  <2>2. i \in 0..MaxAssignment
    BY BoundAssumption DEF Id
  <2>3. c \in Request
    BY <1>4, <2>1, <2>2, IdleRequest DEF Request
  <2> QED
    BY <1>4, <2>3, RequestFields DEF Idle
<1>6. session' = [session EXCEPT ![s] = c] /\ UNCHANGED <<employee, assignment, review, lock>>
  BY <1>1, <1>2, <1>4 DEF Open
<1>7. session'[s] = c
  BY <1>6 DEF StaffingInv, TypeOK
<1>8. SessionInv(s)'
  BY <1>1, <1>2, <1>3, <1>5, <1>6, <1>7
  DEF SessionInv, Holds, AddsInv, RowReadInv, EmployeeReadInv, Needed, Exists
<1> QED
  BY <1>5, <1>6, <1>8, RequestOpens

LEMMA TransferBegins ==
  ASSUME StaffingInv, NEW s \in Session, BeginTransfer(s)
  PROVE  StaffingInv' /\ RowsMove
<1>1. PICK i \in Id, slot \in Slot, p \in Proposal :
        /\ Current(i, session[s].new.employee) /\ assignment[i].revision < MaxRevision
        /\ ~p.reviewed
        /\ Proceed(s, "employee.transfer",
             [Idle EXCEPT !.op = "transfer", !.target = i, !.new = Proposed(assignment[i].employee, slot, p),
                          !.revision = assignment[i].revision,
                          !.wants = <<assignment[i].employee, assignment[i].slot, slot>>])
  BY DEF BeginTransfer
<1>2. PICK row \in Row : row = assignment[i]
  BY DEF StaffingInv, TypeOK
<1>3. PICK e \in Employee : e = row.employee
  BY RowFields
<1>4. PICK new : new = Proposed(e, slot, p)
  OBVIOUS
<1>5. PICK c : c = [Idle EXCEPT !.op = "transfer", !.target = i, !.new = new,
                                !.revision = row.revision, !.wants = <<e, row.slot, slot>>]
  OBVIOUS
<1>6. new \in Row /\ new.employee = e /\ new.slot = slot /\ new.from <= new.to
  BY <1>4, ProposedRow
<1>7. new.status \in {"planned", "active", "ended"} /\ (new.status = "ended" => new.to <= Today)
  BY <1>1, <1>4, ProposedRow
<1>8. /\ c \in Request /\ c.op = "transfer" /\ c.target = i /\ c.new = new /\ c.revision = row.revision
      /\ c.wants = <<e, row.slot, slot>> /\ ~c.checked /\ row.revision \in Nat
  <2>1. "transfer" \in Op /\ <<e, row.slot, slot>> \in Seq(Employee \cup Slot) /\ row.revision \in Revision
    BY DEF Op, Row
  <2>2. i \in 0..MaxAssignment
    BY BoundAssumption DEF Id
  <2>3. c \in Request
    BY <1>5, <1>6, <2>1, <2>2, IdleRequest DEF Request
  <2> QED
    BY <1>5, <2>3, RequestFields DEF Idle
<1>9. session' = [session EXCEPT ![s] = c] /\ UNCHANGED <<employee, assignment, review, lock>>
  BY <1>1, <1>2, <1>3, <1>4, <1>5 DEF Proceed
<1>10. session'[s] = c
  BY <1>9 DEF StaffingInv, TypeOK
<1>11. Holds(s)'
  <2>1. Len(c.wants) = 3 /\ c.wants[1] = e /\ c.wants[3] = slot
    BY <1>8
  <2>2. Needed(c) = {e, slot}
    BY <1>6, <1>8 DEF Needed
  <2>3. \A r \in Needed(c) : \E n \in 1..Len(c.wants) : c.wants[n] = r
    BY <2>1, <2>2
  <2> QED
    BY <1>10, <2>3 DEF Holds
<1>12. AddsInv(s)'
  BY <1>2, <1>3, <1>6, <1>7, <1>8, <1>9, <1>10 DEF AddsInv
<1>13. row.status # "absent"
  BY <1>1, <1>2 DEF Current, EffectivelyActive
<1>14. SessionInv(s)'
  BY <1>1, <1>2, <1>8, <1>9, <1>10, <1>11, <1>12, <1>13 DEF SessionInv, RowReadInv, EmployeeReadInv, Exists
<1> QED
  BY <1>8, <1>9, <1>14, RequestOpens

LEMMA EndBegins ==
  ASSUME StaffingInv, NEW s \in Session, BeginEnd(s)
  PROVE  StaffingInv' /\ RowsMove
<1>1. PICK i \in Id, day \in Day :
        /\ CanEnd(assignment[i], day) /\ assignment[i].revision < MaxRevision
        /\ Open(s, [Idle EXCEPT !.op = "end", !.checked = TRUE, !.target = i, !.day = day,
                                !.revision = assignment[i].revision])
  BY DEF BeginEnd
<1>2. PICK row \in Row : row = assignment[i]
  BY DEF StaffingInv, TypeOK
<1>3. PICK c : c = [Idle EXCEPT !.op = "end", !.checked = TRUE, !.target = i, !.day = day, !.revision = row.revision]
  OBVIOUS
<1>4. /\ c \in Request /\ c.op = "end" /\ c.target = i /\ c.day = day /\ c.revision = row.revision
      /\ row.revision \in Nat
  <2>1. "end" \in Op /\ row.revision \in Revision
    BY DEF Op, Row
  <2>2. i \in 0..MaxAssignment /\ day \in 0..LastDay
    BY BoundAssumption, DayAssumption DEF Id, Day
  <2>3. c \in Request
    BY <1>3, <2>1, <2>2, IdleRequest DEF Request
  <2> QED
    BY <1>3, <2>3, RequestFields DEF Idle
<1>5. session' = [session EXCEPT ![s] = c] /\ UNCHANGED <<employee, assignment, review, lock>>
  BY <1>1, <1>2, <1>3 DEF Open
<1>6. session'[s] = c
  BY <1>5 DEF StaffingInv, TypeOK
<1>7. row.status # "absent"
  BY <1>1, <1>2 DEF CanEnd
<1>8. RowReadInv(s)'
  BY <1>1, <1>2, <1>4, <1>5, <1>6, <1>7 DEF RowReadInv, Exists, CanEnd
<1>9. SessionInv(s)'
  BY <1>4, <1>6, <1>8 DEF SessionInv, Holds, AddsInv, EmployeeReadInv, Needed
<1> QED
  BY <1>4, <1>5, <1>9, RequestOpens

LEMMA TerminationBegins ==
  ASSUME StaffingInv, NEW s \in Session, BeginTerminate(s)
  PROVE  StaffingInv' /\ RowsMove
<1>1. PICK e : e = session[s].new.employee
  OBVIOUS
<1>2. PICK rows : rows = {i \in Id : assignment[i].employee = e /\ Exists(i)}
  OBVIOUS
<1>3. PICK day \in Day :
        /\ InService(e) /\ employee[e].revision = session[s].revision
        /\ employee[e].revision < MaxRevision /\ \A i \in rows : assignment[i].revision < MaxRevision
        /\ Proceed(s, "employee.terminate",
             [Idle EXCEPT !.op = "terminate", !.checked = TRUE, !.new.employee = e, !.day = day,
                          !.revision = employee[e].revision,
                          !.read = {<<i, assignment[i].revision>> : i \in rows}])
  BY <1>1, <1>2 DEF BeginTerminate
<1>4. e \in Employee
  BY <1>1, RequestFields, RowFields DEF StaffingInv, TypeOK
<1>5. employee[e] \in EmployeeRow /\ employee[e].revision \in Revision
  BY <1>4 DEF StaffingInv, TypeOK, EmployeeRow
<1>6. PICK read : read = {<<i, assignment[i].revision>> : i \in rows}
  OBVIOUS
<1>7. read \in SUBSET (Id \X Revision) /\ \A p \in read : Exists(p[1]) /\ p[2] < MaxRevision
  <2>1. \A i \in rows : i \in Id /\ Exists(i) /\ assignment[i].revision \in Revision
    BY <1>2 DEF StaffingInv, TypeOK, Row
  <2> QED
    BY <1>3, <1>6, <2>1
<1>8. PICK c : c = [Idle EXCEPT !.op = "terminate", !.checked = TRUE, !.new.employee = e, !.day = day,
                                !.revision = employee[e].revision, !.read = read]
  OBVIOUS
<1>9. /\ c \in Request /\ c.op = "terminate" /\ c.new.employee = e /\ c.day = day /\ c.read = read
      /\ c.revision = employee[e].revision /\ c.revision \in Nat
  <2>1. [NoRow EXCEPT !.employee = e] \in Row
    BY <1>4, IdleRequest DEF Row
  <2>2. [NoRow EXCEPT !.employee = e].employee = e
    BY IdleRequest DEF Row
  <2>3. c = [Idle EXCEPT !.op = "terminate", !.checked = TRUE, !.new = [NoRow EXCEPT !.employee = e],
                         !.day = day, !.revision = employee[e].revision, !.read = read]
    BY <1>8 DEF Idle
  <2>4. "terminate" \in Op /\ day \in 0..LastDay
    BY DayAssumption DEF Op, Day
  <2>5. c \in Request
    BY <1>5, <1>7, <2>1, <2>3, <2>4, IdleRequest DEF Request
  <2>6. /\ c.op = "terminate" /\ c.new = [NoRow EXCEPT !.employee = e] /\ c.day = day /\ c.read = read
        /\ c.revision = employee[e].revision
    BY <2>3 DEF Idle
  <2> QED
    BY <2>2, <2>5, <2>6, RequestFields
<1>10. session' = [session EXCEPT ![s] = c] /\ UNCHANGED <<employee, assignment, review, lock>>
  BY <1>3, <1>6, <1>8 DEF Proceed
<1>11. session'[s] = c
  BY <1>10 DEF StaffingInv, TypeOK
<1>12. employee[e].status # "absent"
  BY <1>3 DEF InService
<1>13. employee[e].ends = Forever
  <2>1. session[s].op = "invoke" /\ session[s].function = "employee.terminate"
    BY <1>3 DEF Proceed
  <2> QED
    BY <1>1, <1>3, <2>1 DEF StaffingInv, EmployeeReadInv
<1>14. EmployeeReadInv(s)'
  BY <1>3, <1>7, <1>9, <1>10, <1>11, <1>12, <1>13 DEF EmployeeReadInv, Exists
<1>15. SessionInv(s)'
  BY <1>9, <1>11, <1>14 DEF SessionInv, Holds, AddsInv, RowReadInv, Needed
<1> QED
  BY <1>9, <1>10, <1>15, RequestOpens
---------------------------------------------------------------------------
(* Locks and the check *)

LEMMA LockTaken ==
  ASSUME StaffingInv, NEW s \in Session, TakeLock(s)
  PROVE  StaffingInv' /\ RowsMove
<1>1. PICK c \in Request : c = session[s]
  BY DEF StaffingInv, TypeOK
<1>2. PICK r : r = Head(c.wants)
  OBVIOUS
<1>3. /\ c.wants # <<>> /\ lock[r] \in {NoSession, s} /\ lock' = [lock EXCEPT ![r] = s]
      /\ session' = [session EXCEPT ![s].wants = Tail(c.wants)]
      /\ UNCHANGED <<employee, assignment, review>>
  BY <1>1, <1>2 DEF TakeLock
<1>4. c.wants \in Seq(Employee \cup Slot)
  BY <1>1, RequestFields
<1>5. /\ Len(c.wants) \in Nat \ {0} /\ r \in Employee \cup Slot /\ r = c.wants[1]
      /\ Tail(c.wants) \in Seq(Employee \cup Slot) /\ Len(Tail(c.wants)) = Len(c.wants) - 1
      /\ \A n \in 1..(Len(c.wants) - 1) : Tail(c.wants)[n] = c.wants[n + 1]
  BY <1>2, <1>3, <1>4
<1>6. PICK d : d = [c EXCEPT !.wants = Tail(c.wants)]
  OBVIOUS
<1>7. /\ d \in Request /\ d.wants = Tail(c.wants) /\ d.op = c.op /\ d.function = c.function /\ d.edit = c.edit
      /\ d.checked = c.checked /\ d.target = c.target /\ d.new = c.new /\ d.day = c.day
      /\ d.approved = c.approved /\ d.read = c.read /\ d.revision = c.revision
  BY <1>5, <1>6 DEF Request
<1>8. session' = [session EXCEPT ![s] = d] /\ session'[s] = d
  BY <1>1, <1>3, <1>6 DEF StaffingInv, TypeOK
<1>9. lock' \in [Employee \cup Slot -> Session \cup {NoSession}]
  BY <1>3, <1>5 DEF StaffingInv, TypeOK
<1>10. \A x \in Session : x # s => \A q \in Employee \cup Slot : lock[q] = x => lock'[q] = x
  BY <1>3, <1>5, SessionAssumption DEF StaffingInv, TypeOK
<1>11. SessionInv(s)
  BY InvFields
<1>12. lock'[r] = s /\ \A q \in Employee \cup Slot : lock[q] = s => lock'[q] = s
  BY <1>3, <1>5 DEF StaffingInv, TypeOK
<1>13. Holds(s)'
  <2>1. Needed(d) = Needed(c) /\ Needed(c) \subseteq Employee \cup Slot
    BY <1>1, <1>7, RequestFields, RowFields DEF Needed
  <2> SUFFICES ASSUME NEW q \in Needed(c)
               PROVE  lock'[q] = s \/ \E n \in 1..Len(d.wants) : d.wants[n] = q
    BY <1>8, <2>1 DEF Holds
  <2>2. CASE lock[q] = s
    BY <1>12, <2>1, <2>2
  <2>3. CASE \E n \in 1..Len(c.wants) : c.wants[n] = q
    <3>1. PICK n \in 1..Len(c.wants) : c.wants[n] = q
      BY <2>3
    <3>2. CASE n = 1
      BY <1>5, <1>12, <3>1, <3>2
    <3>3. CASE n # 1
      <4>1. PICK m \in 1..(Len(c.wants) - 1) : m + 1 = n
        BY <1>5, <3>3
      <4>2. Tail(c.wants)[m] = c.wants[m + 1]
        BY <1>5
      <4>3. d.wants[m] = q
        BY <1>7, <3>1, <4>1, <4>2
      <4> QED
        BY <1>5, <1>7, <4>3
    <3> QED
      BY <3>2, <3>3
  <2> QED
    BY <1>1, <1>11, <2>2, <2>3 DEF SessionInv, Holds
<1>14. AddsInv(s)'
  <2>1. c.op \in {"create", "hire", "transfer"} => ~c.checked
    BY <1>1, <1>3, <1>11 DEF SessionInv, AddsInv
  <2> QED
    BY <1>1, <1>3, <1>7, <1>8, <1>11, <2>1 DEF SessionInv, AddsInv
<1>15. RowReadInv(s)'
  BY <1>1, <1>3, <1>7, <1>8, <1>11 DEF SessionInv, RowReadInv, Exists, Fresh, CanEnd
<1>16. EmployeeReadInv(s)'
  BY <1>1, <1>3, <1>7, <1>8, <1>11 DEF SessionInv, EmployeeReadInv, Exists
<1>17. SessionInv(s)'
  BY <1>13, <1>14, <1>15, <1>16 DEF SessionInv
<1> QED
  BY <1>3, <1>7, <1>8, <1>9, <1>10, <1>17, RequestMoves

\* Whether an assignment fits is a matter of the others.
LEMMA FitsOthers ==
  ASSUME NEW rows \in [Id -> Row], NEW next \in [Id -> Row], NEW id, NEW new \in Row, Fits(rows, id, new),
         \A i \in Id \ {id} : next[i] = rows[i]
  PROVE  Fits(next, id, new)
<1> SUFFICES ASSUME NEW d \in Day, Covers(new, d)
             PROVE  LET others == {i \in Id \ {id} : Counts(next[i])}
                        mine == {i \in others : next[i].employee = new.employee /\ Covers(next[i], d)}
                        here == {i \in others : next[i].slot = new.slot /\ Covers(next[i], d)}
                    IN /\ new.primary => \A i \in mine : ~next[i].primary
                       /\ Load(next, mine) + new.fte <= Whole
                       /\ Load(next, here) + new.fte <= SlotFte[new.slot]
  BY DEF Fits
<1> DEFINE Mine(r) == {i \in {j \in Id \ {id} : Counts(r[j])} : r[i].employee = new.employee /\ Covers(r[i], d)}
           Here(r) == {i \in {j \in Id \ {id} : Counts(r[j])} : r[i].slot = new.slot /\ Covers(r[i], d)}
<1>1. Mine(next) = Mine(rows) /\ Here(next) = Here(rows) /\ \A i \in Mine(rows) : next[i] = rows[i]
  OBVIOUS
<1>2. /\ new.primary => \A i \in Mine(rows) : ~rows[i].primary
      /\ Load(rows, Mine(rows)) + new.fte <= Whole
      /\ Load(rows, Here(rows)) + new.fte <= SlotFte[new.slot]
  BY DEF Fits
<1>3. Mine(rows) \subseteq Id \ {id} /\ Here(rows) \subseteq Id \ {id}
  OBVIOUS
<1> HIDE DEF Mine, Here
<1>4. UnitsOf(next, Mine(rows)) = UnitsOf(rows, Mine(rows)) /\ UnitsOf(next, Here(rows)) = UnitsOf(rows, Here(rows))
  BY <1>3 DEF UnitsOf
<1>5. Load(next, Mine(next)) = Load(rows, Mine(rows)) /\ Load(next, Here(next)) = Load(rows, Here(rows))
  BY <1>1, <1>4 DEF Load, UnitsOf
<1>6. /\ new.primary => \A i \in Mine(next) : ~next[i].primary
      /\ Load(next, Mine(next)) + new.fte <= Whole
      /\ Load(next, Here(next)) + new.fte <= SlotFte[new.slot]
  BY <1>1, <1>2, <1>5
<1> QED
  BY <1>6 DEF Mine, Here

LEMMA RequestChecked ==
  ASSUME StaffingInv, NEW s \in Session, Check(s)
  PROVE  StaffingInv' /\ RowsMove
<1>1. PICK c \in Request : c = session[s]
  BY DEF StaffingInv, TypeOK
<1>2. /\ c.op \in {"create", "hire", "review", "transfer"} /\ c.wants = <<>> /\ ~c.checked
      /\ c.op = "transfer" => Fresh(s) /\ CanEnd(assignment[c.target], c.new.from - 1)
      /\ c.op # "review" \/ c.approved => Fits(Seen(s), c.target, c.new)
      /\ session' = [session EXCEPT ![s].checked = TRUE]
      /\ UNCHANGED <<employee, assignment, review, lock>>
  BY <1>1 DEF Check
<1>3. PICK d : d = [c EXCEPT !.checked = TRUE]
  OBVIOUS
<1>4. /\ d \in Request /\ d.wants = c.wants /\ d.op = c.op /\ d.function = c.function /\ d.edit = c.edit
      /\ d.checked = TRUE /\ d.target = c.target /\ d.new = c.new /\ d.day = c.day
      /\ d.approved = c.approved /\ d.read = c.read /\ d.revision = c.revision
  BY <1>3 DEF Request
<1>5. session' = [session EXCEPT ![s] = d] /\ session'[s] = d
  BY <1>1, <1>2, <1>3 DEF StaffingInv, TypeOK
<1>6. SessionInv(s)
  BY InvFields
<1>7. Holds(s)'
  BY <1>1, <1>2, <1>4, <1>5, <1>6 DEF SessionInv, Holds, Needed
<1>8. AddsInv(s)'
  <2>1. c.op \in {"create", "hire", "transfer"} => Fits(assignment, c.target, c.new)
    <3>1. CASE c.op \in {"create", "hire"}
      BY <1>1, <1>2, <3>1 DEF Seen
    <3>2. CASE c.op = "transfer"
      <4>1. PICK ended : ended = Ended(assignment[c.target], c.new.from - 1)
        OBVIOUS
      <4>2. Fits([assignment EXCEPT ![c.target] = ended], c.target, c.new)
        BY <1>1, <1>2, <3>2, <4>1 DEF Seen
      <4>3. c.target \in Id /\ Exists(c.target) /\ c.revision < MaxRevision /\ assignment[c.target].revision = c.revision
        BY <1>1, <1>2, <1>6, <3>2 DEF SessionInv, RowReadInv, Fresh
      <4>4. assignment[c.target] \in Row /\ c.new \in Row /\ c.new.from - 1 \in Int
        BY <1>1, <4>3, RequestFields, RowFields DEF StaffingInv, TypeOK
      <4>5. ended \in Row
        BY <1>2, <3>2, <4>1, <4>3, <4>4, EndedMoves DEF Moved
      <4>6. [assignment EXCEPT ![c.target] = ended] \in [Id -> Row] /\ assignment \in [Id -> Row]
        BY <4>3, <4>5 DEF StaffingInv, TypeOK
      <4>7. PICK rows \in [Id -> Row] : rows = [assignment EXCEPT ![c.target] = ended]
        BY <4>6
      <4>8. \A i \in Id \ {c.target} : rows[i] = assignment[i]
        BY <4>6, <4>7
      <4> QED
        BY <4>2, <4>4, <4>6, <4>7, <4>8, FitsOthers
    <3> QED
      BY <1>2, <3>1, <3>2
  <2> QED
    BY <1>1, <1>2, <1>4, <1>5, <1>6, <2>1 DEF SessionInv, AddsInv
<1>9. RowReadInv(s)'
  BY <1>1, <1>2, <1>4, <1>5, <1>6 DEF SessionInv, RowReadInv, Exists, Fresh, CanEnd
<1>10. EmployeeReadInv(s)'
  BY <1>1, <1>2, <1>4, <1>5, <1>6 DEF SessionInv, EmployeeReadInv, Exists
<1>11. SessionInv(s)'
  BY <1>7, <1>8, <1>9, <1>10 DEF SessionInv
<1> QED
  BY <1>2, <1>4, <1>5, <1>11, RequestOpens
---------------------------------------------------------------------------
(* Requests commit *)

\* What a step has to show when it ends a request and changes rows.
LEMMA Committed ==
  ASSUME StaffingInv, NEW s \in Session, Close(s),
         employee' \in [Employee -> EmployeeRow], assignment' \in [Id -> Row],
         review' \in [Id -> {"none", "pending", "approved", "rejected"}],
         RowsMove, EmployeesMove, \A x \in Session : x # s => Apart(x),
         \A i \in Id : RowInv(i)', ApprovedBeforeWork', Capacity(assignment')
  PROVE  StaffingInv'
<1>1. session' = [session EXCEPT ![s] = Idle]
  BY DEF Close
<1>2. lock' = [r \in DOMAIN lock |-> IF lock[r] = s THEN NoSession ELSE lock[r]]
  BY DEF Close, Release
<1>3. TypeOK
  BY InvFields
<1>4. lock' \in [Employee \cup Slot -> Session \cup {NoSession}]
  BY <1>2, <1>3 DEF TypeOK
<1>5. session' \in [Session -> Request]
  BY <1>1, <1>3, IdleRequest DEF TypeOK
<1>6. TypeOK'
  BY <1>4, <1>5 DEF TypeOK
<1>7. ASSUME NEW x \in Session PROVE SessionInv(x)'
  <2>1. CASE x = s
    <3>1. session'[s] = Idle
      BY <1>1, <1>3 DEF TypeOK
    <3> QED
      BY <2>1, <3>1, ClosedRequest
  <2>2. CASE x # s
    <3>1. session'[x] = session[x] /\ SessionInv(x)
      BY <1>1, <1>3, <2>2, InvFields DEF TypeOK
    <3>2. \A r \in Employee \cup Slot : lock[r] = x => lock'[r] = x
      BY <1>2, <1>3, <2>2 DEF TypeOK
    <3> QED
      BY <1>3, <1>6, <2>2, <3>1, <3>2, RequestKept
  <2> QED
    BY <2>1, <2>2
<1>8. CapacityIsKept'
  BY DEF CapacityIsKept, Capacity, EmployeeUnits, SlotUnits
<1> QED
  BY <1>6, <1>7, <1>8 DEF StaffingInv, SessionInv

\* When no row is added, the rows that move keep their promises.
LEMMA NothingAdded ==
  ASSUME StaffingInv, NEW s \in Session, Close(s),
         employee' \in [Employee -> EmployeeRow], assignment' \in [Id -> Row],
         review' \in [Id -> {"none", "pending", "approved", "rejected"}],
         RowsMove, EmployeesMove,
         \A i \in Id : ~Exists(i) => assignment'[i] = assignment[i] /\ review'[i] = "none",
         \A i \in Id : Exists(i) =>
           (review'[i] # "none" /\ assignment'[i].status \notin {"pending_review", "cancelled"}
             => review'[i] = "approved")
  PROVE  StaffingInv' /\ RowsMove
<1>1. /\ TypeOK /\ ApprovedBeforeWork /\ Capacity(assignment) /\ \A i \in Id : RowInv(i)
  BY InvFields
<1>2. \A i \in Id : assignment[i] \in Row /\ assignment'[i] \in Row
  BY <1>1 DEF TypeOK
<1>3. \A x \in Session : Apart(x)
  BY DEF Apart, Exists
<1>4. ASSUME NEW i \in Id PROVE RowInv(i)'
  <2>1. CASE ~Exists(i)
    BY <2>1 DEF RowInv, Exists
  <2>2. CASE Exists(i)
    <3>1. PICK row \in Row : row = assignment[i]
      BY <1>2
    <3>2. PICK next \in Row : next = assignment'[i]
      BY <1>2
    <3>3. /\ row.from <= row.to /\ (row.status = "ended" => row.to <= Today)
          /\ employee[row.employee].status # "absent" /\ row.employee \in Employee /\ row.status # "absent"
      BY <1>1, <2>2, <3>1, RowFields DEF RowInv, Exists
    <3>4. next = row \/ Moved(row, next)
      BY <2>2, <3>1, <3>2 DEF RowsMove
    <3>5. /\ next.status # "absent" /\ next.from <= next.to /\ (next.status = "ended" => next.to <= Today)
          /\ next.employee = row.employee
      BY <3>3, <3>4 DEF Moved
    <3>6. employee'[row.employee].status # "absent"
      BY <3>3 DEF EmployeesMove
    <3> QED
      BY <3>2, <3>5, <3>6 DEF RowInv, Exists
  <2> QED
    BY <2>1, <2>2
<1>5. ApprovedBeforeWork'
  <2> SUFFICES ASSUME NEW i \in Id, review'[i] # "none", assignment'[i].status \notin {"pending_review", "cancelled"}
               PROVE  review'[i] = "approved"
    BY DEF ApprovedBeforeWork
  <2> QED
    OBVIOUS
<1>6. Capacity(assignment')
  <2>1. assignment \in [Id -> Row] /\ assignment' \in [Id -> Row]
    BY <1>1 DEF TypeOK
  <2>2. ASSUME NEW i \in Id, Counts(assignment'[i]) PROVE Lessened(assignment[i], assignment'[i])
    <3>1. Exists(i)
      BY <2>2 DEF Exists, Counts
    <3>2. CASE assignment'[i] = assignment[i]
      <4>1. assignment[i].to \in Nat
        BY <1>2, RowFields
      <4> QED
        BY <2>2, <3>2, <4>1 DEF Lessened
    <3>3. CASE Moved(assignment[i], assignment'[i])
      BY <3>3, MovedLessens
    <3> QED
      BY <3>1, <3>2, <3>3 DEF RowsMove
  <2> QED
    BY <1>1, <2>1, <2>2, CapacityLessened
<1> QED
  BY <1>3, <1>4, <1>5, <1>6, Committed

LEMMA RegisterKeeps ==
  ASSUME StaffingInv, NEW s \in Session, Register(s)
  PROVE  StaffingInv' /\ RowsMove
<1>1. PICK e \in Employee, status \in {"draft", "active"} :
        /\ employee[e].status = "absent"
        /\ employee' = [employee EXCEPT ![e] = [NewEmployee EXCEPT !.status = status, !.hired = Today]]
        /\ UNCHANGED <<assignment, review, lock, session>>
  BY DEF Register
<1>2. /\ TypeOK /\ ApprovedBeforeWork /\ CapacityIsKept /\ \A i \in Id : RowInv(i)
  BY DEF StaffingInv
<1>3. [NewEmployee EXCEPT !.status = status, !.hired = Today] \in EmployeeRow
  <2>1. 1 \in Revision /\ Today \in Day /\ 1 \in Day
    BY DayAssumption, BoundAssumption DEF Revision, Day
  <2>2. status \in EmploymentStatus
    BY <1>1 DEF EmploymentStatus
  <2>3. NewEmployee \in EmployeeRow
    BY <2>1 DEF NewEmployee, EmployeeRow, EmploymentStatus
  <2> QED
    BY <2>1, <2>2, <2>3 DEF EmployeeRow
<1>4. TypeOK'
  BY <1>1, <1>2, <1>3 DEF TypeOK
<1>5. RowsMove /\ EmployeesMove
  BY <1>1, <1>2 DEF RowsMove, EmployeesMove, TypeOK
<1>6. ASSUME NEW x \in Session PROVE SessionInv(x)'
  <2>1. SessionInv(x)
    BY InvFields
  <2>2. Apart(x)
    BY <1>1 DEF Apart, Exists
  <2> QED
    BY <1>1, <1>2, <1>4, <1>5, <2>1, <2>2, RequestKept
<1>7. ApprovedBeforeWork'
  BY <1>1, <1>2 DEF ApprovedBeforeWork
<1>8. CapacityIsKept'
  BY <1>1, <1>2 DEF CapacityIsKept, Load, Counts, Covers
<1>9. ASSUME NEW i \in Id PROVE RowInv(i)'
  <2>1. assignment[i] \in Row
    BY <1>2 DEF TypeOK
  <2>2. assignment[i].employee \in Employee
    BY <2>1, RowFields
  <2>3. employee[assignment[i].employee].status # "absent" => employee'[assignment[i].employee].status # "absent"
    BY <1>5, <2>2 DEF EmployeesMove
  <2> QED
    BY <1>1, <1>2, <2>3 DEF RowInv, Exists
<1> QED
  BY <1>4, <1>5, <1>6, <1>7, <1>8, <1>9 DEF StaffingInv, SessionInv

LEMMA UpdateCommits ==
  ASSUME StaffingInv, NEW s \in Session, CommitUpdate(s)
  PROVE  StaffingInv' /\ RowsMove
<1>1. PICK c \in Request : c = session[s]
  BY DEF StaffingInv, TypeOK
<1>2. PICK e \in Employee : e = c.new.employee
  BY RequestFields, RowFields
<1>3. PICK row \in EmployeeRow : row = employee[e]
  BY DEF StaffingInv, TypeOK
<1>4. PICK next : next = Edited([row EXCEPT !.revision = c.revision + 1], c.edit)
  OBVIOUS
<1>5. /\ c.op = "update" /\ row.revision = c.revision
      /\ employee' = [employee EXCEPT ![e] = next] /\ Close(s) /\ UNCHANGED <<assignment, review>>
  BY <1>1, <1>2, <1>3, <1>4 DEF CommitUpdate, Ready
<1>6. row.status # "absent" /\ c.revision < MaxRevision /\ c.edit \in Edit
  BY <1>1, <1>2, <1>3, <1>5 DEF StaffingInv, EmployeeReadInv
<1>7. next \in EmployeeRow /\ next.status # "absent" /\ next.revision = row.revision + 1
  <2>1. PICK old : old = [row EXCEPT !.revision = c.revision + 1]
    OBVIOUS
  <2>2. row.revision \in Nat /\ c.revision + 1 \in Revision
    BY <1>3, <1>5, <1>6, BoundAssumption DEF EmployeeRow, Revision
  <2>3. old \in EmployeeRow /\ old.status = row.status /\ old.revision = row.revision + 1
    BY <1>5, <2>1, <2>2 DEF EmployeeRow
  <2>4. /\ "status" \in DOMAIN c.edit => c.edit.status \in EmploymentStatus
        /\ "active" \in DOMAIN c.edit => c.edit.active \in BOOLEAN
        /\ "ends" \in DOMAIN c.edit => c.edit.ends \in Day
    BY <1>6, EditAssumption
  <2>5. PICK status : status = (IF "status" \in DOMAIN c.edit THEN c.edit["status"] ELSE old["status"])
    OBVIOUS
  <2>6. PICK active : active = (IF "active" \in DOMAIN c.edit THEN c.edit["active"] ELSE old["active"])
    OBVIOUS
  <2>7. PICK ends : ends = (IF "ends" \in DOMAIN c.edit THEN c.edit["ends"] ELSE old["ends"])
    OBVIOUS
  <2>8. next = [old EXCEPT !.status = status, !.active = active, !.ends = ends]
    BY <1>4, <2>1, <2>5, <2>6, <2>7 DEF Edited
  <2>9. status \in EmploymentStatus \cup {"absent"} /\ status # "absent"
    BY <1>6, <2>3, <2>4, <2>5 DEF EmployeeRow, EmploymentStatus
  <2>10. active \in BOOLEAN
    BY <2>3, <2>4, <2>6 DEF EmployeeRow
  <2>11. ends \in Day \cup {Forever}
    BY <2>3, <2>4, <2>7 DEF EmployeeRow
  <2>12. next \in EmployeeRow
    BY <2>3, <2>8, <2>9, <2>10, <2>11 DEF EmployeeRow
  <2>13. next.status = status /\ next.revision = old.revision
    BY <2>3, <2>8 DEF EmployeeRow
  <2> QED
    BY <2>3, <2>9, <2>12, <2>13
<1>8. employee' \in [Employee -> EmployeeRow]
  BY <1>5, <1>7 DEF StaffingInv, TypeOK
<1>9. EmployeesMove
  BY <1>3, <1>5, <1>7 DEF EmployeesMove, StaffingInv, TypeOK
<1>10. RowsMove
  BY <1>5 DEF RowsMove
<1>11. /\ assignment' \in [Id -> Row] /\ review' \in [Id -> {"none", "pending", "approved", "rejected"}]
       /\ \A i \in Id : ~Exists(i) => assignment'[i] = assignment[i] /\ review'[i] = "none"
  BY <1>5 DEF StaffingInv, TypeOK, RowInv
<1>12. \A i \in Id : review'[i] # "none" /\ assignment'[i].status \notin {"pending_review", "cancelled"}
                       => review'[i] = "approved"
  BY <1>5 DEF StaffingInv, ApprovedBeforeWork
<1> QED
  BY <1>5, <1>8, <1>9, <1>10, <1>11, <1>12, NothingAdded

LEMMA FailureKeeps ==
  ASSUME StaffingInv, NEW s \in Session, Fail(s)
  PROVE  StaffingInv' /\ RowsMove
<1>1. Close(s) /\ UNCHANGED <<employee, assignment, review>>
  BY DEF Fail
<1>2. RowsMove /\ EmployeesMove
  BY <1>1 DEF RowsMove, EmployeesMove
<1>3. /\ employee' \in [Employee -> EmployeeRow]
      /\ assignment' \in [Id -> Row] /\ review' \in [Id -> {"none", "pending", "approved", "rejected"}]
      /\ \A i \in Id : ~Exists(i) => assignment'[i] = assignment[i] /\ review'[i] = "none"
  BY <1>1 DEF StaffingInv, TypeOK, RowInv
<1>4. \A i \in Id : review'[i] # "none" /\ assignment'[i].status \notin {"pending_review", "cancelled"}
                      => review'[i] = "approved"
  BY <1>1 DEF StaffingInv, ApprovedBeforeWork
<1> QED
  BY <1>1, <1>2, <1>3, <1>4, NothingAdded

LEMMA EndCommits ==
  ASSUME StaffingInv, NEW s \in Session, CommitEnd(s)
  PROVE  StaffingInv' /\ RowsMove
<1>1. PICK c \in Request : c = session[s]
  BY DEF StaffingInv, TypeOK
<1>2. PICK i : i = c.target
  OBVIOUS
<1>3. PICK next : next = Ended(assignment[i], c.day)
  OBVIOUS
<1>4. c.op = "end" /\ Fresh(s) /\ assignment' = [assignment EXCEPT ![i] = next] /\ Close(s) /\ UNCHANGED <<employee, review>>
  BY <1>1, <1>2, <1>3 DEF CommitEnd, Ready
<1>5. i \in Id /\ Exists(i) /\ CanEnd(assignment[i], c.day) /\ assignment[i].revision < MaxRevision
  BY <1>1, <1>2, <1>4 DEF StaffingInv, RowReadInv, Fresh
<1>6. assignment[i] \in Row /\ c.day \in Int
  BY <1>5, RequestFields, DayAssumption DEF StaffingInv, TypeOK, Day
<1>7. Moved(assignment[i], next) /\ assignment[i].status # "pending_review"
  BY <1>3, <1>5, <1>6, EndedMoves
<1>8. next \in Row
  BY <1>7 DEF Moved
<1>9. RowsMove
  BY <1>4, <1>7 DEF RowsMove, StaffingInv, TypeOK
<1>10. EmployeesMove
  BY <1>4 DEF EmployeesMove
<1>11. /\ employee' \in [Employee -> EmployeeRow] /\ assignment' \in [Id -> Row]
       /\ review' \in [Id -> {"none", "pending", "approved", "rejected"}]
  BY <1>4, <1>5, <1>8 DEF StaffingInv, TypeOK
<1>12. \A j \in Id : ~Exists(j) => assignment'[j] = assignment[j] /\ review'[j] = "none"
  BY <1>4, <1>5 DEF StaffingInv, TypeOK, RowInv
<1>13. ASSUME NEW j \in Id, review'[j] # "none", assignment'[j].status \notin {"pending_review", "cancelled"}
       PROVE  review'[j] = "approved"
  <2>1. CASE j = i
    BY <1>4, <1>7, <1>13, <2>1 DEF StaffingInv, ApprovedBeforeWork, Moved
  <2>2. CASE j # i
    BY <1>4, <1>13, <2>2 DEF StaffingInv, TypeOK, ApprovedBeforeWork
  <2> QED
    BY <2>1, <2>2
<1> QED
  BY <1>4, <1>9, <1>10, <1>11, <1>12, <1>13, NothingAdded

LEMMA ReviewCommits ==
  ASSUME StaffingInv, NEW s \in Session, CommitReview(s)
  PROVE  StaffingInv' /\ RowsMove
<1>1. PICK c \in Request : c = session[s]
  BY DEF StaffingInv, TypeOK
<1>2. PICK i : i = c.target
  OBVIOUS
<1>3. PICK row : row = assignment[i]
  OBVIOUS
<1>4. PICK verdict : verdict = (IF c.approved THEN StatusOn(row.from, row.to) ELSE "cancelled")
  OBVIOUS
<1>5. /\ c.op = "review" /\ Fresh(s) /\ row.status = "pending_review"
      /\ assignment' = [assignment EXCEPT ![i].status = verdict, ![i].revision = @ + 1]
      /\ review' = [review EXCEPT ![i] = IF c.approved THEN "approved" ELSE "rejected"]
      /\ Close(s) /\ UNCHANGED employee
  BY <1>1, <1>2, <1>3, <1>4 DEF CommitReview, Ready
<1>6. i \in Id /\ Exists(i) /\ row.revision < MaxRevision
  BY <1>1, <1>2, <1>3, <1>5 DEF StaffingInv, RowReadInv, Fresh
<1>7. row \in Row
  BY <1>3, <1>6 DEF StaffingInv, TypeOK
<1>8. PICK next : next = [row EXCEPT !.status = verdict, !.revision = row.revision + 1]
  OBVIOUS
<1>9. assignment' = [assignment EXCEPT ![i] = next]
  BY <1>3, <1>5, <1>6, <1>8 DEF StaffingInv, TypeOK
<1>10. Moved(row, next) /\ next.status = verdict
  <2>1. row.revision \in Nat /\ row.to \in Nat /\ row.revision + 1 \in Revision
    BY <1>6, <1>7, RowFields, BoundAssumption DEF Revision
  <2>2. verdict \in Status /\ verdict # "absent"
    BY <1>4 DEF StatusOn, Status
  <2>3. next \in Row
    BY <1>7, <1>8, <2>1, <2>2 DEF Row
  <2>4. /\ next.employee = row.employee /\ next.slot = row.slot /\ next.fte = row.fte
        /\ next.from = row.from /\ next.to = row.to /\ next.primary = row.primary
        /\ next.status = verdict /\ next.revision = row.revision + 1
    BY <1>7, <1>8 DEF Row
  <2>5. verdict = "ended" => row.to <= Today
    BY <1>4, <2>1, DayAssumption DEF StatusOn, Day
  <2>6. row.from <= row.to
    BY <1>3, <1>6 DEF StaffingInv, RowInv
  <2> QED
    BY <1>5, <2>1, <2>2, <2>3, <2>4, <2>5, <2>6 DEF Moved
<1>11. next \in Row
  BY <1>10 DEF Moved
<1>12. RowsMove
  BY <1>3, <1>9, <1>10 DEF RowsMove, StaffingInv, TypeOK
<1>13. EmployeesMove
  BY <1>5 DEF EmployeesMove
<1>14. /\ employee' \in [Employee -> EmployeeRow] /\ assignment' \in [Id -> Row]
       /\ review' \in [Id -> {"none", "pending", "approved", "rejected"}]
  BY <1>5, <1>6, <1>9, <1>11 DEF StaffingInv, TypeOK
<1>15. \A j \in Id : ~Exists(j) => assignment'[j] = assignment[j] /\ review'[j] = "none"
  BY <1>5, <1>6, <1>9 DEF StaffingInv, TypeOK, RowInv
<1>16. ASSUME NEW j \in Id, review'[j] # "none", assignment'[j].status \notin {"pending_review", "cancelled"}
       PROVE  review'[j] = "approved"
  <2>1. CASE j = i
    <3>1. assignment'[i] = next /\ review'[i] = (IF c.approved THEN "approved" ELSE "rejected")
      BY <1>5, <1>6, <1>9 DEF StaffingInv, TypeOK
    <3> QED
      BY <1>4, <1>10, <1>16, <2>1, <3>1
  <2>2. CASE j # i
    BY <1>5, <1>9, <1>16, <2>2 DEF StaffingInv, TypeOK, ApprovedBeforeWork
  <2> QED
    BY <2>1, <2>2
<1> QED
  BY <1>5, <1>12, <1>13, <1>14, <1>15, <1>16, NothingAdded
LEMMA TerminationCommits ==
  ASSUME StaffingInv, NEW s \in Session, CommitTerminate(s)
  PROVE  StaffingInv' /\ RowsMove
<1>1. PICK c \in Request : c = session[s]
  BY DEF StaffingInv, TypeOK
<1>2. PICK e \in Employee : e = c.new.employee
  BY RequestFields, RowFields
<1>3. PICK row \in EmployeeRow : row = employee[e]
  BY DEF StaffingInv, TypeOK
<1>4. PICK read : read = {p[1] : p \in c.read}
  OBVIOUS
<1>5. /\ c.op = "terminate" /\ row.revision = c.revision
      /\ \A p \in c.read : p[1] \in read /\ Terminated(assignment[p[1]], c.day) # assignment[p[1]]
                             => assignment[p[1]].revision = p[2]
      /\ employee' = [employee EXCEPT
           ![e].ends = c.day, ![e].revision = @ + 1,
           ![e].status = IF c.day <= Today THEN "ended" ELSE @, ![e].active = @ /\ c.day > Today]
      /\ assignment' = [i \in Id |->
           IF i \in read THEN Terminated(assignment[i], c.day) ELSE assignment[i]]
      /\ Close(s) /\ UNCHANGED review
  BY <1>1, <1>2, <1>3, <1>4 DEF CommitTerminate, Ready
<1>6. /\ row.status # "absent" /\ c.revision < MaxRevision /\ c.day \in Day
      /\ \A p \in c.read : Exists(p[1]) /\ p[2] < MaxRevision
  BY <1>1, <1>2, <1>3, <1>5 DEF StaffingInv, EmployeeReadInv
<1>7. PICK next : next = [row EXCEPT !.ends = c.day, !.revision = row.revision + 1,
                                     !.status = IF c.day <= Today THEN "ended" ELSE row.status,
                                     !.active = row.active /\ c.day > Today]
  OBVIOUS
<1>8. employee' = [employee EXCEPT ![e] = next]
  BY <1>3, <1>5, <1>7 DEF StaffingInv, TypeOK, EmployeeRow
<1>9. next \in EmployeeRow /\ next.status # "absent" /\ next.revision = row.revision + 1
  <2>1. row.revision + 1 \in Revision /\ row.status \in EmploymentStatus \cup {"absent"} /\ row.active \in BOOLEAN
    BY <1>5, <1>6, BoundAssumption DEF EmployeeRow, Revision
  <2>2. PICK status : status = (IF c.day <= Today THEN "ended" ELSE row.status)
    OBVIOUS
  <2>3. PICK active \in BOOLEAN : active = (row.active /\ c.day > Today)
    OBVIOUS
  <2>4. next = [row EXCEPT !.ends = c.day, !.revision = row.revision + 1, !.status = status, !.active = active]
    BY <1>7, <2>2, <2>3
  <2>5. status \in EmploymentStatus \cup {"absent"} /\ status # "absent"
    BY <1>6, <2>1, <2>2 DEF EmploymentStatus
  <2>6. next \in EmployeeRow
    BY <1>6, <2>1, <2>4, <2>5 DEF EmployeeRow
  <2>7. next.status = status /\ next.revision = row.revision + 1
    BY <2>4 DEF EmployeeRow
  <2> QED
    BY <2>5, <2>6, <2>7
<1>10. ASSUME NEW i \in Id
       PROVE  /\ assignment'[i] = assignment[i]
                 \/ /\ Exists(i) /\ Moved(assignment[i], assignment'[i])
                    /\ assignment[i].status = "pending_review" => assignment'[i].status = "cancelled"
  <2>1. CASE i \notin read
    BY <1>5, <2>1
  <2>2. CASE i \in read
    <3>1. PICK p \in c.read : p[1] = i
      BY <1>4, <2>2
    <3>2. assignment'[i] = Terminated(assignment[i], c.day)
      BY <1>5, <2>2
    <3>3. Exists(i) /\ p[2] < MaxRevision
      BY <1>6, <3>1
    <3>4. Terminated(assignment[i], c.day) # assignment[i] => assignment[i].revision < MaxRevision
      BY <1>5, <2>2, <3>1, <3>3
    <3>5. assignment[i] \in Row /\ assignment[i].from <= assignment[i].to
      BY <3>3 DEF StaffingInv, TypeOK, RowInv
    <3> QED
      BY <1>6, <3>2, <3>3, <3>4, <3>5, TerminatedMoves
  <2> QED
    BY <2>1, <2>2
<1>11. RowsMove
  BY <1>10 DEF RowsMove
<1>12. EmployeesMove
  BY <1>3, <1>8, <1>9 DEF EmployeesMove, StaffingInv, TypeOK
<1>13. employee' \in [Employee -> EmployeeRow]
  BY <1>8, <1>9 DEF StaffingInv, TypeOK
<1>14. assignment' \in [Id -> Row]
  <2>1. \A i \in Id : assignment'[i] \in Row
    BY <1>10 DEF Moved, StaffingInv, TypeOK
  <2>2. DOMAIN assignment' = Id /\ assignment' = [i \in Id |-> assignment'[i]]
    BY <1>5
  <2> QED
    BY <2>1, <2>2
<1>15. /\ review' \in [Id -> {"none", "pending", "approved", "rejected"}]
       /\ \A i \in Id : ~Exists(i) => assignment'[i] = assignment[i] /\ review'[i] = "none"
  BY <1>5, <1>10 DEF StaffingInv, TypeOK, RowInv
<1>16. ASSUME NEW i \in Id, review'[i] # "none", assignment'[i].status \notin {"pending_review", "cancelled"}
       PROVE  review'[i] = "approved"
  <2>1. assignment[i].status # "pending_review" /\ assignment[i].status # "cancelled"
    BY <1>10, <1>16 DEF Moved
  <2> QED
    BY <1>5, <1>16, <2>1 DEF StaffingInv, ApprovedBeforeWork
<1> QED
  BY <1>5, <1>11, <1>12, <1>13, <1>14, <1>15, <1>16, NothingAdded

---------------------------------------------------------------------------
(* Rows are added *)

\* A request that adds a row holds the locks of what it counts, so that no other one that is
\* about to add has counted the same.
LEMMA OthersApart ==
  ASSUME StaffingInv, NEW s \in Session, NEW x \in Session, x # s,
         session[s].op \in {"create", "hire", "transfer"}, session[s].checked,
         session[s].op = "hire" => /\ employee[session[s].new.employee].status = "absent"
                                   /\ employee'[session[s].new.employee].status # "absent",
         EmployeesMove,
         \A i \in Id : ~Exists(i) /\ assignment'[i].status # "absent" => assignment'[i] = session[s].new
  PROVE  Apart(x)
<1>1. PICK c \in Request : c = session[s]
  BY DEF StaffingInv, TypeOK
<1>2. PICK d \in Request : d = session[x]
  BY DEF StaffingInv, TypeOK
<1>3. SessionInv(s) /\ SessionInv(x)
  BY InvFields
<1>4. c.wants = <<>> /\ \A r \in Needed(c) : lock[r] = s
  <2>1. c.wants = <<>>
    BY <1>1, <1>3 DEF SessionInv, AddsInv
  <2> QED
    BY <1>1, <1>3, <2>1 DEF SessionInv, Holds
<1> SUFFICES ASSUME NEW i \in Id, ~Exists(i), assignment'[i].status # "absent",
                    d.op \in {"create", "hire", "transfer"}, d.checked,
                    d.op = "hire" => employee'[d.new.employee].status = "absent"
             PROVE  c.new.employee # d.new.employee /\ c.new.slot # d.new.slot
  BY <1>1, <1>2 DEF Apart
<1>5. d.wants = <<>> /\ \A r \in Needed(d) : lock[r] = x
  <2>1. d.wants = <<>>
    BY <1>2, <1>3 DEF SessionInv, AddsInv
  <2> QED
    BY <1>2, <1>3, <2>1 DEF SessionInv, Holds
<1>6. c.new.slot \in Needed(c) /\ d.new.slot \in Needed(d)
  BY <1>1 DEF Needed
<1>7. c.new.slot # d.new.slot
  BY <1>4, <1>5, <1>6
<1>8. ASSUME NEW y \in Session, session[y].op \in {"create", "transfer"}
      PROVE  employee[session[y].new.employee].status # "absent"
  <2>1. SessionInv(y)
    BY InvFields
  <2>2. CASE session[y].op = "create"
    BY <2>1, <2>2 DEF SessionInv, AddsInv
  <2>3. CASE session[y].op = "transfer"
    BY <2>1, <2>3 DEF SessionInv, AddsInv, RowReadInv, StaffingInv, RowInv
  <2> QED
    BY <1>8, <2>2, <2>3
<1>9. c.new.employee \in Employee /\ d.new.employee \in Employee
  BY RequestFields, RowFields
<1>10. c.new.employee # d.new.employee
  <2>1. CASE c.op \in {"create", "transfer"} /\ d.op \in {"create", "transfer"}
    <3>1. c.new.employee \in Needed(c) /\ d.new.employee \in Needed(d)
      BY <2>1 DEF Needed
    <3> QED
      BY <1>4, <1>5, <3>1
  <2>2. CASE c.op \in {"create", "transfer"} /\ d.op = "hire"
    BY <1>1, <1>8, <1>9, <2>2 DEF EmployeesMove
  <2>3. CASE c.op = "hire" /\ d.op \in {"create", "transfer"}
    BY <1>1, <1>2, <1>8, <2>3
  <2>4. CASE c.op = "hire" /\ d.op = "hire"
    BY <1>1, <2>4
  <2> QED
    BY <1>1, <2>1, <2>2, <2>3, <2>4
<1> QED
  BY <1>7, <1>10

LEMMA CreationCommits ==
  ASSUME StaffingInv, NEW s \in Session, CommitCreate(s)
  PROVE  StaffingInv' /\ RowsMove
<1>1. PICK c \in Request : c = session[s]
  BY DEF StaffingInv, TypeOK
<1>2. PICK i \in Id :
        /\ c.op = "create" /\ c.checked /\ ~Exists(i)
        /\ assignment' = [assignment EXCEPT ![i] = c.new]
        /\ review' = [review EXCEPT ![i] = IF c.new.status = "pending_review" THEN "pending" ELSE @]
        /\ Close(s) /\ UNCHANGED employee
  BY <1>1 DEF CommitCreate, Ready, NextId
<1>3. PICK new \in Row : new = c.new
  BY RequestFields
<1>4. /\ new.status \in {"planned", "active", "ended", "pending_review"} /\ new.from <= new.to
      /\ new.status = "ended" => new.to <= Today
      /\ Fits(assignment, 0, new) /\ employee[new.employee].status # "absent"
  BY <1>1, <1>2, <1>3, InvFields DEF SessionInv, AddsInv
<1>5. TypeOK /\ ApprovedBeforeWork /\ Capacity(assignment) /\ \A j \in Id : RowInv(j)
  BY InvFields
<1>6. /\ assignment'[i] = new /\ \A j \in Id : j # i => assignment'[j] = assignment[j]
      /\ review'[i] = (IF new.status = "pending_review" THEN "pending" ELSE review[i])
      /\ \A j \in Id : j # i => review'[j] = review[j]
  BY <1>2, <1>3, <1>5 DEF TypeOK
<1>7. /\ employee' \in [Employee -> EmployeeRow] /\ assignment' \in [Id -> Row]
      /\ review' \in [Id -> {"none", "pending", "approved", "rejected"}]
  BY <1>2, <1>3, <1>5 DEF TypeOK
<1>8. RowsMove /\ EmployeesMove
  BY <1>2, <1>6 DEF RowsMove, EmployeesMove
<1>9. \A x \in Session : x # s => Apart(x)
  <2>1. \A j \in Id : ~Exists(j) /\ assignment'[j].status # "absent" => assignment'[j] = new
    BY <1>6 DEF Exists
  <2> QED
    BY <1>1, <1>2, <1>3, <1>8, <2>1, OthersApart
<1>10. ASSUME NEW j \in Id PROVE RowInv(j)'
  <2>1. CASE j = i
    BY <1>2, <1>4, <1>6, <2>1 DEF RowInv, Exists
  <2>2. CASE j # i
    BY <1>2, <1>5, <1>6, <2>2 DEF RowInv, Exists
  <2> QED
    BY <2>1, <2>2
<1>11. ApprovedBeforeWork'
  <2>1. review[i] = "none"
    BY <1>2, <1>5 DEF RowInv
  <2> QED
    BY <1>5, <1>6, <2>1 DEF ApprovedBeforeWork
<1>12. Capacity(assignment')
  <2>1. \A j \in Id : j # i /\ Counts(assignment'[j]) => Lessened(assignment[j], assignment'[j])
    <3>1. \A j \in Id : assignment[j].to \in Nat
      BY <1>5, RowFields DEF TypeOK
    <3> QED
      BY <1>6, <3>1 DEF Lessened
  <2>2. 0 \notin Id
    BY DEF Id
  <2> QED
    BY <1>4, <1>5, <1>6, <1>7, <2>1, <2>2, CapacityAdded DEF TypeOK
<1> QED
  BY <1>2, <1>7, <1>8, <1>9, <1>10, <1>11, <1>12, Committed

LEMMA HireCommits ==
  ASSUME StaffingInv, NEW s \in Session, CommitHire(s)
  PROVE  StaffingInv' /\ RowsMove
<1>1. PICK c \in Request : c = session[s]
  BY DEF StaffingInv, TypeOK
<1>2. PICK new \in Row : new = c.new
  BY RequestFields
<1>3. PICK e \in Employee : e = new.employee
  BY RowFields
<1>4. PICK next : next = [NewEmployee EXCEPT !.hired = new.from]
  OBVIOUS
<1>5. PICK i \in Id :
        /\ c.op = "hire" /\ c.checked /\ ~Exists(i) /\ employee[e].status = "absent"
        /\ employee' = [employee EXCEPT ![e] = next]
        /\ assignment' = [assignment EXCEPT ![i] = new]
        /\ Close(s) /\ UNCHANGED review
  BY <1>1, <1>2, <1>3, <1>4 DEF CommitHire, Ready, NextId
<1>6. /\ new.status \in {"planned", "active", "ended"} /\ new.from <= new.to
      /\ new.status = "ended" => new.to <= Today
      /\ Fits(assignment, 0, new)
  BY <1>1, <1>2, <1>3, <1>5, InvFields DEF SessionInv, AddsInv
<1>7. TypeOK /\ ApprovedBeforeWork /\ Capacity(assignment) /\ \A j \in Id : RowInv(j)
  BY InvFields
<1>8. /\ assignment'[i] = new /\ \A j \in Id : j # i => assignment'[j] = assignment[j]
  BY <1>5, <1>7 DEF TypeOK
<1>9. next \in EmployeeRow /\ next.status = "active"
  <2>1. 1 \in Revision /\ new.from \in Day /\ "active" \in EmploymentStatus
    BY RowFields, BoundAssumption DEF EmploymentStatus, Revision
  <2>2. next = [status |-> "active", active |-> TRUE, hired |-> new.from, ends |-> Forever, revision |-> 1]
    BY <1>4 DEF NewEmployee
  <2> QED
    BY <2>1, <2>2 DEF EmployeeRow
<1>10. /\ employee' \in [Employee -> EmployeeRow] /\ assignment' \in [Id -> Row]
       /\ review' \in [Id -> {"none", "pending", "approved", "rejected"}]
  BY <1>5, <1>7, <1>9 DEF TypeOK
<1>11. RowsMove /\ EmployeesMove
  BY <1>5, <1>7, <1>8 DEF RowsMove, EmployeesMove, TypeOK
<1>12. employee'[e] = next /\ \A d \in Employee : employee[d].status # "absent" => employee'[d].status # "absent"
  BY <1>5, <1>7, <1>9 DEF TypeOK
<1>13. \A x \in Session : x # s => Apart(x)
  <2>1. \A j \in Id : ~Exists(j) /\ assignment'[j].status # "absent" => assignment'[j] = new
    BY <1>8 DEF Exists
  <2> QED
    BY <1>1, <1>2, <1>3, <1>5, <1>9, <1>11, <1>12, <2>1, OthersApart
<1>14. ASSUME NEW j \in Id PROVE RowInv(j)'
  <2>1. CASE j = i
    <3>1. employee'[new.employee].status # "absent"
      BY <1>3, <1>9, <1>12
    <3> QED
      BY <1>6, <1>8, <2>1, <3>1 DEF RowInv, Exists
  <2>2. CASE j # i
    <3>1. assignment[j].employee \in Employee
      BY <1>7, RowFields DEF TypeOK
    <3> QED
      BY <1>5, <1>7, <1>8, <1>12, <2>2, <3>1 DEF RowInv, Exists
  <2> QED
    BY <2>1, <2>2
<1>15. ApprovedBeforeWork'
  <2>1. review[i] = "none"
    BY <1>5, <1>7 DEF RowInv
  <2> QED
    BY <1>5, <1>7, <1>8, <2>1 DEF ApprovedBeforeWork
<1>16. Capacity(assignment')
  <2>1. \A j \in Id : j # i /\ Counts(assignment'[j]) => Lessened(assignment[j], assignment'[j])
    <3>1. \A j \in Id : assignment[j].to \in Nat
      BY <1>7, RowFields DEF TypeOK
    <3> QED
      BY <1>8, <3>1 DEF Lessened
  <2>2. 0 \notin Id
    BY DEF Id
  <2> QED
    BY <1>6, <1>7, <1>8, <1>10, <2>1, <2>2, CapacityAdded DEF TypeOK
<1> QED
  BY <1>5, <1>10, <1>11, <1>13, <1>14, <1>15, <1>16, Committed

LEMMA TransferCommits ==
  ASSUME StaffingInv, NEW s \in Session, CommitTransfer(s)
  PROVE  StaffingInv' /\ RowsMove
<1>1. PICK c \in Request : c = session[s]
  BY DEF StaffingInv, TypeOK
<1>2. PICK new \in Row : new = c.new
  BY RequestFields
<1>3. PICK t : t = c.target
  OBVIOUS
<1>4. PICK ended : ended = Ended(assignment[t], new.from - 1)
  OBVIOUS
<1>5. PICK i \in Id :
        /\ c.op = "transfer" /\ c.checked /\ Fresh(s) /\ ~Exists(i)
        /\ assignment' = [Seen(s) EXCEPT ![i] = new]
        /\ Close(s) /\ UNCHANGED <<employee, review>>
  BY <1>1, <1>2 DEF CommitTransfer, Ready, NextId
<1>6. TypeOK /\ ApprovedBeforeWork /\ Capacity(assignment) /\ \A j \in Id : RowInv(j)
  BY InvFields
<1>7. /\ new.status \in {"planned", "active", "ended"} /\ new.from <= new.to
      /\ new.status = "ended" => new.to <= Today
      /\ Fits(assignment, t, new) /\ new.employee = assignment[t].employee
  BY <1>1, <1>2, <1>3, <1>5, InvFields DEF SessionInv, AddsInv
<1>8. /\ t \in Id /\ Exists(t) /\ CanEnd(assignment[t], new.from - 1)
      /\ assignment[t].revision < MaxRevision
  BY <1>1, <1>2, <1>3, <1>5, InvFields DEF SessionInv, RowReadInv, Fresh
<1>9. assignment[t] \in Row /\ new.from \in Nat /\ new.from - 1 \in Int
  BY <1>6, <1>8, RowFields DEF TypeOK
<1>10. /\ Moved(assignment[t], ended) /\ assignment[t].status # "pending_review"
       /\ ended \in Row /\ ended.to = new.from - 1
  <2>1. Moved(assignment[t], ended) /\ assignment[t].status # "pending_review"
    BY <1>4, <1>8, <1>9, EndedMoves
  <2>2. ended.to = new.from - 1
    BY <1>4, <1>9 DEF Ended, Row
  <2> QED
    BY <2>1, <2>2 DEF Moved
<1>11. i # t
  BY <1>5, <1>8
<1>12. Seen(s) = [assignment EXCEPT ![t] = ended]
  BY <1>1, <1>2, <1>3, <1>4, <1>5, <1>6, <1>8 DEF Seen, TypeOK
<1>13. /\ assignment'[i] = new /\ assignment'[t] = ended
       /\ \A j \in Id : j # i /\ j # t => assignment'[j] = assignment[j]
       /\ assignment' \in [Id -> Row]
  BY <1>5, <1>6, <1>8, <1>10, <1>11, <1>12 DEF TypeOK
<1>14. employee' \in [Employee -> EmployeeRow] /\ review' \in [Id -> {"none", "pending", "approved", "rejected"}]
  BY <1>5, <1>6 DEF TypeOK
<1>15. RowsMove /\ EmployeesMove
  <2>1. \A j \in Id : Exists(j) => assignment'[j] = assignment[j] \/ Moved(assignment[j], assignment'[j])
    BY <1>5, <1>10, <1>13
  <2> QED
    BY <1>5, <2>1 DEF RowsMove, EmployeesMove
<1>16. \A x \in Session : x # s => Apart(x)
  <2>1. \A j \in Id : ~Exists(j) /\ assignment'[j].status # "absent" => assignment'[j] = new
    BY <1>8, <1>13 DEF Exists
  <2> QED
    BY <1>1, <1>2, <1>5, <1>15, <2>1, OthersApart
<1>17. employee[new.employee].status # "absent"
  BY <1>6, <1>7, <1>8 DEF RowInv
<1>18. ASSUME NEW j \in Id PROVE RowInv(j)'
  <2>1. CASE j = i
    BY <1>5, <1>7, <1>13, <1>17, <2>1 DEF RowInv, Exists
  <2>2. CASE j = t
    <3>1. /\ ended.from <= ended.to /\ (ended.status = "ended" => ended.to <= Today)
          /\ ended.employee = assignment[t].employee /\ ended.status # "absent"
      BY <1>10 DEF Moved
    <3> QED
      BY <1>5, <1>7, <1>13, <1>17, <2>2, <3>1 DEF RowInv, Exists
  <2>3. CASE j # i /\ j # t
    BY <1>5, <1>6, <1>13, <2>3 DEF RowInv, Exists
  <2> QED
    BY <2>1, <2>2, <2>3
<1>19. ApprovedBeforeWork'
  <2>1. review[i] = "none"
    BY <1>5, <1>6 DEF RowInv
  <2>2. review[t] # "none" => review[t] = "approved"
    BY <1>6, <1>8, <1>10 DEF ApprovedBeforeWork, Moved
  <2> QED
    BY <1>5, <1>6, <1>13, <2>1, <2>2 DEF ApprovedBeforeWork
<1>20. Capacity(assignment')
  <2>1. ASSUME NEW j \in Id, j # i, Counts(assignment'[j]) PROVE Lessened(assignment[j], assignment'[j])
    <3>1. assignment[j].to \in Nat
      BY <1>6, RowFields DEF TypeOK
    <3>2. CASE j = t
      BY <1>10, <1>13, <3>2, MovedLessens
    <3>3. CASE j # t
      BY <1>13, <2>1, <3>1, <3>3 DEF Lessened
    <3> QED
      BY <3>2, <3>3
  <2>2. \A d \in Day : Covers(new, d) => ~Covers(assignment'[t], d)
    BY <1>9, <1>10, <1>13 DEF Covers, Day
  <2>3. assignment \in [Id -> Row]
    BY <1>6 DEF TypeOK
  <2> QED
    BY <1>6, <1>7, <1>11, <1>13, <2>1, <2>2, <2>3, CapacityAdded
<1> QED
  BY <1>5, <1>13, <1>14, <1>15, <1>16, <1>18, <1>19, <1>20, Committed
---------------------------------------------------------------------------
(* The initial state and the theorems *)

LEMMA LoadOfOne ==
  ASSUME NEW rows \in [Id -> Row], NEW i \in Id, NEW ids \in SUBSET {i}
  PROVE  Load(rows, ids) <= rows[i].fte
<1>1. Load(rows, {}) = 0
  <2>1. UnitsOf(rows, {}) = {}
    BY DEF UnitsOf
  <2> QED
    BY <2>1, FS_EmptySet DEF Load, UnitsOf
<1>2. Load(rows, {} \cup {i}) <= Load(rows, {}) + rows[i].fte
  BY LoadAdded
<1>3. {} \cup {i} = {i} /\ ids \in SUBSET Id /\ {i} \in SUBSET Id
  OBVIOUS
<1>4. Load(rows, ids) <= Load(rows, {i})
  BY <1>3, LoadMonotone
<1>5. Load(rows, ids) \in Nat /\ Load(rows, {i}) \in Nat
  BY <1>3, UnitsAreFinite
<1>6. rows[i] \in Row
  OBVIOUS
<1>7. rows[i].fte \in Nat
  BY <1>6, RowFields
<1> QED
  BY <1>1, <1>2, <1>3, <1>4, <1>5, <1>7

LEMMA InitHolds ==
  ASSUME Init
  PROVE  StaffingInv
<1>1. PICK n : n = Cardinality(DOMAIN Staff)
  OBVIOUS
<1>2. n \in Nat /\ n <= MaxAssignment /\ ExistsBijection(1..n, DOMAIN Staff)
  BY <1>1, FS_CardinalityType, BoundAssumption
<1>3. \E f \in [1..n -> DOMAIN Staff] : \A i, j \in DOMAIN f : f[i] = f[j] => i = j
  BY <1>2 DEF ExistsBijection, Bijection, Injection, IsInjective
<1>4. PICK first : first = First
  OBVIOUS
<1>5. first \in [1..n -> DOMAIN Staff] /\ \A i, j \in 1..n : first[i] = first[j] => i = j
  <2>1. first = CHOOSE f \in [1..n -> DOMAIN Staff] : \A i, j \in DOMAIN f : f[i] = f[j] => i = j
    BY <1>1, <1>4 DEF First
  <2> QED
    BY <1>3, <2>1
<1>6. /\ employee = [e \in Employee |->
            IF e \in DOMAIN Staff THEN NewEmployee
            ELSE [NewEmployee EXCEPT !.status = "absent", !.revision = 0]]
      /\ assignment = [i \in Id |->
            IF i \in 1..n
            THEN [NoRow EXCEPT !.status = "active", !.employee = first[i], !.slot = Staff[first[i]],
                               !.fte = SlotFte[Staff[first[i]]], !.primary = TRUE, !.revision = 1]
            ELSE NoRow]
      /\ review = [i \in Id |-> "none"]
      /\ lock = [r \in Employee \cup Slot |-> NoSession]
      /\ session = [s \in Session |-> Idle]
  <2>1. DOMAIN first = 1..n
    BY <1>5
  <2> QED
    BY <1>4, <2>1 DEF Init
<1>7. 1 \in Revision /\ 0 \in Revision /\ 1 \in Day /\ Today \in Day
  BY DayAssumption, BoundAssumption DEF Revision, Day
<1>8. NewEmployee \in EmployeeRow
  BY <1>7 DEF NewEmployee, EmployeeRow, EmploymentStatus
<1>9. employee \in [Employee -> EmployeeRow]
  <2>1. [NewEmployee EXCEPT !.status = "absent", !.revision = 0] \in EmployeeRow
    BY <1>7, <1>8 DEF EmployeeRow
  <2> QED
    BY <1>6, <1>8, <2>1
<1>10. ASSUME NEW i \in Id
       PROVE  IF i \in 1..n
              THEN /\ assignment[i] \in Row /\ assignment[i].status = "active"
                   /\ assignment[i].employee = first[i] /\ first[i] \in DOMAIN Staff
                   /\ assignment[i].slot = Staff[first[i]] /\ Staff[first[i]] \in Slot
                   /\ assignment[i].fte = SlotFte[Staff[first[i]]]
                   /\ assignment[i].from = 1 /\ assignment[i].to = Forever
              ELSE assignment[i] \in Row /\ assignment[i].status = "absent"
  <2>1. CASE i \in 1..n
    <3>1. PICK row : row = assignment[i]
      OBVIOUS
    <3>2. first[i] \in DOMAIN Staff /\ first[i] \in Employee /\ Staff[first[i]] \in Slot
      BY <1>5, <2>1, StaffAssumption
    <3>3. SlotFte[Staff[first[i]]] \in 1..Whole
      BY <3>2, FteAssumption
    <3>4. row = [NoRow EXCEPT !.status = "active", !.employee = first[i], !.slot = Staff[first[i]],
                              !.fte = SlotFte[Staff[first[i]]], !.primary = TRUE, !.revision = 1]
      BY <1>6, <2>1, <3>1
    <3>5. row \in Row
      BY <1>7, <3>2, <3>3, <3>4, IdleRequest DEF Row, Status
    <3>6. /\ row.status = "active" /\ row.employee = first[i] /\ row.slot = Staff[first[i]]
          /\ row.fte = SlotFte[Staff[first[i]]] /\ row.from = 1 /\ row.to = Forever
      BY <3>4 DEF NoRow
    <3> QED
      BY <2>1, <3>1, <3>2, <3>5, <3>6
  <2>2. CASE i \notin 1..n
    <3>1. assignment[i] = NoRow /\ NoRow.status = "absent"
      BY <1>6, <2>2 DEF NoRow
    <3> QED
      BY <2>2, <3>1, IdleRequest
  <2> QED
    BY <2>1, <2>2
<1>11. assignment \in [Id -> Row]
  BY <1>6, <1>10
<1>12. TypeOK
  BY <1>6, <1>9, <1>11, IdleRequest DEF TypeOK
<1>13. ASSUME NEW i \in Id PROVE RowInv(i)
  <2>1. CASE i \notin 1..n
    BY <1>6, <1>10, <2>1 DEF RowInv, Exists
  <2>2. CASE i \in 1..n
    <3>1. /\ assignment[i].status = "active" /\ assignment[i].from = 1 /\ assignment[i].to = Forever
          /\ assignment[i].employee \in Employee /\ assignment[i].employee \in DOMAIN Staff
      BY <1>10, <2>2, StaffAssumption
    <3>2. 1 <= Forever
      BY DayAssumption DEF Forever
    <3>3. employee[assignment[i].employee].status = "active"
      BY <1>6, <3>1 DEF NewEmployee
    <3> QED
      BY <1>6, <3>1, <3>2, <3>3 DEF RowInv, Exists
  <2> QED
    BY <2>1, <2>2
<1>14. ApprovedBeforeWork
  BY <1>6 DEF ApprovedBeforeWork
<1>15. Capacity(assignment)
  <2>1. ASSUME NEW i \in Id, Counts(assignment[i])
        PROVE  i \in 1..n
    BY <1>10, <2>1 DEF Counts
  <2>2. ASSUME NEW d \in Day, NEW e \in Employee PROVE EmployeeUnits(assignment, e, d) <= Whole
    <3> DEFINE ids == {i \in Id : Counts(assignment[i]) /\ Covers(assignment[i], d) /\ assignment[i].employee = e}
    <3>1. CASE ids = {}
      <4>1. UnitsOf(assignment, {}) = {}
        BY DEF UnitsOf
      <4>2. Load(assignment, {}) = 0
        BY <4>1, FS_EmptySet DEF Load, UnitsOf
      <4>3. EmployeeUnits(assignment, e, d) = Load(assignment, ids)
        BY DEF EmployeeUnits
      <4> HIDE DEF ids
      <4> QED
        BY <3>1, <4>2, <4>3, FteAssumption
    <3>2. CASE ids # {}
      <4>1. PICK i \in ids : TRUE
        BY <3>2
      <4>2. i \in Id /\ i \in 1..n /\ first[i] = e
        BY <1>10, <2>1, <4>1
      <4>3. ASSUME NEW j \in ids PROVE j = i
        <5>1. j \in Id /\ j \in 1..n /\ first[j] = e
          BY <1>10, <2>1
        <5> QED
          BY <1>5, <4>2, <5>1
      <4>4. assignment[i].fte \in 1..Whole
        BY <1>11, <4>2, RowFields
      <4>5. EmployeeUnits(assignment, e, d) = Load(assignment, ids)
        BY DEF EmployeeUnits
      <4>6. ids \in SUBSET Id
        OBVIOUS
      <4>8. ids \in SUBSET {i}
        BY <4>3
      <4> HIDE DEF ids
      <4>7. Load(assignment, ids) <= assignment[i].fte /\ Load(assignment, ids) \in Nat
        BY <1>11, <4>2, <4>6, <4>8, LoadOfOne, UnitsAreFinite
      <4> QED
        BY <4>4, <4>5, <4>7, FteAssumption
    <3> QED
      BY <3>1, <3>2
  <2>3. ASSUME NEW d \in Day, NEW s \in Slot PROVE SlotUnits(assignment, s, d) <= SlotFte[s]
    <3> DEFINE ids == {i \in Id : Counts(assignment[i]) /\ Covers(assignment[i], d) /\ assignment[i].slot = s}
    <3>1. CASE ids = {}
      <4>1. UnitsOf(assignment, {}) = {}
        BY DEF UnitsOf
      <4>2. Load(assignment, {}) = 0
        BY <4>1, FS_EmptySet DEF Load, UnitsOf
      <4>3. SlotUnits(assignment, s, d) = Load(assignment, ids)
        BY DEF SlotUnits
      <4>4. SlotFte[s] \in 1..Whole
        BY FteAssumption
      <4> HIDE DEF ids
      <4> QED
        BY <3>1, <4>2, <4>3, <4>4, FteAssumption
    <3>2. CASE ids # {}
      <4>1. PICK i \in ids : TRUE
        BY <3>2
      <4>2. i \in Id /\ i \in 1..n /\ Staff[first[i]] = s /\ first[i] \in DOMAIN Staff
        BY <1>10, <2>1, <4>1
      <4>3. ASSUME NEW j \in ids PROVE j = i
        <5>1. j \in Id /\ j \in 1..n /\ Staff[first[j]] = s /\ first[j] \in DOMAIN Staff
          BY <1>10, <2>1
        <5>2. first[i] = first[j]
          BY <4>2, <5>1, StaffAssumption
        <5> QED
          BY <1>5, <4>2, <5>1, <5>2
      <4>4. ids \in SUBSET {i}
        BY <4>3
      <4>5. assignment[i].fte = SlotFte[s] /\ SlotFte[s] \in 1..Whole
        BY <1>10, <4>2, FteAssumption
      <4>6. SlotUnits(assignment, s, d) = Load(assignment, ids)
        BY DEF SlotUnits
      <4> HIDE DEF ids
      <4>7. Load(assignment, ids) <= assignment[i].fte
        BY <1>11, <4>2, <4>4, LoadOfOne
      <4> QED
        BY <4>5, <4>6, <4>7
    <3> QED
      BY <3>1, <3>2
  <2> QED
    BY <2>2, <2>3 DEF Capacity
<1>16. ASSUME NEW s \in Session PROVE SessionInv(s)
  <2>1. session[s].op = "none"
    BY <1>6 DEF Idle
  <2> QED
    BY <2>1 DEF SessionInv, Holds, AddsInv, RowReadInv, EmployeeReadInv, Needed
<1> QED
  BY <1>12, <1>13, <1>14, <1>15, <1>16, CapacityIs DEF StaffingInv, SessionInv

LEMMA StepKeeps ==
  ASSUME StaffingInv, [Next]_vars
  PROVE  StaffingInv' /\ RowsMove
<1>1. CASE UNCHANGED vars
  <2>1. UNCHANGED <<employee, assignment, review, lock, session>>
    BY <1>1 DEF vars
  <2>2. RowsMove
    BY <2>1 DEF RowsMove
  <2>3. TypeOK' /\ ApprovedBeforeWork'
    BY <2>1 DEF StaffingInv, TypeOK, ApprovedBeforeWork
  <2>4. CapacityIsKept'
    BY <2>1 DEF StaffingInv, CapacityIsKept, Load, Counts, Covers
  <2>5. \A i \in Id : RowInv(i)'
    BY <2>1 DEF StaffingInv, RowInv, Exists
  <2>6. ASSUME NEW s \in Session PROVE SessionInv(s)'
    <3>1. EmployeesMove /\ Apart(s) /\ SessionInv(s) /\ TypeOK
      BY <2>1, InvFields DEF EmployeesMove, Apart, Exists
    <3> QED
      BY <2>1, <2>2, <2>3, <3>1, RequestKept
  <2> QED
    BY <2>2, <2>3, <2>4, <2>5, <2>6 DEF StaffingInv, SessionInv
<1>2. ASSUME NEW s \in Session,
             \/ Register(s) \/ BeginUpdate(s) \/ Invoke(s)
             \/ BeginCreate(s) \/ BeginHire(s) \/ BeginReview(s) \/ BeginTransfer(s)
             \/ BeginEnd(s) \/ BeginTerminate(s)
      PROVE  StaffingInv' /\ RowsMove
  BY <1>2, RegisterKeeps, UpdateBegins, InvocationBegins, CreationBegins, HireBegins, ReviewBegins,
     TransferBegins, EndBegins, TerminationBegins
<1>3. ASSUME NEW s \in Session,
             \/ TakeLock(s) \/ Check(s)
             \/ CommitCreate(s) \/ CommitHire(s) \/ CommitReview(s) \/ CommitTransfer(s)
             \/ CommitEnd(s) \/ CommitTerminate(s) \/ CommitUpdate(s)
             \/ Fail(s)
      PROVE  StaffingInv' /\ RowsMove
  BY <1>3, LockTaken, RequestChecked, CreationCommits, HireCommits, ReviewCommits, TransferCommits,
     EndCommits, TerminationCommits, UpdateCommits, FailureKeeps
<1> QED
  BY <1>1, <1>2, <1>3 DEF Next

\* The inductive invariant: the requests hold the locks of what they count, what fitted under them
\* still fits, and a request that finds the revision it has read finds the row it has read.
THEOREM StaffingInvariant == Spec => []StaffingInv
<1>1. Init => StaffingInv
  BY InitHolds
<1>2. StaffingInv /\ [Next]_vars => StaffingInv'
  BY StepKeeps
<1> QED
  BY <1>1, <1>2, PTL DEF Spec

\* On no day is an employee or a slot given more than it has, whatever requests overlap: the
\* capacity is counted before other rows than those locked change, but those only ever shrink
\* (_ensure_assignment_capacity under lock_assignment_resources).
THEOREM CapacityHolds == Spec => []CapacityIsKept
<1>1. StaffingInv => CapacityIsKept
  BY DEF StaffingInv
<1> QED
  BY <1>1, StaffingInvariant, PTL

\* What a manager proposed takes effect by the approval of HR only (review_assignment).
THEOREM WorkIsApproved == Spec => []ApprovedBeforeWork
<1>1. StaffingInv => ApprovedBeforeWork
  BY DEF StaffingInv
<1> QED
  BY <1>1, StaffingInvariant, PTL

\* History is not rewritten and an announced end is not put off: whoever lost the race to a row
\* that was settled does not write it (EmployeeAssignment.end, resolve, cancel and the revisions).
THEOREM SettledStay == Spec => SettledAssignmentsStay
<1> DEFINE Stays ==
      \A i \in Id : Exists(i) =>
        /\ assignment[i].status \in {"ended", "cancelled"} => assignment'[i] = assignment[i]
        /\ assignment'[i].to <= assignment[i].to
<1>1. ASSUME StaffingInv, [Next]_vars
      PROVE  Stays
  <2> SUFFICES ASSUME NEW i \in Id, Exists(i)
               PROVE  /\ assignment[i].status \in {"ended", "cancelled"} => assignment'[i] = assignment[i]
                      /\ assignment'[i].to <= assignment[i].to
    OBVIOUS
  <2>1. assignment'[i] = assignment[i] \/ Moved(assignment[i], assignment'[i])
    BY <1>1, StepKeeps DEF RowsMove
  <2>2. assignment[i] \in Row
    BY <1>1 DEF StaffingInv, TypeOK
  <2>3. assignment[i].to \in Nat
    BY <2>2, RowFields
  <2> QED
    BY <2>1, <2>3 DEF Moved
<1> HIDE DEF Stays
<1>2. StaffingInv /\ [Next]_vars => [Stays]_vars
  BY <1>1
<1>3. Spec => [][Stays]_vars
  BY <1>2, StaffingInvariant, PTL DEF Spec
<1> QED
  BY <1>3 DEF SettledAssignmentsStay, Stays

\* Only its own steps change what a session knows.
LEMMA OwnSteps ==
  ASSUME TypeOK, NEW x \in Session, NEW s \in Session, s # x,
         \/ Register(x) \/ BeginUpdate(x) \/ Invoke(x)
         \/ BeginCreate(x) \/ BeginHire(x) \/ BeginReview(x) \/ BeginTransfer(x)
         \/ BeginEnd(x) \/ BeginTerminate(x)
         \/ TakeLock(x) \/ Check(x)
         \/ CommitCreate(x) \/ CommitHire(x) \/ CommitReview(x) \/ CommitTransfer(x)
         \/ CommitEnd(x) \/ CommitTerminate(x) \/ CommitUpdate(x)
         \/ Fail(x)
  PROVE  session'[s] = session[s]
<1>1. session \in [Session -> Request]
  BY DEF TypeOK
<1>2. CASE Register(x)
  BY <1>2 DEF Register
<1>3. ASSUME NEW request, Open(x, request) PROVE session'[s] = session[s]
  BY <1>1, <1>3 DEF Open
<1>4. ASSUME NEW request, NEW function, Proceed(x, function, request) PROVE session'[s] = session[s]
  BY <1>1, <1>4 DEF Proceed
<1>5. CASE BeginUpdate(x) \/ Invoke(x) \/ BeginCreate(x) \/ BeginHire(x) \/ BeginReview(x) \/ BeginEnd(x)
  BY <1>3, <1>5 DEF BeginUpdate, Invoke, BeginCreate, BeginHire, BeginReview, BeginEnd
<1>6. CASE BeginTransfer(x) \/ BeginTerminate(x)
  BY <1>4, <1>6 DEF BeginTransfer, BeginTerminate
<1>7. CASE TakeLock(x) \/ Check(x)
  BY <1>1, <1>7 DEF TakeLock, Check
<1>8. ASSUME Close(x) PROVE session'[s] = session[s]
  BY <1>1, <1>8 DEF Close
<1>9. CASE CommitCreate(x) \/ CommitHire(x) \/ CommitReview(x) \/ CommitTransfer(x)
  BY <1>8, <1>9 DEF CommitCreate, CommitHire, CommitReview, CommitTransfer
<1>10. CASE CommitEnd(x) \/ CommitTerminate(x) \/ CommitUpdate(x) \/ Fail(x)
  BY <1>8, <1>10 DEF CommitEnd, CommitTerminate, CommitUpdate, Fail
<1> QED
  BY <1>2, <1>5, <1>6, <1>7, <1>9, <1>10

\* The date of a termination stands: a second one that was invoked while the first was under way
\* is refused (TerminateEmployeeFunction and the revision that terminate_employee compares).
THEOREM DateStands == Spec => TerminationDateStands
<1> DEFINE Stands ==
      \A s \in Session :
        /\ session[s].op = "terminate"
        /\ employee'[session[s].new.employee] # employee[session[s].new.employee]
        /\ session'[s].op = "none"
        => employee[session[s].new.employee].ends = Forever
<1>1. ASSUME StaffingInv, [Next]_vars
      PROVE  Stands
  <2> SUFFICES ASSUME NEW s \in Session, session[s].op = "terminate",
                      employee'[session[s].new.employee] # employee[session[s].new.employee],
                      session'[s].op = "none"
               PROVE  employee[session[s].new.employee].ends = Forever
    OBVIOUS
  <2>1. Next
    BY <1>1 DEF vars
  <2>2. PICK x \in Session :
          \/ Register(x) \/ BeginUpdate(x) \/ Invoke(x)
          \/ BeginCreate(x) \/ BeginHire(x) \/ BeginReview(x) \/ BeginTransfer(x)
          \/ BeginEnd(x) \/ BeginTerminate(x)
          \/ TakeLock(x) \/ Check(x)
          \/ CommitCreate(x) \/ CommitHire(x) \/ CommitReview(x) \/ CommitTransfer(x)
          \/ CommitEnd(x) \/ CommitTerminate(x) \/ CommitUpdate(x)
          \/ Fail(x)
    BY <2>1 DEF Next
  <2>3. x = s
    <3>1. TypeOK
      BY <1>1 DEF StaffingInv
    <3>2. x # s => session'[s] = session[s]
      BY <2>2, <3>1, OwnSteps
    <3> QED
      BY <3>2
  <2>4. ~(Register(s) \/ CommitHire(s) \/ CommitUpdate(s))
    BY DEF Register, CommitHire, CommitUpdate, Ready
  <2>5. ~(BeginUpdate(s) \/ Invoke(s) \/ BeginCreate(s) \/ BeginHire(s) \/ BeginReview(s) \/ BeginEnd(s))
    BY DEF BeginUpdate, Invoke, BeginCreate, BeginHire, BeginReview, BeginEnd, Open
  <2>6. ~(BeginTransfer(s) \/ BeginTerminate(s))
    BY DEF BeginTransfer, BeginTerminate, Proceed
  <2>7. ~(TakeLock(s) \/ Check(s) \/ CommitCreate(s) \/ CommitReview(s) \/ CommitTransfer(s) \/ CommitEnd(s) \/ Fail(s))
    BY DEF TakeLock, Check, CommitCreate, CommitReview, CommitTransfer, CommitEnd, Fail
  <2>8. CommitTerminate(s)
    BY <2>2, <2>3, <2>4, <2>5, <2>6, <2>7
  <2>9. employee[session[s].new.employee].revision = session[s].revision
    BY <2>8 DEF CommitTerminate
  <2> QED
    BY <1>1, <2>9 DEF StaffingInv, EmployeeReadInv
<1> HIDE DEF Stands
<1>2. StaffingInv /\ [Next]_vars => [Stands]_vars
  BY <1>1
<1>3. Spec => [][Stands]_vars
  BY <1>2, StaffingInvariant, PTL DEF Spec
<1> QED
  BY <1>3 DEF TerminationDateStands, Stands
===========================================================================
