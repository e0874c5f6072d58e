----------------------------- MODULE Authority -----------------------------
(***************************************************************************)
(* Who may do what: roles and the role assignments that grant them, the     *)
(* temporary delegation of one permission, and the check that every         *)
(* protected call makes first.  There are two permissions, that to manage   *)
(* roles and one of the business; an assignment or delegation for another   *)
(* scope is as good as none and is left out, and so is who may delegate.     *)
(*                                                                         *)
(* The check reads in several transactions: the account, its own grants,    *)
(* the delegations to it, and the grants of each delegator.  The management *)
(* of roles asks for the caller's own grants alone, and then works in a      *)
(* transaction of its own.  Rows may be added, run out and be revoked        *)
(* between any two of them.                                                 *)
(***************************************************************************)
EXTENDS Naturals, Sequences

CONSTANTS Request, User,
          Period,         \* [from, to] of the rows that are entered, to not included
          LastMoment,     \* bound: the clock
          Code,           \* codes of the roles that are created
          MaxAssignment,  \* bound: role assignments
          MaxDelegation   \* bound: delegations

ASSUME AuthorityAssumption == LastMoment \in Nat \ {0} /\ Period \subseteq [from : Nat, to : Nat]
ASSUME AuthorityBoundsAssumption == MaxAssignment \in Nat \ {0} /\ MaxDelegation \in Nat

VARIABLES now,
          disabled,    \* when a user's account was disabled, 0 while it is active
          role,        \* roles, with what they grant
          assignment,  \* user_role_assignments, in the order they were added
          delegation,  \* delegations, likewise
          call         \* what a request has read

authorityVars == <<now, disabled, role, assignment, delegation, call>>

Quiet == [op |-> "idle"]

Permission == {"roles.manage", "use"}

\* Who made a change, and since when the call was under way; the seed is nobody.
Nobody == [since |-> 0]
Manager == {Nobody} \cup [user : User, since : 1..LastMoment]

RoleRow == [code : Code \cup {"admin", "staff"}, grants : SUBSET Permission, by : Manager]
AssignmentRow == [user : User, role : Nat \ {0}, period : Period, revoked : 0..LastMoment,
                  by : Manager, revokedBy : Manager]
DelegationRow == {d \in [delegator : User, delegate : User, period : Period, revoked : 0..LastMoment] :
                    d.delegator # d.delegate}

AuthorityTypeOK ==
  /\ now \in 1..LastMoment /\ disabled \in [User -> 0..now]
  /\ role \in Seq(RoleRow)
  /\ assignment \in Seq(AssignmentRow) /\ Len(assignment) <= MaxAssignment
  /\ \A i \in DOMAIN assignment : assignment[i].role \in DOMAIN role
  /\ delegation \in Seq(DelegationRow) /\ Len(delegation) <= MaxDelegation
  /\ \A x \in Request : call[x].op \in {"idle", "manage", "managing", "assign", "delegate",
                                      "use", "denied", "delegated", "granted"}

AuthorityInit ==
  /\ now = 1
  /\ disabled = [u \in User |-> 0]
  /\ role = <<[code |-> "admin", grants |-> {"roles.manage"}, by |-> Nobody],
               [code |-> "staff", grants |-> {"use"}, by |-> Nobody]>>
  /\ \E u \in User, p \in Period :
       assignment = <<[user |-> u, role |-> 1, period |-> p, revoked |-> 0,
                       by |-> Nobody, revokedBy |-> Nobody]>>
  /\ delegation = <<>>
  /\ call = [x \in Request |-> Quiet]

Tick ==
  /\ now < LastMoment
  /\ now' = now + 1
  /\ UNCHANGED <<disabled, role, assignment, delegation, call>>

---------------------------------------------------------------------------
(* The rows and what they grant *)

\* is_effective_at, and the same conditions on a delegation.
InForce(row) == row.revoked = 0 /\ row.period.from <= now /\ now < row.period.to

\* active_grants: the account is active and some assignment in force grants the permission.
Holds(u, permission) ==
  /\ disabled[u] = 0
  /\ \E i \in DOMAIN assignment :
       assignment[i].user = u /\ permission \in role[assignment[i].role].grants /\ InForce(assignment[i])

\* The delegations in force to a user, of delegators whose account is active.
DelegatedTo(u) ==
  {i \in DOMAIN delegation : delegation[i].delegate = u /\ InForce(delegation[i])
                             /\ disabled[delegation[i].delegator] = 0}

\* has_overlapping_assignment.
HasOverlappingAssignment(u, r, p) ==
  \E i \in DOMAIN assignment :
     LET a == assignment[i] IN
     a.user = u /\ a.role = r /\ a.revoked = 0 /\ a.period.to > p.from /\ a.period.from < p.to

\* Dates overlap on their last day too; a delegation that ran out is no obstacle.
HasOverlappingDelegation(u, v, p) ==
  \E i \in DOMAIN delegation :
     LET d == delegation[i] IN
     /\ d.delegator = u /\ d.delegate = v /\ d.revoked = 0 /\ now < d.period.to
     /\ p.from <= d.period.to /\ d.period.from <= p.to

---------------------------------------------------------------------------
(* Managing roles and assignments *)

\* get_database_principal asks for an active account.
BeginCall(x, u, op) ==
  /\ call[x] = Quiet /\ disabled[u] = 0
  /\ call' = [call EXCEPT ![x] = [op |-> op, user |-> u, since |-> now, open |-> {}]]
  /\ UNCHANGED <<now, disabled, role, assignment, delegation>>

\* Slip: any role will do.
RequireAnyRole(x) ==
  /\ call[x].op = "manage"
  /\ call' = [call EXCEPT ![x] =
       IF \E permission \in Permission : Holds(call[x].user, permission)
       THEN [@ EXCEPT !.op = "managing"] ELSE Quiet]
  /\ UNCHANGED <<now, disabled, role, assignment, delegation>>

\* The own grants of the caller; what is delegated to him does not count.
RequireManage(x) ==
  /\ call[x].op = "manage"
  /\ call' = [call EXCEPT ![x] =
       IF Holds(call[x].user, "roles.manage") THEN [@ EXCEPT !.op = "managing"] ELSE Quiet]
  /\ UNCHANGED <<now, disabled, role, assignment, delegation>>

By(x) == [user |-> call[x].user, since |-> call[x].since]

FindByCode(code) == {i \in DOMAIN role : role[i].code = code}

\* The unique index refuses the second of two creations at once.
CreateRole(x, code, grants) ==
  /\ call[x].op = "managing" /\ FindByCode(code) = {}
  /\ role' = Append(role, [code |-> code, grants |-> grants, by |-> By(x)])
  /\ call' = [call EXCEPT ![x] = Quiet]
  /\ UNCHANGED <<now, disabled, assignment, delegation>>

\* assign_role checks for overlaps without a lock, and adds the row later.
BeginAssign(x, u, r, p) ==
  /\ call[x].op = "managing" /\ ~HasOverlappingAssignment(u, r, p)
  /\ call' = [call EXCEPT ![x] =
       [op |-> "assign", row |-> [user |-> u, role |-> r, period |-> p, revoked |-> 0,
                                  by |-> By(x), revokedBy |-> Nobody]]]
  /\ UNCHANGED <<now, disabled, role, assignment, delegation>>

CommitAssign(x) ==
  /\ call[x].op = "assign" /\ Len(assignment) < MaxAssignment
  /\ assignment' = Append(assignment, call[x].row)
  /\ call' = [call EXCEPT ![x] = Quiet]
  /\ UNCHANGED <<now, disabled, role, delegation>>

\* Only a revocation writes the row, and the second one finds another revision.
RevokeAssignment(x, i) ==
  /\ call[x].op = "managing" /\ assignment[i].revoked = 0
  /\ assignment' = [assignment EXCEPT ![i].revoked = now, ![i].revokedBy = By(x)]
  /\ call' = [call EXCEPT ![x] = Quiet]
  /\ UNCHANGED <<now, disabled, role, delegation>>

---------------------------------------------------------------------------
(* Delegations *)

\* lock_delegation_resources: both employees' rows are locked until the commit.
Locked(u) == \E x \in Request : call[x].op = "delegate" /\ u \in {call[x].row.delegator, call[x].row.delegate}

\* Slip: the overlap is checked without the locks.
BeginDelegateUnlocked(x, u, v, p) ==
  /\ call[x] = Quiet /\ u # v /\ ~HasOverlappingDelegation(u, v, p)
  /\ call' = [call EXCEPT ![x] = [op |-> "delegate",
       row |-> [delegator |-> u, delegate |-> v, period |-> p, revoked |-> 0]]]
  /\ UNCHANGED <<now, disabled, role, assignment, delegation>>

BeginDelegate(x, u, v, p) ==
  /\ call[x] = Quiet /\ u # v /\ ~Locked(u) /\ ~Locked(v) /\ ~HasOverlappingDelegation(u, v, p)
  /\ call' = [call EXCEPT ![x] = [op |-> "delegate",
       row |-> [delegator |-> u, delegate |-> v, period |-> p, revoked |-> 0]]]
  /\ UNCHANGED <<now, disabled, role, assignment, delegation>>

CommitDelegate(x) ==
  /\ call[x].op = "delegate" /\ Len(delegation) < MaxDelegation
  /\ delegation' = Append(delegation, call[x].row)
  /\ call' = [call EXCEPT ![x] = Quiet]
  /\ UNCHANGED <<now, disabled, role, assignment>>

RevokeDelegation(i) ==
  /\ delegation[i].revoked = 0
  /\ delegation' = [delegation EXCEPT ![i].revoked = now]
  /\ UNCHANGED <<now, disabled, role, assignment, call>>

\* The completion of a termination, under the lock of the employee's row.
EndEmployment(u) ==
  /\ disabled[u] = 0 /\ ~Locked(u)
  /\ disabled' = [disabled EXCEPT ![u] = now]
  /\ delegation' = [i \in DOMAIN delegation |->
       IF u \in {delegation[i].delegator, delegation[i].delegate} /\ delegation[i].revoked = 0
       THEN [delegation[i] EXCEPT !.revoked = now] ELSE delegation[i]]
  /\ UNCHANGED <<now, role, assignment, call>>

---------------------------------------------------------------------------
(* The check before a protected call *)

\* The user's own grants; without one the delegations are looked at.
CheckOwn(x) ==
  /\ call[x].op = "use"
  /\ call' = [call EXCEPT ![x].op = IF Holds(call[x].user, "use") THEN "granted" ELSE "denied"]
  /\ UNCHANGED <<now, disabled, role, assignment, delegation>>

ReadDelegations(x) ==
  /\ call[x].op = "denied"
  /\ call' = [call EXCEPT ![x] = [@ EXCEPT !.op = "delegated", !.open = DelegatedTo(call[x].user)]]
  /\ UNCHANGED <<now, disabled, role, assignment, delegation>>

\* Slip: a delegator may pass on what was delegated to him.
DelegatorHoldsOrBorrows(u) == Holds(u, "use") \/ DelegatedTo(u) # {}

\* The check of the delegator goes to the role grants alone.
DelegatorHolds(u) == Holds(u, "use")

CheckDelegator(x, i) ==
  /\ call[x].op = "delegated" /\ i \in call[x].open
  /\ call' = [call EXCEPT ![x] =
       IF DelegatorHolds(delegation[i].delegator) THEN [@ EXCEPT !.op = "granted"]
       ELSE [@ EXCEPT !.open = call[x].open \ {i}]]
  /\ UNCHANGED <<now, disabled, role, assignment, delegation>>

\* A call is over, or fails on the way.
End(x) ==
  /\ call[x] # Quiet
  /\ call' = [call EXCEPT ![x] = Quiet]
  /\ UNCHANGED <<now, disabled, role, assignment, delegation>>

AuthorityNext ==
  \/ Tick
  \/ \E i \in DOMAIN delegation : RevokeDelegation(i)
  \/ \E u \in User : EndEmployment(u)
  \/ \E x \in Request :
       \/ \E u \in User, op \in {"manage", "use"} : BeginCall(x, u, op)
       \/ RequireManage(x)
       \/ \E code \in Code, grants \in SUBSET Permission : CreateRole(x, code, grants)
       \/ \E u \in User, r \in DOMAIN role, p \in Period : BeginAssign(x, u, r, p)
       \/ \E i \in DOMAIN assignment : RevokeAssignment(x, i)
       \/ \E u, v \in User, p \in Period : BeginDelegate(x, u, v, p)
       \/ CommitAssign(x) \/ CommitDelegate(x)
       \/ CheckOwn(x) \/ ReadDelegations(x) \/ End(x)
       \/ \E i \in DOMAIN delegation : CheckDelegator(x, i)

AuthoritySpec == AuthorityInit /\ [][AuthorityNext]_authorityVars

---------------------------------------------------------------------------
(* Properties *)

\* From now on no permission is delegated twice to the same user by the same
\* user, however many requests delegate at once (create_delegation, its locks).
OneDelegationAtATime ==
  \A i, j \in DOMAIN delegation :
     LET d == delegation[i]  e == delegation[j] IN
     (i # j /\ d.delegator = e.delegator /\ d.delegate = e.delegate /\ d.revoked = 0 /\ e.revoked = 0)
       => \A t \in now..LastMoment :
            ~(d.period.from <= t /\ t < d.period.to /\ e.period.from <= t /\ t < e.period.to)

\* A row was in force at some moment of a call, an account was active.
HeldSince(row, t) ==
  row.period.from <= now /\ row.period.to > t /\ (row.revoked = 0 \/ row.revoked >= t)
ActiveSince(u, t) == disabled[u] = 0 \/ disabled[u] >= t
Held(u, permission, t, rows) ==
  /\ ActiveSince(u, t)
  /\ \E i \in rows : /\ assignment[i].user = u /\ HeldSince(assignment[i], t)
                     /\ permission \in role[assignment[i].role].grants

UseIsEarned ==
  \A x \in Request : call[x].op = "granted" =>
    LET u == call[x].user  t == call[x].since IN
    /\ ActiveSince(u, t)
    /\ \/ Held(u, "use", t, DOMAIN assignment)
       \/ \E i \in DOMAIN delegation :
            /\ delegation[i].delegate = u /\ HeldSince(delegation[i], t)
            /\ Held(delegation[i].delegator, "use", t, DOMAIN assignment)

Earned(by, rows) == by = Nobody \/ Held(by.user, "roles.manage", by.since, rows)

ChangesAreEarned ==
  /\ \A i \in DOMAIN role : Earned(role[i].by, DOMAIN assignment)
  /\ \A i \in DOMAIN assignment :
       Earned(assignment[i].by, 1..(i - 1)) /\ Earned(assignment[i].revokedBy, DOMAIN assignment)

\* Whoever is let in had, during this very call, a role of his own or a
\* delegation from somebody who had one: what was revoked, has run out or was
\* disabled before the call began opens nothing, and a delegation is not passed
\* on (DelegationAwareAuthorizationAdapter.require over its three reads).  And roles
\* and assignments come, through however many hands, from the seeded administrator:
\* every change was made in a call during which the caller had, by an older
\* assignment, the permission for it (AuthorizedAccessControlService).
AccessIsEarned == UseIsEarned /\ ChangesAreEarned
===========================================================================
