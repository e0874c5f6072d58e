----------------------------- MODULE Staffing -----------------------------
(***************************************************************************)
(* Who is employed and occupies which staffing slot: the registry and the   *)
(* employment operations of the employees module.  create_assignment,       *)
(* review_assignment, hire_employee and transfer_employee lock the employee *)
(* row and then the slot row before they count; update_employee,            *)
(* end_assignment and terminate_employee lock nothing and rely on the       *)
(* revisions they loaded.  Transfers and terminations are invoked through   *)
(* the function API, which asks in a transaction of its own whether they    *)
(* are available.  The slots are those of the published structure and are   *)
(* open on every day; requests are all made on one day, Today, about days   *)
(* before, on and after it.  FTE is counted in units, of which a full       *)
(* position has Whole.                                                      *)
(***************************************************************************)
EXTENDS Naturals, FiniteSets, Sequences

CONSTANTS Session, Employee, Slot,
          SlotFte,         \* approved FTE of each slot
          Whole,           \* FTE units of a full position
          MaxAssignment,   \* bound: assignment rows
          MaxRevision,     \* bound: revision of a row
          LastDay, Today,  \* bound: dates are 1..LastDay, requests are made on Today
          Proposal,        \* the terms clients propose
          Edit,            \* the changes of employee rows that HR asks for
          Staff            \* the employees in service at the start, in the slot given

NoSession == "none"

Id == 1..MaxAssignment

Day == 1..LastDay

Forever == LastDay + 1   \* effective_to is NULL

Status == {"absent", "pending_review", "planned", "active", "scheduled_end", "ended", "cancelled"}

\* reviewed: proposed by a manager whose changes HR has to approve.
Term == [fte : 1..Whole, from : Day, to : Day \cup {Forever}, primary : BOOLEAN, reviewed : BOOLEAN]

ASSUME SessionAssumption == NoSession \notin Session
ASSUME RegistryAssumption == Employee # {} /\ Slot # {}
ASSUME DayAssumption == LastDay \in Nat /\ Today \in Day
ASSUME FteAssumption == Whole \in Nat \ {0} /\ SlotFte \in [Slot -> 1..Whole]
ASSUME ProposalAssumption == Proposal \subseteq Term /\ \A p \in Proposal : p.from <= p.to
EmploymentStatus == {"draft", "active", "suspended", "ended"}

\* An edit gives values to some of the fields; a date once set cannot be unset.
ASSUME EditAssumption ==
  \A c \in Edit : /\ DOMAIN c \subseteq {"status", "active", "ends"}
                  /\ "status" \in DOMAIN c => c.status \in EmploymentStatus
                  /\ "active" \in DOMAIN c => c.active \in BOOLEAN
                  /\ "ends" \in DOMAIN c => c.ends \in Day
\* Nobody shares a slot at the start.
ASSUME StaffAssumption == /\ DOMAIN Staff \subseteq Employee /\ Staff \in [DOMAIN Staff -> Slot]
                          /\ \A d, e \in DOMAIN Staff : Staff[d] = Staff[e] => d = e
ASSUME BoundAssumption == /\ MaxAssignment \in Nat /\ MaxRevision \in Nat \ {0}
                          /\ IsFiniteSet(DOMAIN Staff) /\ Cardinality(DOMAIN Staff) <= MaxAssignment

VARIABLES employee,     \* employment status, dates and revision
          assignment,   \* assignment rows
          review,       \* status of the review request of each assignment
          lock,         \* the session that holds the row lock of an employee or a slot
          session       \* what each open transaction has read and proposes

vars == <<employee, assignment, review, lock, session>>

Revision == 0..MaxRevision

\* ends: termination_date, Forever while it is NULL.
EmployeeRow == [status : EmploymentStatus \cup {"absent"}, active : BOOLEAN, hired : Day,
                ends : Day \cup {Forever}, revision : Revision]

NewEmployee == [status |-> "active", active |-> TRUE, hired |-> 1, ends |-> Forever, revision |-> 1]

Row == [status : Status, employee : Employee, slot : Slot, fte : 1..Whole, from : Day,
        to : Day \cup {Forever}, primary : BOOLEAN, revision : Revision]

NoRow == [status |-> "absent", employee |-> CHOOSE e \in Employee : TRUE,
          slot |-> CHOOSE s \in Slot : TRUE, fte |-> 1, from |-> 1, to |-> Forever,
          primary |-> FALSE, revision |-> 0]

Op == {"none", "update", "invoke", "create", "hire", "review", "transfer", "end", "terminate"}

\* The functions of the registry that need an employee and are modelled here.
Function == {"employee.terminate", "employee.transfer"}

\* new: the proposed row, or the target row as it was read; day: the date of the
\* request; function, edit: what is invoked, what is changed.
Request == [op : Op, function : Function \cup {"none"}, edit : Edit \cup {<<>>}, checked : BOOLEAN, wants : Seq(Employee \cup Slot), target : 0..MaxAssignment,
            new : Row, day : 0..LastDay, approved : BOOLEAN, read : SUBSET (Id \X Revision),
            revision : Revision]

Idle == [op |-> "none", function |-> "none", edit |-> <<>>, checked |-> FALSE, wants |-> <<>>, target |-> 0, new |-> NoRow, day |-> 0,
         approved |-> FALSE, read |-> {}, revision |-> 0]

TypeOK ==
  /\ employee \in [Employee -> EmployeeRow]
  /\ assignment \in [Id -> Row]
  /\ review \in [Id -> {"none", "pending", "approved", "rejected"}]
  /\ lock \in [Employee \cup Slot -> Session \cup {NoSession}]
  /\ session \in [Session -> Request]

---------------------------------------------------------------------------
(* Dates, load and capacity *)

Exists(i) == assignment[i].status # "absent"

Counts(row) == row.status \notin {"absent", "cancelled"}

Covers(row, d) == row.from <= d /\ d <= row.to

Overlap(a, b) == a.from <= b.to /\ b.from <= a.to

\* The FTE units of a set of rows.
Load(rows, ids) == Cardinality(UNION {{i} \X (1..rows[i].fte) : i \in ids})

\* Slip: an assignment that waits for its review takes no place.
FitsWithoutPending(rows, id, new) ==
  LET others == {i \in Id \ {id} : Counts(rows[i]) /\ rows[i].status # "pending_review"}
      of(e, s, d) == {i \in others : Covers(rows[i], d) /\ (rows[i].employee = e \/ rows[i].slot = s)}
  IN \A d \in {x \in Day : Covers(new, x)} :
       LET mine == {i \in of(new.employee, new.slot, d) : rows[i].employee = new.employee}
           here == {i \in of(new.employee, new.slot, d) : rows[i].slot = new.slot}
       IN /\ new.primary => \A i \in mine : ~rows[i].primary
          /\ Load(rows, mine) + new.fte <= Whole
          /\ Load(rows, here) + new.fte <= SlotFte[new.slot]

\* _ensure_assignment_capacity: on every day of the new assignment no second
\* primary one, and room for it with the employee and in the slot.
Fits(rows, id, new) ==
  LET others == {i \in Id \ {id} : Counts(rows[i])} IN
  \A d \in {x \in Day : Covers(new, x)} :
    LET mine == {i \in others : rows[i].employee = new.employee /\ Covers(rows[i], d)}
        here == {i \in others : rows[i].slot = new.slot /\ Covers(rows[i], d)}
    IN /\ new.primary => \A i \in mine : ~rows[i].primary
       /\ Load(rows, mine) + new.fte <= Whole
       /\ Load(rows, here) + new.fte <= SlotFte[new.slot]

\* ex_employee_assignments_one_primary_period
OnePrimary(rows) ==
  \A i, j \in Id :
    /\ i # j /\ rows[i].primary /\ rows[j].primary /\ Counts(rows[i]) /\ Counts(rows[j])
    /\ rows[i].employee = rows[j].employee
    => ~Overlap(rows[i], rows[j])

StatusOn(from, to) ==
  IF to < Today THEN "ended" ELSE IF from <= Today THEN "active" ELSE "planned"

\* EmployeeAssignment.effective_status
EffectivelyActive(row) ==
  row.status \notin {"absent", "cancelled", "pending_review"} /\ Covers(row, Today)

\* The employees in service at the start, in the order of their assignments.
First == CHOOSE f \in [1..Cardinality(DOMAIN Staff) -> DOMAIN Staff] :
           \A i, j \in DOMAIN f : f[i] = f[j] => i = j

\* They have a full, primary assignment without an end.
Init ==
  /\ employee = [e \in Employee |->
       IF e \in DOMAIN Staff THEN NewEmployee
       ELSE [NewEmployee EXCEPT !.status = "absent", !.revision = 0]]
  /\ assignment = [i \in Id |->
       IF i \in DOMAIN First
       THEN [NoRow EXCEPT !.status = "active", !.employee = First[i], !.slot = Staff[First[i]],
                          !.fte = SlotFte[Staff[First[i]]], !.primary = TRUE, !.revision = 1]
       ELSE NoRow]
  /\ review = [i \in Id |-> "none"]
  /\ lock = [r \in Employee \cup Slot |-> NoSession]
  /\ session = [s \in Session |-> Idle]

---------------------------------------------------------------------------
(* The registry of employees *)

\* create_employee: the number is free, and uq_employees_organization_number
\* keeps it free until the row is there.  Managers create drafts.
Register(s) ==
  \E e \in Employee, status \in {"draft", "active"} :
    /\ session[s].op = "none" /\ employee[e].status = "absent"
    /\ employee' = [employee EXCEPT ![e] = [NewEmployee EXCEPT !.status = status, !.hired = Today]]
    /\ UNCHANGED <<assignment, review, lock, session>>

Edited(row, change) ==
  LET value(f) == IF f \in DOMAIN change THEN change[f] ELSE row[f] IN
  [row EXCEPT !.status = value("status"), !.active = value("active"), !.ends = value("ends")]

InService(e) == employee[e].status \notin {"absent", "ended"} /\ employee[e].active

\* The current assignment of an employee, the one transfer_employee ends.
Current(i, e) ==
  assignment[i].employee = e /\ assignment[i].primary /\ EffectivelyActive(assignment[i])

\* EmployeeFunction.is_available
Available(function, e) ==
  /\ InService(e)
  /\ function = "employee.terminate" => employee[e].ends = Forever
  /\ function = "employee.transfer" => \E i \in Id : Current(i, e)

---------------------------------------------------------------------------
(* The requests: what they read before they lock anything *)

Open(s, request) ==
  /\ session[s].op = "none"
  /\ session' = [session EXCEPT ![s] = request]
  /\ UNCHANGED <<employee, assignment, review, lock>>

\* update_employee: a direct change of status, activity or termination date.
BeginUpdate(s) ==
  \E e \in Employee, change \in Edit :
    /\ employee[e].status # "absent" /\ employee[e].revision < MaxRevision
    /\ "ends" \in DOMAIN change => employee[e].hired <= change.ends
    /\ Open(s, [Idle EXCEPT !.op = "update", !.checked = TRUE, !.new.employee = e,
                            !.edit = change, !.revision = employee[e].revision])

\* invoke_employee_function: the details are read in a transaction of their own.
\* The client sends the revision it knows; an older one is refused in any case.
Invoke(s) ==
  \E e \in Employee, function \in Function :
    /\ Available(function, e)
    /\ Open(s, [Idle EXCEPT !.op = "invoke", !.function = function, !.new.employee = e,
                            !.revision = employee[e].revision])

\* The service call that follows begins its own transaction.
Proceed(s, function, request) ==
  /\ session[s].op = "invoke" /\ session[s].function = function
  /\ session' = [session EXCEPT ![s] = request]
  /\ UNCHANGED <<employee, assignment, review, lock>>

Proposed(e, slot, p) ==
  [NoRow EXCEPT !.status = IF p.reviewed THEN "pending_review" ELSE StatusOn(p.from, p.to),
                !.employee = e, !.slot = slot, !.fte = p.fte, !.from = p.from, !.to = p.to,
                !.primary = p.primary, !.revision = 1]

\* create_assignment: the employment status of the employee is not looked at.
BeginCreate(s) ==
  \E e \in Employee, slot \in Slot, p \in Proposal :
    /\ employee[e].status # "absent"
    /\ Open(s, [Idle EXCEPT !.op = "create", !.new = Proposed(e, slot, p), !.wants = <<e, slot>>])

\* hire_employee with a slot: a new employee, whose row cannot be locked yet.
BeginHire(s) ==
  \E e \in Employee, slot \in Slot, p \in Proposal :
    /\ employee[e].status = "absent"
    /\ p.primary /\ ~p.reviewed /\ p.to = Forever
    /\ Open(s, [Idle EXCEPT !.op = "hire", !.new = Proposed(e, slot, p), !.wants = <<slot>>])

\* review_assignment loads the assignment and its pending review first.
BeginReview(s) ==
  \E i \in Id, approved \in BOOLEAN :
    LET row == assignment[i] IN
    /\ review[i] = "pending" /\ row.revision < MaxRevision
    /\ Open(s, [Idle EXCEPT !.op = "review", !.target = i, !.new = row, !.approved = approved,
                            !.revision = row.revision, !.wants = <<row.employee, row.slot>>])

\* transfer_employee loads the assignments, finds the current one and locks its slot too.
BeginTransfer(s) ==
  \E i \in Id, slot \in Slot, p \in Proposal :
    LET row == assignment[i] IN
    /\ Current(i, session[s].new.employee) /\ InService(row.employee)
    /\ row.revision < MaxRevision
    /\ slot # row.slot /\ p.from > row.from /\ p.primary /\ ~p.reviewed /\ p.to = Forever
    /\ Proceed(s, "employee.transfer",
         [Idle EXCEPT !.op = "transfer", !.target = i, !.new = Proposed(row.employee, slot, p),
                      !.revision = row.revision, !.wants = <<row.employee, row.slot, slot>>])

\* EmployeeAssignment.end
CanEnd(row, day) ==
  /\ row.status \notin {"absent", "pending_review", "cancelled", "ended"}
  /\ row.from <= day /\ day <= row.to

Ended(row, day) ==
  [row EXCEPT !.to = day, !.status = IF day > Today THEN "scheduled_end" ELSE "ended",
              !.revision = @ + 1]

BeginEnd(s) ==
  \E i \in Id, day \in Day :
    /\ CanEnd(assignment[i], day) /\ assignment[i].revision < MaxRevision
    /\ Open(s, [Idle EXCEPT !.op = "end", !.checked = TRUE, !.target = i, !.day = day,
                            !.revision = assignment[i].revision])

\* What a termination on a day cancels, and what it ends.
CancelledBy(row, day) ==
  row.status \notin {"absent", "cancelled", "ended"}
  /\ (row.status = "pending_review" \/ row.from > day)

EndedBy(row, day) ==
  row.status \notin {"absent", "cancelled", "ended", "pending_review"}
  /\ row.from <= day /\ day < row.to

\* Slip: the revision the client sent is not compared.
BeginTerminateAnyway(s) ==
  \E day \in Day :
    LET e == session[s].new.employee IN
    /\ InService(e) /\ employee[e].hired <= day
    /\ Proceed(s, "employee.terminate",
         [Idle EXCEPT !.op = "terminate", !.checked = TRUE, !.new.employee = e, !.day = day,
                      !.revision = employee[e].revision])

\* terminate_employee loads the employee and all assignments with their revisions.
BeginTerminate(s) ==
  \E day \in Day :
    LET e == session[s].new.employee
        rows == {i \in Id : assignment[i].employee = e /\ Exists(i)}
    IN
    /\ InService(e) /\ employee[e].hired <= day /\ employee[e].revision = session[s].revision
    /\ employee[e].revision < MaxRevision /\ \A i \in rows : assignment[i].revision < MaxRevision
    /\ \A i \in rows : EndedBy(assignment[i], day) => CanEnd(assignment[i], day)
    /\ Proceed(s, "employee.terminate",
         [Idle EXCEPT !.op = "terminate", !.checked = TRUE, !.new.employee = e, !.day = day,
                      !.revision = employee[e].revision,
                      !.read = {<<i, assignment[i].revision>> : i \in rows}])

---------------------------------------------------------------------------
(* Locks, and the check under the locks *)

\* lock_assignment_resources: SELECT ... FOR UPDATE, one row after the other.
TakeLock(s) ==
  /\ session[s].wants # <<>>
  /\ lock[Head(session[s].wants)] \in {NoSession, s}
  /\ lock' = [lock EXCEPT ![Head(session[s].wants)] = s]
  /\ session' = [session EXCEPT ![s].wants = Tail(@)]
  /\ UNCHANGED <<employee, assignment, review>>

\* The rows this transaction sees: a transfer has already ended the current one.
Seen(s) ==
  LET c == session[s] IN
  IF c.op = "transfer"
  THEN [assignment EXCEPT ![c.target] = Ended(@, c.new.from - 1)]
  ELSE assignment

Fresh(s) == assignment[session[s].target].revision = session[s].revision

\* The capacity is counted with both rows locked.  Rows loaded before the locks
\* are not reloaded, but rows only ever shrink, so they count for no less.
Check(s) ==
  LET c == session[s] IN
  /\ c.op \in {"create", "hire", "review", "transfer"} /\ c.wants = <<>> /\ ~c.checked
  /\ c.op = "transfer" => Fresh(s) /\ CanEnd(assignment[c.target], c.new.from - 1)
  /\ c.op # "review" \/ c.approved => Fits(Seen(s), c.target, c.new)
  /\ session' = [session EXCEPT ![s].checked = TRUE]
  /\ UNCHANGED <<employee, assignment, review, lock>>

---------------------------------------------------------------------------
(* The commits *)

Release(s) == lock' = [r \in DOMAIN lock |-> IF lock[r] = s THEN NoSession ELSE lock[r]]

Ready(s, op) == session[s].op = op /\ session[s].checked

NextId(i) == ~Exists(i) /\ \A j \in 1..(i - 1) : Exists(j)

Close(s) == Release(s) /\ session' = [session EXCEPT ![s] = Idle]

CommitCreate(s) ==
  LET c == session[s] IN
  \E i \in Id :
    /\ Ready(s, "create") /\ NextId(i)
    /\ assignment' = [assignment EXCEPT ![i] = c.new]
    /\ OnePrimary(assignment')
    /\ review' = [review EXCEPT ![i] = IF c.new.status = "pending_review" THEN "pending" ELSE @]
    /\ Close(s)
    /\ UNCHANGED employee

CommitHire(s) ==
  LET c == session[s] IN
  \E i \in Id :
    /\ Ready(s, "hire") /\ NextId(i)
    /\ employee[c.new.employee].status = "absent"   \* uq_employees_organization_number
    /\ employee' = [employee EXCEPT ![c.new.employee] =
         [NewEmployee EXCEPT !.hired = c.new.from]]
    /\ assignment' = [assignment EXCEPT ![i] = c.new]
    /\ Close(s)
    /\ UNCHANGED review

\* resolve_review and AssignmentReviewRequest.resolve
CommitReview(s) ==
  LET c == session[s]
      row == assignment[c.target]
      verdict == IF c.approved THEN StatusOn(row.from, row.to) ELSE "cancelled"
  IN
  /\ Ready(s, "review") /\ Fresh(s)
  /\ row.status = "pending_review" /\ review[c.target] = "pending"
  /\ assignment' = [assignment EXCEPT ![c.target].status = verdict, ![c.target].revision = @ + 1]
  /\ review' = [review EXCEPT ![c.target] = IF c.approved THEN "approved" ELSE "rejected"]
  /\ Close(s)
  /\ UNCHANGED employee

CommitTransfer(s) ==
  LET c == session[s] IN
  \E i \in Id :
    /\ Ready(s, "transfer") /\ Fresh(s) /\ NextId(i)
    /\ assignment' = [Seen(s) EXCEPT ![i] = c.new]
    /\ OnePrimary(assignment')
    /\ Close(s)
    /\ UNCHANGED <<employee, review>>

CommitUpdate(s) ==
  LET c == session[s]
      e == c.new.employee
  IN
  /\ Ready(s, "update")
  /\ lock[e] = NoSession /\ employee[e].revision = c.revision
  /\ employee' = [employee EXCEPT ![e] = Edited([@ EXCEPT !.revision = c.revision + 1], c.edit)]
  /\ Close(s)
  /\ UNCHANGED <<assignment, review>>

\* Slip: the UPDATE does not ask for the revision that was loaded.
CommitEndAnyway(s) ==
  LET c == session[s] IN
  /\ Ready(s, "end")
  /\ assignment' = [assignment EXCEPT ![c.target] = Ended(@, c.day)]
  /\ Close(s)
  /\ UNCHANGED <<employee, review>>

CommitEnd(s) ==
  LET c == session[s] IN
  /\ Ready(s, "end") /\ Fresh(s)
  /\ assignment' = [assignment EXCEPT ![c.target] = Ended(@, c.day)]
  /\ Close(s)
  /\ UNCHANGED <<employee, review>>

\* Slip: an assignment that waits for its review is ended like the others.
TerminatedPending(row, day) ==
  IF row.status \in {"absent", "cancelled", "ended"} \/ row.to <= day THEN row
  ELSE IF row.from > day THEN [row EXCEPT !.status = "cancelled", !.revision = @ + 1]
  ELSE Ended(row, day)

Terminated(row, day) ==
  IF CancelledBy(row, day) THEN [row EXCEPT !.status = "cancelled", !.revision = @ + 1]
  ELSE IF EndedBy(row, day) THEN Ended(row, day)
  ELSE row

\* The rows that were read are written if they still have the revision read; an
\* assignment that was added since is not among them.  What is written is worked out from
\* the rows as they are now: a row that a termination of the row read would have written
\* and one of the row as it is would not is left alone here, where the code finds a stale
\* revision and fails.
CommitTerminate(s) ==
  LET c == session[s]
      e == c.new.employee
      read == {p[1] : p \in c.read}
      written == {i \in read : Terminated(assignment[i], c.day) # assignment[i]}
  IN
  /\ Ready(s, "terminate")
  /\ lock[e] = NoSession   \* the UPDATE waits for the row lock
  /\ employee[e].revision = c.revision
  /\ \A p \in c.read : p[1] \in written => assignment[p[1]].revision = p[2]
  /\ employee' = [employee EXCEPT
       ![e].ends = c.day, ![e].revision = @ + 1,
       ![e].status = IF c.day <= Today THEN "ended" ELSE @, ![e].active = @ /\ c.day > Today]
  /\ assignment' = [i \in Id |->
       IF i \in read THEN Terminated(assignment[i], c.day) ELSE assignment[i]]
  /\ Close(s)
  /\ UNCHANGED review

\* A refusal, a deadlock the database resolves, a conflict, a lost connection.
Fail(s) ==
  /\ session[s].op # "none"
  /\ Close(s)
  /\ UNCHANGED <<employee, assignment, review>>

Next ==
  \E s \in Session :
    \/ Register(s) \/ BeginUpdate(s) \/ Invoke(s)
    \/ BeginCreate(s) \/ BeginHire(s) \/ BeginReview(s) \/ BeginTransfer(s)
    \/ BeginEnd(s) \/ BeginTerminate(s)
    \/ TakeLock(s) \/ Check(s)
    \/ CommitCreate(s) \/ CommitHire(s) \/ CommitReview(s) \/ CommitTransfer(s)
    \/ CommitEnd(s) \/ CommitTerminate(s) \/ CommitUpdate(s)
    \/ Fail(s)

Spec == Init /\ [][Next]_vars

---------------------------------------------------------------------------
(* Properties *)

\* On no day is an employee or a slot given more than it has, whatever the
\* requests that assign, approve, hire, transfer, end and terminate do at the
\* same time (_ensure_assignment_capacity under lock_assignment_resources).
CapacityIsKept ==
  \A d \in Day :
    /\ \A e \in Employee :
         Load(assignment, {i \in Id : /\ Counts(assignment[i]) /\ Covers(assignment[i], d)
                                      /\ assignment[i].employee = e}) <= Whole
    /\ \A s \in Slot :
         Load(assignment, {i \in Id : /\ Counts(assignment[i]) /\ Covers(assignment[i], d)
                                      /\ assignment[i].slot = s}) <= SlotFte[s]

\* The assignment a manager proposed takes effect only by the approval of HR.
ApprovedBeforeWork ==
  \A i \in Id :
    review[i] # "none" /\ assignment[i].status \notin {"pending_review", "cancelled"}
      => review[i] = "approved"

\* A settled assignment is history, and an end that was announced is never put
\* off: requests that loaded the row before lose to the one that settled it.
SettledAssignmentsStay ==
  [][\A i \in Id : Exists(i) =>
       /\ assignment[i].status \in {"ended", "cancelled"} => assignment'[i] = assignment[i]
       /\ assignment'[i].to <= assignment[i].to]_vars

\* The date of a termination is not moved by another one that was invoked while
\* the first was under way, although each finds out in an earlier transaction
\* that no date is set (TerminateEmployeeFunction, the revision of the payload).
TerminationDateStands ==
  [][\A s \in Session :
       /\ session[s].op = "terminate"
       /\ employee'[session[s].new.employee] # employee[session[s].new.employee]
       /\ session'[s].op = "none"
       => employee[session[s].new.employee].ends = Forever]_vars
===========================================================================
