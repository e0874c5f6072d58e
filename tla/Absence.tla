------------------------------ MODULE Absence ------------------------------
(***************************************************************************)
(* Leave and business-trip requests of one employee: the approval           *)
(* aggregates, the yearly leave balances, the calendar they are projected   *)
(* to, and the workflow process linked to each request.                     *)
(*                                                                         *)
(* An operation is one transaction that locks the request, the balance and  *)
(* the process it changes.  What it reads without a lock (other requests,   *)
(* the calendar) may be stale when it commits: an operation that looks for  *)
(* overlaps is two steps, the check and the commit.  Revisions are left      *)
(* out: a client that passes the check has seen the current row, and a       *)
(* decision that is sent twice changes nothing.                             *)
(***************************************************************************)
EXTENDS Integers, FiniteSets

CONSTANTS Leave, Trip,  \* the requests there may be
          User,         \* reviewers, in the order of their ids
          Holders,      \* the reviewers each stage's actor rule finds
          LastDay,      \* bound: the calendar is 1..LastDay
          YearOf,       \* the year of a day
          Entitled,     \* entitled and carried days, by year
          Clients,      \* other entry points in use: "tasks", "absences", "corrections"
          Concurrent,   \* bound: transactions between their check and their commit
          MaxPersonnel, \* bound: absences the personnel department has registered
          Personnel     \* owner of an absence no request stands behind

Request == Leave \cup Trip
Stage == {"manager_review", "hr_review", "finance_review", "hr_registration"}
Day == 1..LastDay
Year == {YearOf[d] : d \in Day}
Period == {p \in Day \X Day : p[1] <= p[2]}

ASSUME RequestAssumption == Leave \cap Trip = {} /\ Personnel \notin Request /\ IsFiniteSet(Leave)
ASSUME CalendarAssumption == LastDay \in Nat \ {0} /\ YearOf \in [Day -> Nat] /\ Entitled \in [Year -> Nat]
ASSUME StaffAssumption ==
  User \subseteq Nat /\ IsFiniteSet(User) /\ Holders \in [Stage -> (SUBSET User) \ {{}}]
ASSUME ClientsAssumption == Clients \subseteq {"tasks", "absences", "corrections"}
ASSUME BoundsAssumption == Concurrent \in Nat \ {0} /\ MaxPersonnel \in Nat

INSTANCE WorkflowProcess WITH Step <- Stage, NoStep <- "none"

VARIABLES request,   \* status, dates and returned_from_stage
          process,   \* the linked process; nothing before the request is created
          balance,   \* reserved and used days of each year
          calendar,  \* each request's row of employee_absences; "corrected" is the code's
                     \* "cancelled" where the personnel department took the row back
          personnel, \* the dates of the other rows that are not cancelled
          open,      \* transactions that have passed their overlap check
          today,
          missed,    \* history: whose dates were set since a transaction's overlap check
          moved,     \* history: years a resubmission took a leave out of or into
          bypassed   \* history: requests whose task was acted on through act_task

\* What no guard reads and only the properties do.
history == <<missed, moved, bypassed>>

absenceVars == <<request, process, balance, calendar, personnel, open, today, history>>

AbsenceStatus == Stage \cup {"none", "returned", "approved", "rejected", "cancelled"}

\* "approved" is also what a trip is once registered.
RequestRow == [status : AbsenceStatus, period : Period, returned : Stage \cup {"none"}]

Transaction == [op : {"create", "resubmit", "register", "record"},
                owner : Request \cup {Personnel}, period : Period]

AbsenceTypeOK ==
  /\ request \in [Request -> RequestRow]
  /\ process \in [Request -> Process]
  /\ balance \in [Year -> [reserved : Int, used : Int]]
  /\ calendar \in [Request -> {"none", "scheduled", "cancelled", "corrected"}]
  /\ personnel \subseteq Period
  /\ open \subseteq Transaction /\ Cardinality(open) <= Concurrent
  /\ today \in Day
  /\ missed \in [Request -> SUBSET Request] /\ moved \subseteq Year /\ bypassed \subseteq Request

AbsenceInit ==
  /\ request = [r \in Request |-> [status |-> "none", period |-> <<1, 1>>, returned |-> "none"]]
  /\ process = [r \in Request |-> Fresh("manager_review")]
  /\ balance = [y \in Year |-> [reserved |-> 0, used |-> 0]]
  /\ calendar = [r \in Request |-> "none"]
  /\ personnel = {} /\ open = {} /\ today = 1
  /\ missed = [r \in Request |-> {}] /\ moved = {} /\ bypassed = {}

---------------------------------------------------------------------------
(* Routes *)

\* The stage after an approved one; "none" after the last.
NextStage(r, stage) ==
  IF r \in Leave
  THEN IF stage = "manager_review" THEN "hr_review" ELSE "none"
  ELSE CASE stage = "manager_review" -> "finance_review"
         [] stage = "finance_review" -> "hr_registration" [] OTHER -> "none"

\* The published routes, as seeded: an approval leads to the next stage, nothing else
\* has a transition.
RouteOf(r) ==
  [first |-> "manager_review", required |-> [s \in Stage |-> 1], mode |-> [s \in Stage |-> "all"],
   parallel |-> {}, allowed |-> [s \in Stage |-> {"approve", "return", "reject"}],
   goto |-> [k \in Stage \X Action |-> IF k[2] = "approve" THEN NextStage(r, k[1]) ELSE "none"]]

---------------------------------------------------------------------------
(* Dates and balances *)

Days(p) == p[2] - p[1] + 1

Overlap(p, q) == p[1] <= q[2] /\ q[1] <= p[2]

\* Requests whose dates count in the overlap check, the returned ones among them.
Pending(r) == request[r].status \notin {"none", "rejected", "cancelled"}

\* Slip: only the requests under review and the approved ones are compared.
NoOverlapButReturned(p, r) ==
  /\ \A q \in Request \ {r} :
       (Pending(q) /\ request[q].status # "returned") \/ calendar[q] = "scheduled"
         => ~Overlap(p, request[q].period)
  /\ \A q \in personnel : ~Overlap(p, q)

\* _ensure_no_overlap: requests and calendar rows but r's own.
NoOverlap(p, r) ==
  /\ \A q \in Request \ {r} :
       Pending(q) \/ calendar[q] = "scheduled" => ~Overlap(p, request[q].period)
  /\ \A q \in personnel : ~Overlap(p, q)

\* The dates no row of the calendar that is not cancelled overlaps.
OffCalendar(p) ==
  /\ \A q \in Request : calendar[q] = "scheduled" => ~Overlap(p, request[q].period)
  /\ \A q \in personnel : ~Overlap(p, q)

\* Slip: the days already used are not subtracted.
AvailableButUsed(y) == Entitled[y] - balance[y].reserved

Available(y) == Entitled[y] - balance[y].reserved - balance[y].used

\* The balance of a leave is that of the year its first day is in; a trip has none.
Charged(p, reserved, used) ==
  [balance EXCEPT ![YearOf[p[1]]] = [reserved |-> @.reserved + reserved, used |-> @.used + used]]

\* A final approval holds the balance row from before its check to its end.
BalanceFree(p, mine) ==
  \A t \in open \ mine : t.op = "register" /\ t.owner \in Leave => YearOf[t.period[1]] # YearOf[p[1]]

---------------------------------------------------------------------------
(* Transactions with an overlap check *)

\* A request, its row locked.
Busy(r) == \E t \in open : t.owner = r

\* Open transactions of r that set its dates.
Dating(r) == {t \in open : t.owner = r /\ t.op \in {"create", "resubmit"}}

\* r's dates are set: the other transactions under way do not see them.
Unseen(r) == [q \in Request |-> IF q # r /\ Dating(q) # {} THEN missed[q] \cup {r} ELSE {}]

Begin(op, owner, p) ==
  /\ Cardinality(open) < Concurrent
  /\ open' = open \cup {[op |-> op, owner |-> owner, period |-> p]}
  /\ UNCHANGED <<request, process, balance, calendar, personnel, today, history>>

BeginCreate(r, p) ==
  /\ request[r].status = "none" /\ ~Busy(r) /\ p[1] >= today /\ NoOverlap(p, r)
  /\ Begin("create", r, p)

\* The row, and the process it is linked to.
Submitted(t) ==
  LET r == t.owner IN
  /\ request' = [request EXCEPT ![r] = [status |-> "manager_review", period |-> t.period, returned |-> "none"]]
  /\ process' = [process EXCEPT ![r] = Started(RouteOf(r), Holders)]
  /\ open' = open \ {t} /\ missed' = Unseen(r)
  /\ UNCHANGED <<calendar, personnel, today, moved, bypassed>>

CreateLeave(t) ==
  LET p == t.period IN
  /\ t.op = "create" /\ t.owner \in Leave
  /\ BalanceFree(p, {t})
  /\ Available(YearOf[p[1]]) >= Days(p)
  /\ balance' = Charged(p, Days(p), 0)
  /\ Submitted(t)

CreateTrip(t) ==
  /\ t.op = "create" /\ t.owner \in Trip
  /\ Submitted(t)
  /\ UNCHANGED balance

BeginResubmit(r, p) ==
  /\ request[r].status = "returned" /\ ~Busy(r) /\ p[1] >= today /\ NoOverlap(p, r)
  /\ Begin("resubmit", r, p)

\* Where a resubmitted request goes.  Slip: always to the first stage.
ReopenedAtStart(r) == "manager_review"

Reopened(r) == request[r].returned

Continued(t) ==
  LET r == t.owner IN
  /\ request' = [request EXCEPT ![r] = [status |-> Reopened(r), period |-> t.period, returned |-> "none"]]
  /\ \E k \in Stage \X User :
       /\ process[r].task[k] = "returned"
       /\ process' = [process EXCEPT ![r] = Resumed(@, k[1], k[2])]
  /\ open' = open \ {t} /\ missed' = Unseen(r)
  /\ UNCHANGED <<calendar, personnel, today, bypassed>>

\* The balance resized is the one of the dates the request had.
Resized(old, new) ==
  /\ Available(YearOf[old[1]]) + Days(old) >= Days(new)
  /\ balance' = Charged(old, Days(new) - Days(old), 0)

ResubmitLeave(t) ==
  LET old == request[t.owner].period IN
  /\ t.op = "resubmit" /\ t.owner \in Leave
  /\ BalanceFree(old, {t})
  /\ Resized(old, t.period)
  /\ Continued(t)
  /\ moved' = IF YearOf[t.period[1]] = YearOf[old[1]] THEN moved
              ELSE moved \cup {YearOf[old[1]], YearOf[t.period[1]]}

ResubmitTrip(t) ==
  /\ t.op = "resubmit" /\ t.owner \in Trip
  /\ Continued(t)
  /\ UNCHANGED <<balance, moved>>

\* The linked task of r's stage that u may decide.
Linked(r, u) ==
  {k \in LinkedTasks(process[r], Holders, u) : process[r].phase = request[r].status}

\* decide_leave and decide_trip at the last stage; a row of the calendar that already
\* stands for the request, even a cancelled one, is taken as it is.
BeginRegister(r) ==
  /\ request[r].status \in Stage /\ NextStage(r, request[r].status) = "none" /\ ~Busy(r)
  /\ r \in Leave => BalanceFree(request[r].period, {})
  /\ calendar[r] = "none" => OffCalendar(request[r].period)
  /\ Begin("register", r, request[r].period)

\* The approver completes the last task, and the calendar gets its row.
Registered(t, u) ==
  LET r == t.owner IN
  /\ request' = [request EXCEPT ![r].status = "approved"]
  /\ calendar' = [calendar EXCEPT ![r] = IF @ = "none" THEN "scheduled" ELSE @]
  /\ \E k \in Linked(r, u) :
       process' = [process EXCEPT ![r] =
         ActedLinked(Taken(@, k, u), RouteOf(r), Holders, k[1], u, "approve")]
  /\ open' = open \ {t}
  /\ UNCHANGED <<personnel, today, history>>

ApproveLeave(t, u) ==
  /\ t.op = "register" /\ t.owner \in Leave /\ u \in Holders[request[t.owner].status]
  /\ balance' = Charged(t.period, -Days(t.period), Days(t.period))
  /\ Registered(t, u)

RegisterTrip(t, u) ==
  /\ t.op = "register" /\ t.owner \in Trip /\ u \in Holders[request[t.owner].status]
  /\ Registered(t, u)
  /\ UNCHANGED balance

\* create_absence of the employees module; it sees the calendar only.
BeginRecord(p) ==
  /\ "absences" \in Clients /\ Cardinality(personnel) < MaxPersonnel
  /\ OffCalendar(p)
  /\ Begin("record", Personnel, p)

CommitRecord(t) ==
  /\ t.op = "record"
  /\ personnel' = personnel \cup {t.period} /\ open' = open \ {t}
  /\ UNCHANGED <<request, process, balance, calendar, today, history>>

\* A check fails after the overlap check, a task is not there, the connection is lost.
Abort(t) ==
  /\ open' = open \ {t}
  /\ missed' = [r \in Request |-> IF r = t.owner THEN {} ELSE missed[r]]
  /\ UNCHANGED <<request, process, balance, calendar, personnel, today, moved, bypassed>>

---------------------------------------------------------------------------
(* Transactions without one *)

\* What a decision short of the last approval makes of the request.
Decided(r, decision) ==
  CASE decision = "approve" -> NextStage(r, request[r].status)
    [] decision = "return" -> "returned" [] OTHER -> "rejected"

\* The request moves, and its process the same way.
Reviewed(r, u, decision) ==
  LET stage == request[r].status IN
  /\ stage \in Stage /\ ~Busy(r) /\ u \in Holders[stage]
  /\ decision = "approve" => NextStage(r, stage) # "none"
  /\ \E k \in Linked(r, u) :
       LET p == Taken(process[r], k, u) IN
       /\ CanActLinked(p, RouteOf(r), Holders, k[1], u, decision)
       /\ process' = [process EXCEPT ![r] =
            ActedLinked(p, RouteOf(r), Holders, k[1], u, decision)]
  /\ request' = [request EXCEPT ![r].status = Decided(r, decision),
                                ![r].returned = IF decision = "return" THEN stage ELSE @]
  /\ UNCHANGED <<calendar, personnel, open, today, history>>

\* A rejected leave gives its days back.
DecideLeave(r, u, decision) ==
  LET p == request[r].period IN
  /\ r \in Leave /\ Reviewed(r, u, decision)
  /\ decision = "reject" => BalanceFree(p, {})
  /\ balance' = IF decision = "reject" THEN Charged(p, -Days(p), 0) ELSE balance

DecideTrip(r, u, decision) ==
  /\ r \in Trip /\ Reviewed(r, u, decision)
  /\ UNCHANGED balance

\* cancel_linked_instance: also of a process that is over.
Withdrawn(p) == IF p.status = "cancelled" THEN p ELSE Closed(p, "cancelled")

\* _release_balance.  Slip: the days of an approved leave are given back as reserved ones.
ReleasedReserved(r) == Charged(request[r].period, -Days(request[r].period), 0)

Released(r) ==
  IF request[r].status = "approved" THEN Charged(request[r].period, 0, -Days(request[r].period))
  ELSE Charged(request[r].period, -Days(request[r].period), 0)

\* _cancel_calendar_absence.  Slip: the row of a trip is not found.
LeaveUnlisted(r) ==
  [calendar EXCEPT ![r] = IF @ = "scheduled" /\ r \in Leave THEN "cancelled" ELSE @]

Unlisted(r) == [calendar EXCEPT ![r] = IF @ = "scheduled" THEN "cancelled" ELSE @]

\* Before the first day, by the employee, at any stage.
Cancelled(r) ==
  /\ request[r].status \notin {"none", "cancelled", "rejected"} /\ ~Busy(r)
  /\ request[r].period[1] > today
  /\ calendar' = Unlisted(r)
  /\ request' = [request EXCEPT ![r].status = "cancelled"]
  /\ process' = [process EXCEPT ![r] = Withdrawn(@)]
  /\ UNCHANGED <<personnel, open, today, history>>

CancelLeave(r) ==
  /\ r \in Leave /\ BalanceFree(request[r].period, {})
  /\ Cancelled(r)
  /\ balance' = Released(r)

CancelTrip(r) == r \in Trip /\ Cancelled(r) /\ UNCHANGED balance

\* act_task, which does not ask whether a request stands behind the process.
ActOnTask(r, s, u, action) ==
  /\ "tasks" \in Clients /\ request[r].status # "none"
  /\ process[r].task[<<s, u>>] = "active" /\ action \in RouteOf(r).allowed[s]
  /\ CanAct(process[r], RouteOf(r), Holders, s, u, action)
  /\ process' = [process EXCEPT ![r] = Acted(@, RouteOf(r), Holders, s, u, action)]
  /\ bypassed' = bypassed \cup {r}
  /\ UNCHANGED <<request, balance, calendar, personnel, open, today, missed, moved>>

\* cancel_absence of the employees module, before the last day is over; it does not ask
\* whether a request stands behind the row, and the request stays approved.
CorrectRequested(r) ==
  /\ "corrections" \in Clients /\ calendar[r] = "scheduled" /\ today <= request[r].period[2]
  /\ calendar' = [calendar EXCEPT ![r] = "corrected"]
  /\ UNCHANGED <<request, process, balance, personnel, open, today, history>>

CorrectRecorded(p) ==
  /\ "corrections" \in Clients /\ p \in personnel /\ today <= p[2]
  /\ personnel' = personnel \ {p}
  /\ UNCHANGED <<request, process, balance, calendar, open, today, history>>

NextDay ==
  /\ today < LastDay /\ today' = today + 1
  /\ UNCHANGED <<request, process, balance, calendar, personnel, open, history>>

AbsenceNext ==
  \/ \E r \in Request, p \in Period : BeginCreate(r, p) \/ BeginResubmit(r, p)
  \/ \E r \in Request : BeginRegister(r) \/ CancelLeave(r) \/ CancelTrip(r) \/ CorrectRequested(r)
  \/ \E r \in Request, u \in User, decision \in {"approve", "return", "reject"} :
       DecideLeave(r, u, decision) \/ DecideTrip(r, u, decision)
  \/ \E r \in Request, s \in Stage, u \in User, action \in Action : ActOnTask(r, s, u, action)
  \/ \E p \in Period : BeginRecord(p) \/ CorrectRecorded(p)
  \/ \E t \in open :
       \/ CreateLeave(t) \/ CreateTrip(t) \/ ResubmitLeave(t) \/ ResubmitTrip(t)
       \/ CommitRecord(t) \/ Abort(t)
  \/ \E t \in open, u \in User : ApproveLeave(t, u) \/ RegisterTrip(t, u)
  \/ NextDay

AbsenceSpec == AbsenceInit /\ [][AbsenceNext]_absenceVars

---------------------------------------------------------------------------
(* Properties *)

\* Leaves whose days count in year y, in one of the statuses.
LeavesOf(y, statuses) == {r \in Leave : request[r].status \in statuses /\ YearOf[request[r].period[1]] = y}

\* The days of all of them, one shared by several counted for each.
DaysOf(requests) ==
  Cardinality({k \in requests \X Day : request[k[1]].period[1] <= k[2] /\ k[2] <= request[k[1]].period[2]})

\* A year's reserved days are those of the leaves under review or returned, its used days
\* those of the approved ones: no return, resubmission, rejection or cancellation, at
\* whatever stage and through whatever interface, loses or doubles a day, except in the
\* two years a resubmission takes a leave from one to the other of (_resize_reservation).
BalanceMatchesRequests ==
  \A y \in Year \ moved :
    /\ balance[y].reserved = DaysOf(LeavesOf(y, Stage \cup {"returned"}))
    /\ balance[y].used = DaysOf(LeavesOf(y, {"approved"}))

\* No employee is granted or holds more days than the entitlement of a year, as long as
\* no resubmission has taken a leave into or out of it.
WithinEntitlement ==
  \A y \in Year \ moved : DaysOf(LeavesOf(y, Stage \cup {"returned", "approved"})) <= Entitled[y]

\* Two requests that are neither rejected nor cancelled share a day.
Clash(q, r) ==
  q # r /\ Pending(q) /\ Pending(r) /\ Overlap(request[q].period, request[r].period)

\* What docs/PROJECT_HANDOFF.md:51 says: overlapping active requests fail.
NoOverlappingRequests == \A q, r \in Request : ~Clash(q, r)

\* Two requests come to share a day only when one was given its dates between the overlap
\* check and the commit of the other: returned ones and those being decided are compared,
\* and no approval, return, correction or cancellation brings about what no check missed.
OverlapsWereUnseen ==
  [][\A q, r \in Request :
       ~Clash(q, r) /\ Clash(q, r)' => q \in missed[r] \/ r \in missed[q]]_absenceVars

\* The calendar shows the requests that are approved and no other, but for the rows of
\* approved requests that the personnel department took back.
CalendarShowsApproved ==
  \A r \in Request :
    /\ calendar[r] = "scheduled" => request[r].status = "approved"
    /\ request[r].status = "approved" => calendar[r] \in {"scheduled", "corrected"}
    /\ calendar[r] = "corrected" => request[r].status \in {"approved", "cancelled"}

\* A request and its process agree: under review there is one task, at that stage, unless
\* act_task has moved the process on without the request; when returned nobody is asked
\* until it is resubmitted; once over, however the process got there, the process is over
\* the same way and nobody is asked anything more.
RequestFollowsProcess ==
  \A r \in Request :
    LET p == process[r]
        row == request[r]
        asked == {k \in Stage \X User : p.task[k] = "active"}
    IN
    /\ row.status \in Stage /\ r \notin bypassed =>
         p.status = "active" /\ p.phase = row.status /\ \E u \in User : asked = {<<row.status, u>>}
    /\ row.status \in {"returned", "approved", "rejected", "cancelled"} => asked = {}
    /\ row.status = "returned" =>
         p.status = "active" /\ \E u \in User : p.task[<<row.returned, u>>] = "returned"
    /\ row.status = "approved" => p.status = "completed"
    /\ row.status \in {"rejected", "cancelled"} => p.status = row.status
===========================================================================
