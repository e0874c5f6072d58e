------------------------ MODULE WorkflowRuntime ------------------------
(***************************************************************************)
(* The generic runtime on one process: start_instance, act_task and         *)
(* reassign_task, by concurrent requests.  act_task locks the task row,      *)
(* checks it, and then locks the process instance; what it reads of the      *)
(* sibling tasks it reads after that, so the first lock and the rest of the  *)
(* transaction are two steps.                                                *)
(***************************************************************************)
EXTENDS WorkflowProcess

CONSTANTS Routes,    \* routes the process may be started on
          Session,   \* concurrent act_task requests
          NoTask,    \* a session that holds no lock
          Holders,   \* the role assignments there may be: users by step
          Delegates  \* pairs of users: delegations of workflow.task.act

\* validate_definition lets no transition lead back to its own step.
ASSUME RoutesAssumption ==
  /\ Routes \subseteq Route
  /\ \A r \in Routes, s \in Step :
       r.required[s] > 0 /\ \A action \in Action : r.goto[<<s, action>>] # s
ASSUME HoldersAssumption == Holders \subseteq [Step -> SUBSET User]

VARIABLES route,    \* the published version the process runs
          process,  \* the instance and its tasks
          holders,  \* whom _resolve_users finds for each step
          session   \* the task an open act_task holds locked, and the action

vars == <<route, process, holders, session>>

Locked == [step : Step, user : User, action : Action]

TypeOK ==
  /\ route \in Routes
  /\ process \in Process
  /\ holders \in [Step -> SUBSET User]
  /\ session \in [Session -> Locked \cup {NoTask}]

\* start_instance.
Init ==
  /\ route \in Routes
  /\ holders \in Holders
  /\ process = Started(route, holders)
  /\ session = [x \in Session |-> NoTask]

\* Sessions that hold the row of the task.
LockedBy(s, u) == {x \in Session : session[x] # NoTask /\ session[x].step = s /\ session[x].user = u}

\* act_task up to the lock of the instance: the assigned user, an unfinished task,
\* an action its step allows.  The revision excludes what was read before the last change.
BeginAct(x) ==
  /\ session[x] = NoTask
  /\ \E s \in Step, u \in User : \E action \in route.allowed[s] :
       /\ process.task[<<s, u>>] = "active" /\ LockedBy(s, u) = {}
       /\ session' = [session EXCEPT ![x] = [step |-> s, user |-> u, action |-> action]]
  /\ UNCHANGED <<route, process, holders>>

\* A sibling to cancel may be locked by a session that waits for the instance: the
\* database aborts one of the two, here the other one.
CommitAct(x) ==
  LET a == session[x] IN
  /\ a # NoTask
  /\ CanAct(process, route, holders, a.step, a.user, a.action)
  /\ process' = Acted(process, route, holders, a.step, a.user, a.action)
  /\ session' = [y \in Session |->
       IF y = x \/ (session[y] # NoTask /\ process'.task[<<session[y].step, session[y].user>>] # "active")
       THEN NoTask ELSE session[y]]
  /\ UNCHANGED <<route, holders>>

\* A failed insert, a deadlock, a lost connection: nothing is written.
Rollback(x) ==
  /\ session[x] # NoTask
  /\ session' = [session EXCEPT ![x] = NoTask]
  /\ UNCHANGED <<route, process, holders>>

\* reassign_task: the assigned user hands the row to a delegate, also a decided one.
Reassign(u, v) ==
  /\ <<u, v>> \in Delegates
  /\ \E s \in Step :
       /\ process.task[<<s, u>>] # "none" /\ process.task[<<s, v>>] = "none" /\ LockedBy(s, u) = {}
       /\ process' = [process EXCEPT !.task[<<s, v>>] = process.task[<<s, u>>], !.task[<<s, u>>] = "none"]
  /\ UNCHANGED <<route, holders, session>>

\* Roles are assigned and revoked.
ChangeRoles ==
  /\ holders' \in Holders
  /\ UNCHANGED <<route, process, session>>

Next ==
  \/ \E x \in Session : BeginAct(x) \/ CommitAct(x) \/ Rollback(x)
  \/ \E u, v \in User : Reassign(u, v)
  \/ ChangeRoles

Spec == Init /\ [][Next]_vars

---------------------------------------------------------------------------
(* Properties *)

\* An active process has a task somebody can act on: of several approvers deciding at
\* once, one is the last and moves the process on.
ActiveHasTask == process.status = "active" => \E s \in Step : With(process, s, "active") # {}

\* Step s was returned, rejected or cancelled, and that leads to t.
TurnedTo(s, t) ==
  \E action \in {"return", "reject", "cancel"} :
    route.goto[<<s, action>>] = t /\ With(process, s, Verdict(action)) # {}

ApprovedTo(s, t) ==
  route.goto[<<s, "approve">>] = t /\ Cardinality(With(process, s, "completed")) >= route.required[s]

\* Where tasks come from that are not the first step's: a step with the approvals it
\* requires, or turned another way.  And the step the process is at has nobody left to
\* ask in the mode "all" step before it; of an earlier step, one entered again, others
\* may be asked by now.
StepsAreEarned ==
  /\ \A t \in Step \ {route.first} :
       (\E u \in User : process.task[<<t, u>>] # "none") =>
         \E s \in Step : TurnedTo(s, t) \/ ApprovedTo(s, t)
  /\ process.phase # route.first =>
       \E s \in Step : \/ TurnedTo(s, process.phase)
                       \/ ApprovedTo(s, process.phase) /\ Ready(process, route, s)

\* A decision is final: the decided tasks of a step stay decided, whoever they are
\* reassigned to.
DecisionsStay ==
  [][\A s \in Step, d \in Decision :
       Cardinality(With(process', s, d)) >= Cardinality(With(process, s, d))]_vars
===========================================================================
