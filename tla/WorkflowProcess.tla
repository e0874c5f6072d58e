------------------------ MODULE WorkflowProcess ------------------------
(***************************************************************************)
(* One process instance and its tasks, as values: what the operations of    *)
(* the workflow runtime make of them.  The task rows are a function, for     *)
(* (process_instance_id, step_definition_id, assigned_user_id) is unique;    *)
(* "none" stands for no row.  Users are numbers, in the order of their ids. *)
(* The context of a process never changes, so that of the transitions of a  *)
(* step and an action the same one matches each time: goto.                 *)
(***************************************************************************)
EXTENDS Naturals, FiniteSets

CONSTANTS Step, User, NoStep

ASSUME UserAssumption == User \subseteq Nat /\ IsFiniteSet(User)
ASSUME NoStepAssumption == NoStep \notin Step

\* "approve" stands for submit, complete and reopen too: the runtime tells only the
\* three others apart, and a step of these routes allows one of the four.
Action == {"approve", "return", "reject", "cancel"}

Route == [first : Step, required : [Step -> Nat], mode : [Step -> {"all", "any"}],
          parallel : SUBSET Step, allowed : [Step -> SUBSET Action],
          goto : [Step \X Action -> Step \cup {NoStep}]]

Decision == {"completed", "returned", "rejected", "cancelled"}

Terminal == {"completed", "rejected", "cancelled"}

Process == [status : {"active", "configuration_error"} \cup Terminal, phase : Step,
            task : [Step \X User -> {"none", "active"} \cup Decision]]

With(p, s, status) == {u \in User : p.task[<<s, u>>] = status}

---------------------------------------------------------------------------
(* _create_tasks; users are those _resolve_users finds for the step *)

Resolved(route, s, users) == Cardinality(users) >= route.required[s]

Chosen(route, s, users) ==
  IF s \in route.parallel THEN users
  ELSE {u \in users : Cardinality({v \in users : v < u}) < route.required[s]}

\* A second task of a user at a step is refused by the unique constraint.
Insertable(p, s, users) == \A u \in users : p.task[<<s, u>>] = "none"

AddTasks(p, s, users) ==
  [p EXCEPT !.phase = s,
            !.task = [k \in Step \X User |-> IF k[1] = s /\ k[2] \in users THEN "active" ELSE @[k]]]

Fresh(s) == [status |-> "active", phase |-> s, task |-> [k \in Step \X User |-> "none"]]

Configured(p, s) == [p EXCEPT !.phase = s, !.status = "configuration_error"]

\* start_instance keeps a process without tasks, start_linked_instance fails.
Started(route, holders) ==
  LET s == route.first IN
  IF Resolved(route, s, holders[s])
  THEN AddTasks(Fresh(s), s, Chosen(route, s, holders[s])) ELSE Configured(Fresh(s), s)

---------------------------------------------------------------------------
(* act_task and act_linked_task *)

Verdict(action) ==
  CASE action = "return" -> "returned" [] action = "reject" -> "rejected"
    [] action = "cancel" -> "cancelled" [] OTHER -> "completed"

Recorded(p, s, u, action) == [p EXCEPT !.task[<<s, u>>] = Verdict(action)]

\* Slip: the unflushed decision is missing from the count.
ReadyWithoutOwn(p, route, s) ==
  /\ Cardinality(With(p, s, "completed")) > route.required[s]
  /\ route.mode[s] = "all" => With(p, s, "active") = {}

\* approvals: the recorded one and its completed siblings.
Ready(p, route, s) ==
  /\ Cardinality(With(p, s, "completed")) >= route.required[s]
  /\ route.mode[s] = "all" => With(p, s, "active") = {}

\* Slip: siblings are cancelled whatever their status.
SettledAll(p, route, s, action) ==
  IF action = "approve" /\ route.mode[s] = "any"
  THEN [p EXCEPT !.task =
          [k \in Step \X User |-> IF k[1] = s /\ @[k] # "none" THEN "cancelled" ELSE @[k]]]
  ELSE p

\* In mode "any" the siblings left are cancelled.
Settled(p, route, s, action) ==
  IF action = "approve" /\ route.mode[s] = "any"
  THEN [p EXCEPT !.task =
          [k \in Step \X User |-> IF k[1] = s /\ @[k] = "active" THEN "cancelled" ELSE @[k]]]
  ELSE p

\* Slip: mode "all" is not looked at.
WaitsForRequired(p, route, s, u, action) ==
  action = "approve" /\
    Cardinality(With(Recorded(p, s, u, action), s, "completed")) < route.required[s]

\* The approval is recorded but its step is not over.
Waits(p, route, s, u, action) ==
  action = "approve" /\ ~Ready(Recorded(p, s, u, action), route, s)

\* act_task fails as a whole when the tasks of the next step cannot be inserted.
CanAct(p, route, holders, s, u, action) ==
  LET t == route.goto[<<s, action>>] IN
  ~Waits(p, route, s, u, action) /\ t # NoStep =>
    (Resolved(route, t, holders[t]) => Insertable(p, t, Chosen(route, t, holders[t])))

\* What act_task leaves.  Without a transition the process is over, whatever the
\* action is and whatever its status was.
Acted(p, route, holders, s, u, action) ==
  LET recorded == Recorded(p, s, u, action)
      settled == Settled(recorded, route, s, action)
      t == route.goto[<<s, action>>]
  IN
  CASE Waits(p, route, s, u, action) -> recorded
    [] ~Waits(p, route, s, u, action) /\ t = NoStep ->
         [settled EXCEPT !.status = IF action = "cancel" THEN "cancelled" ELSE "completed"]
    [] OTHER ->
         IF Resolved(route, t, holders[t])
         THEN AddTasks(settled, t, Chosen(route, t, holders[t])) ELSE Configured(settled, t)

---------------------------------------------------------------------------
(* act_linked_task, inside the transaction of the business operation *)

Closed(p, status) ==
  [p EXCEPT !.status = status,
            !.task = [k \in Step \X User |-> IF @[k] = "active" THEN "cancelled" ELSE @[k]]]

FinalStatus(action) ==
  CASE action = "cancel" -> "cancelled" [] action = "reject" -> "rejected" [] OTHER -> "completed"

\* The active tasks u may act on: those assigned to u or, if there is none, another's at a
\* step whose actor rule u satisfies; that one is then u's.  The code takes the oldest,
\* here any.
LinkedTasks(p, holders, u) ==
  IF \E s \in Step : p.task[<<s, u>>] = "active"
  THEN {<<s, u>> : s \in {x \in Step : p.task[<<x, u>>] = "active"}}
  ELSE {k \in Step \X User : /\ p.task[k] = "active" /\ u \in holders[k[1]]
                             /\ p.task[<<k[1], u>>] = "none"}

Taken(p, k, u) ==
  [p EXCEPT !.task = [x \in Step \X User |->
     IF x = <<k[1], u>> THEN "active" ELSE IF x = k THEN "none" ELSE @[x]]]

\* An unresolved actor fails it too.
CanActLinked(p, route, holders, s, u, action) ==
  LET t == route.goto[<<s, action>>] IN
  ~Waits(p, route, s, u, action) /\ t # NoStep =>
    Resolved(route, t, holders[t]) /\ Insertable(p, t, Chosen(route, t, holders[t]))

\* A return without a transition keeps the process open.  At the end of the process the
\* query for unfinished tasks runs before the acted task is flushed (autoflush is
\* off), finds it among them and cancels it too.
ActedLinked(p, route, holders, s, u, action) ==
  LET recorded == Recorded(p, s, u, action)
      t == route.goto[<<s, action>>]
  IN
  CASE Waits(p, route, s, u, action) -> recorded
    [] ~Waits(p, route, s, u, action) /\ t # NoStep ->
         AddTasks(Settled(recorded, route, s, action), t, Chosen(route, t, holders[t]))
    [] OTHER ->
         IF action = "return" THEN [recorded EXCEPT !.status = "active"]
         ELSE Closed(p, FinalStatus(action))

\* resume_linked_task opens the task that was returned last.
Resumed(p, s, u) == [p EXCEPT !.status = "active", !.task[<<s, u>>] = "active"]
===========================================================================
