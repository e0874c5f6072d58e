---------------------------- MODULE Termination ----------------------------
(***************************************************************************)
(* The termination cases of one employee: reviews, the registered order,    *)
(* offboarding tasks, the scheduled end of the assignments, and what makes  *)
(* it effective or takes it back.                                          *)
(*                                                                         *)
(* Operations lock the case, the task or the assignment rows they change and *)
(* are one step, but for two: initiate looks for other cases before it has   *)
(* any lock, and cancel has read the pending tasks before it writes them.    *)
(* The employee's account, delegations, absences and requests are closed in  *)
(* the transaction that ends the employment and are not kept apart from it.  *)
(***************************************************************************)
EXTENDS Documents, FiniteSets

CONSTANTS Case,
          Assignment, Primary, Start,  \* the employee's assignments, with their first days
          Task, Assigned, Required,    \* task types, those of register_order and of complete
          Form,                        \* other document types the checklist may ask for
          LastDay,                     \* bound: the days are 1..LastDay
          Concurrent                   \* bound: transactions between their two steps

Day == 1..LastDay
Unset == 0    \* no effective_date
Forever == LastDay + 1

Stage == {"hr_review", "signature_registration", "offboarding"}

ASSUME AssignmentAssumption == Primary \in Assignment /\ Start \in [Assignment -> Day] /\ LastDay \in Nat
ASSUME TaskAssumption == Required \subseteq Assigned /\ Assigned \subseteq Task /\ "order" \notin Form

Workflow == INSTANCE WorkflowProcess WITH Step <- Stage, User <- {1}, NoStep <- "none"

VARIABLES case,        \* status and effective_date
          process,     \* the linked processes
          task,        \* offboarding tasks
          checklist,   \* mandatory checklist items; "order" is that of the order's type
          assignment,  \* status and effective_to
          employed,    \* the employee is active
          open,        \* transactions between their two steps
          today

caseVars == <<case, process, task, checklist, assignment, employed, open, today>>
vars == <<caseVars, documentVars>>

Review == {"hr_review", "economic_review", "legal_review", "signature"}

Final == {"rejected", "cancelled", "completed"}

CaseStatus == Review \cup Final \cup {"none", "returned", "registration", "offboarding", "scheduled"}

CaseRow == [status : CaseStatus, date : Day \cup {Unset}]

\* One task of a type per case.
TaskStatus == {"none", "pending", "done", "cancelled"}   \* completed and waived are both done

\* One item per case and document type.
ItemStatus == {"none", "missing", "validated"}

AssignmentRow == [status : {"planned", "active", "scheduled_end", "ended"}, to : Day \cup {Forever}]

Transaction == [op : {"initiate", "cancel"}, case : Case, pending : SUBSET Task]

TypeOK ==
  /\ DocumentTypeOK
  /\ case \in [Case -> CaseRow]
  /\ process \in [Case -> Workflow!Process]
  /\ task \in [Case -> [Task -> TaskStatus]]
  /\ checklist \in [Case -> [Form \cup {"order"} -> ItemStatus]]
  /\ assignment \in [Assignment -> AssignmentRow]
  /\ employed \in BOOLEAN
  /\ open \subseteq Transaction
  /\ today \in Day

Init ==
  /\ DocumentInit
  /\ case = [c \in Case |-> [status |-> "none", date |-> Unset]]
  /\ process = [c \in Case |-> Workflow!Fresh("hr_review")]
  /\ task = [c \in Case |-> [t \in Task |-> "none"]]
  /\ checklist = [c \in Case |-> [d \in Form \cup {"order"} |-> "none"]]
  /\ assignment = [a \in Assignment |->
       [status |-> IF Start[a] = 1 THEN "active" ELSE "planned", to |-> Forever]]
  /\ employed = TRUE /\ open = {} /\ today = 1

---------------------------------------------------------------------------
(* The linked process *)

\* The published route, as seeded: an approval leads to the next step, nothing else has a
\* transition.
TerminationRoute ==
  [first |-> "hr_review", required |-> [s \in Stage |-> 1], mode |-> [s \in Stage |-> "all"],
   parallel |-> {}, allowed |-> [s \in Stage |-> IF s = "offboarding" THEN {"approve", "cancel"}
                                                 ELSE {"approve", "return", "reject"}],
   goto |-> [k \in Stage \X Workflow!Action |->
     CASE k = <<"hr_review", "approve">> -> "signature_registration"
       [] k = <<"signature_registration", "approve">> -> "offboarding"
       [] OTHER -> "none"]]

Holders == [s \in Stage |-> {1}]

\* act_linked_task with the expected phase.
Advances(c, stage, action) ==
  LET p == process[c] IN
  /\ p.phase = stage
  /\ \E k \in Workflow!LinkedTasks(p, Holders, 1) :
       /\ Workflow!CanActLinked(p, TerminationRoute, Holders, k[1], 1, action)
       /\ process' = [process EXCEPT ![c] =
            Workflow!ActedLinked(p, TerminationRoute, Holders, k[1], 1, action)]

\* act_task, which does not ask what stands behind the process.
ActOnTask(c, s, action) ==
  /\ case[c].status # "none" /\ process[c].task[<<s, 1>>] = "active"
  /\ action \in TerminationRoute.allowed[s]
  /\ process' = [process EXCEPT ![c] =
       Workflow!Acted(@, TerminationRoute, Holders, s, 1, action)]
  /\ UNCHANGED <<case, task, checklist, assignment, employed, open, today, documentVars>>

---------------------------------------------------------------------------
(* The case *)

\* The row of the case is not locked.
CaseFree(c) == ~\E x \in open : x.case = c

Begin(transaction) ==
  /\ Cardinality(open) < Concurrent
  /\ open' = open \cup {transaction}
  /\ UNCHANGED <<case, process, task, checklist, assignment, employed, today, documentVars>>

BeginInitiate(c) ==
  /\ case[c].status = "none" /\ CaseFree(c) /\ employed
  /\ \A x \in Case : case[x].status \in Final \cup {"none"}
  /\ Begin([op |-> "initiate", case |-> c, pending |-> {}])

\* The primary assignment is locked, but neither the employee nor the other cases.
CommitInitiate(x) ==
  /\ x.op = "initiate"
  /\ assignment[Primary].status # "ended"
  /\ case' = [case EXCEPT ![x.case].status = "hr_review"]
  /\ process' = [process EXCEPT ![x.case] = Workflow!Started(TerminationRoute, Holders)]
  /\ open' = open \ {x}
  /\ UNCHANGED <<task, checklist, assignment, employed, today, documentVars>>

Following(stage) ==
  CASE stage = "hr_review" -> "economic_review" [] stage = "economic_review" -> "legal_review"
    [] stage = "legal_review" -> "signature" [] stage = "signature" -> "registration"

\* decide: an economic or legal approval has no task of its own.
Decide(c, decision) ==
  LET stage == case[c].status IN
  /\ stage \in Review /\ CaseFree(c)
  /\ case' = [case EXCEPT ![c].status =
       CASE decision = "approve" -> Following(stage)
         [] decision = "return" -> "returned" [] OTHER -> "rejected"]
  /\ IF decision = "approve" /\ stage \in {"economic_review", "legal_review"}
     THEN UNCHANGED process
     ELSE Advances(c, IF stage = "hr_review" THEN "hr_review" ELSE "signature_registration", decision)
  /\ UNCHANGED <<task, checklist, assignment, employed, open, today, documentVars>>

\* resubmit always reopens the first review; resume_linked_task the returned task, if there is
\* one, and is content with an active one.
Resubmit(c) ==
  LET p == process[c]
      tasks(status) == {s \in Stage : p.task[<<s, 1>>] = status}
  IN
  /\ case[c].status = "returned" /\ CaseFree(c)
  /\ case' = [case EXCEPT ![c].status = "hr_review"]
  /\ IF tasks("returned") # {}
     THEN \E s \in tasks("returned") : process' = [process EXCEPT ![c] = Workflow!Resumed(p, s, 1)]
     ELSE tasks("active") # {} /\ UNCHANGED process
  /\ UNCHANGED <<task, checklist, assignment, employed, open, today, documentVars>>

\* Tasks of the types that have none yet.
WithTasks(c, types) ==
  [task EXCEPT ![c] = [t \in Task |-> IF t \in types /\ @[t] = "none" THEN "pending" ELSE @[t]]]

\* Slip: the order need not be registered.
RegisterAnyOrder(c) ==
  /\ case[c].status = "registration" /\ CaseFree(c) /\ record.status # "draft"
  /\ case' = [case EXCEPT ![c].status = "offboarding"]
  /\ checklist' = [checklist EXCEPT ![c]["order"] = "validated"]
  /\ task' = WithTasks(c, Assigned)
  /\ UNCHANGED <<process, assignment, employed, open, today, documentVars>>

RegisterOrder(c) ==
  /\ case[c].status = "registration" /\ CaseFree(c) /\ record.status = "registered"
  /\ case' = [case EXCEPT ![c].status = "offboarding"]
  /\ checklist' = [checklist EXCEPT ![c]["order"] = "validated"]
  /\ task' = WithTasks(c, Assigned)
  /\ UNCHANGED <<process, assignment, employed, open, today, documentVars>>

\* create_checklist_item: nothing but register_order changes an item afterwards.
AskForDocument(c, d, status) ==
  /\ case[c].status # "none" /\ checklist[c][d] = "none"
  /\ checklist' = [checklist EXCEPT ![c][d] = status]
  /\ UNCHANGED <<case, process, task, assignment, employed, open, today, documentVars>>

\* Slip: the case is read without waiting for its row.
CreateTaskUnlocked(c, t) ==
  /\ case[c].status \in {"offboarding", "scheduled"}
  /\ task[c][t] = "none" /\ task' = WithTasks(c, {t})
  /\ UNCHANGED <<case, process, checklist, assignment, employed, open, today, documentVars>>

CreateTask(c, t) ==
  /\ case[c].status \in {"offboarding", "scheduled"} /\ CaseFree(c)
  /\ task[c][t] = "none" /\ task' = WithTasks(c, {t})
  /\ UNCHANGED <<case, process, checklist, assignment, employed, open, today, documentVars>>

\* complete_task and waive_task lock the task and not the case.
FinishTask(c, t) ==
  /\ task[c][t] = "pending"
  /\ task' = [task EXCEPT ![c][t] = "done"]
  /\ UNCHANGED <<case, process, checklist, assignment, employed, open, today, documentVars>>

\* The end of the primary assignment is set whatever has become of it.
Schedule(c, date) ==
  LET others == {a \in Assignment \ {Primary} : assignment[a].status # "ended"} IN
  /\ case[c].status = "offboarding" /\ CaseFree(c) /\ date >= today
  /\ \E ending \in SUBSET others :
       assignment' = [a \in Assignment |->
         IF a = Primary \/ a \in ending THEN [status |-> "scheduled_end", to |-> date]
         ELSE assignment[a]]
  /\ case' = [case EXCEPT ![c] = [status |-> "scheduled", date |-> date]]
  /\ Advances(c, "offboarding", "approve")
  /\ UNCHANGED <<task, checklist, employed, open, today, documentVars>>

\* What complete asks of tasks and documents.
ReadyToComplete(c) ==
  /\ \E d \in DOMAIN checklist[c] : checklist[c][d] = "validated"
  /\ \A d \in DOMAIN checklist[c] : checklist[c][d] # "missing"
  /\ \A t \in Task : task[c][t] # "pending"
  /\ \A t \in Required : task[c][t] = "done"

Later(x, y) == IF x > y THEN x ELSE y

\* Every assignment of the employee that is not, in whatever status.
EndedBy(date) ==
  [a \in Assignment |->
     IF assignment[a].status = "ended" THEN assignment[a]
     ELSE [status |-> "ended", to |-> Later(date, Start[a])]]

\* _close_linked_instance: a process that is over stays as it is.
Finished(p) == IF p.status \in {"completed", "cancelled"} THEN p ELSE Workflow!Closed(p, "completed")

Complete(c) ==
  /\ case[c].status = "scheduled" /\ CaseFree(c) /\ case[c].date <= today
  /\ ReadyToComplete(c)
  /\ assignment' = EndedBy(case[c].date)
  /\ employed' = FALSE
  /\ case' = [case EXCEPT ![c].status = "completed"]
  /\ process' = [process EXCEPT ![c] = Finished(@)]
  /\ UNCHANGED <<task, checklist, open, today, documentVars>>

\* cancel is refused once the date has come, and only then.
BeginCancel(c) ==
  /\ case[c].status \notin {"none", "completed"} /\ CaseFree(c)
  /\ case[c].date = Unset \/ case[c].date > today
  /\ Begin([op |-> "cancel", case |-> c, pending |-> {t \in Task : task[c][t] = "pending"}])

Restored ==
  [a \in Assignment |->
     IF assignment[a].status = "scheduled_end"
     THEN [status |-> IF Start[a] <= today THEN "active" ELSE "planned", to |-> Forever]
     ELSE assignment[a]]

\* Every scheduled end of the employee is taken back, whichever case set it.
CommitCancel(x) ==
  /\ x.op = "cancel"
  /\ \A t \in x.pending : task[x.case][t] = "pending"
  /\ assignment' = Restored
  /\ task' = [task EXCEPT ![x.case] = [t \in Task |-> IF t \in x.pending THEN "cancelled" ELSE @[t]]]
  /\ case' = [case EXCEPT ![x.case].status = "cancelled"]
  /\ process' = [process EXCEPT ![x.case] = Workflow!Closed(@, "cancelled")]
  /\ open' = open \ {x}
  /\ UNCHANGED <<checklist, employed, today, documentVars>>

\* A conflict, a refusal further on, a lost connection.
Rollback(x) ==
  /\ open' = open \ {x}
  /\ UNCHANGED <<case, process, task, checklist, assignment, employed, today, documentVars>>

NextDay ==
  /\ today < LastDay /\ today' = today + 1
  /\ UNCHANGED <<case, process, task, checklist, assignment, employed, open, documentVars>>

Next ==
  \/ DocumentNext /\ UNCHANGED caseVars
  \/ \E c \in Case :
       \/ BeginInitiate(c) \/ Resubmit(c) \/ RegisterOrder(c) \/ Complete(c) \/ BeginCancel(c)
       \/ \E decision \in {"approve", "return", "reject"} : Decide(c, decision)
       \/ \E d \in Form \cup {"order"}, status \in {"missing", "validated"} : AskForDocument(c, d, status)
       \/ \E t \in Task : CreateTask(c, t) \/ FinishTask(c, t)
       \/ \E date \in Day : Schedule(c, date)
       \/ \E s \in Stage, action \in Workflow!Action : ActOnTask(c, s, action)
  \/ \E x \in open : CommitInitiate(x) \/ CommitCancel(x) \/ Rollback(x)
  \/ NextDay

Spec == Init /\ [][Next]_vars

---------------------------------------------------------------------------
(* Properties *)

\* Nobody's employment ends but by the whole protocol: a completed case has its order
\* registered with content nobody can replace, every required task done or waived,
\* its date has come and its process is over (decide to complete).
EndedByProtocol ==
  /\ ~employed => \E c \in Case : case[c].status = "completed"
  /\ \A c \in Case : case[c].status = "completed" =>
       /\ ~employed
       /\ record.registered /\ record.status \in Settled /\ immutable = 1..record.versions
       /\ \A t \in Required : task[c][t] = "done"
       /\ case[c].date \in 1..today
       /\ process[c].status = "completed"

\* A case that is over asks nobody for anything: neither in its process, whoever acts on its
\* tasks, nor in offboarding, although tasks are created and finished beside it.
ClosedCaseIsSettled ==
  \A c \in Case : case[c].status \in Final =>
    /\ process[c].status = case[c].status
    /\ \A s \in Stage : process[c].task[<<s, 1>>] # "active"
    /\ \A t \in Task : task[c][t] # "pending"
===========================================================================
