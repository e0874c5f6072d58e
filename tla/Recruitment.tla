---------------------------- MODULE Recruitment ----------------------------
(***************************************************************************)
(* One recruitment request from its two reviews to the hire: the vacancy,   *)
(* applications, commission decisions, offers and hiring cases.             *)
(*                                                                         *)
(* Handlers lock the row they decide on and the rows they change, or lose   *)
(* by the revision of one they had loaded, so most are one step.  Three go  *)
(* on for longer: create_application holds no lock, complete_hiring and      *)
(* cancel_hiring hold the case but have read an application or tasks that   *)
(* may change before they commit.  The staffing slot has room for one and   *)
(* nobody else uses it.  What an interview or evaluation says is left out.   *)
(***************************************************************************)
EXTENDS Naturals, FiniteSets

CONSTANTS Handler,     \* requests of the API handled at the same time
          Candidate,   \* each may apply once
          Channel,     \* kinds of channel a vacancy is published on once
          Commission,  \* each decides on an application once, its members never change
          Task,        \* onboarding tasks a hiring case may have
          MaxTasks,    \* bound: onboarding tasks of all cases
          Document     \* document types its checklist may ask for

\* create_commission: the members and how many of them declared a conflict.
Meeting == {k \in [members : Nat, conflicts : Nat, quorum : Nat \ {0}] :
              k.conflicts <= k.members /\ k.quorum <= k.members}

ASSUME CommissionAssumption == \A k \in Commission : k \in Meeting
ASSUME ChannelAssumption == Channel \subseteq {"internal", "external"}
ASSUME CandidateAssumption == Candidate # {}
ASSUME TaskAssumption == IsFiniteSet(Candidate \X Task) /\ MaxTasks \in Nat

ReviewStage == {"hr_review", "staffing_review", "vacancy_management"}

Workflow == INSTANCE WorkflowProcess WITH Step <- ReviewStage, User <- {1}, NoStep <- "none"

VARIABLES request,     \* status of the request, and the staffing review it may have had
          process,     \* the workflow instance of the request
          vacancy,     \* publication_status and the kinds of channel it was published on
          application, \* status
          decision,    \* what a commission decided
          offer,       \* status
          hiring,      \* the hiring case: status, the employee it created, its process
          task,        \* onboarding tasks of the case
          checklist,   \* mandatory checklist items of the case
          anonymized,  \* candidates whose data were removed
          session      \* transactions that have read and not committed

recruitmentVars == <<request, process, vacancy, application, decision, offer, hiring, task,
                     checklist, anonymized, session>>

Published == {"open_internal", "open_external"}

RequestRow ==
  [status : {"hr_review", "staffing_review", "returned", "rejected", "approved",
             "vacancy_created", "completed"},
   review : {"none", "approved", "returned", "rejected"}]

\* A vacancy is published once on a channel.
VacancyRow == [status : Published \cup {"none", "draft", "filled"}, published : SUBSET Channel]

\* One row per candidate.
ApplicationStatus ==
  {"none", "received", "shortlisted", "interview", "selected", "reserve", "rejected",
   "offer_pending", "offer_accepted", "offer_declined", "hired", "hiring_cancelled"}

\* One row per commission and application.
Outcome == {"recommended", "reserve", "rejected"}

\* One row per application.
OfferStatus == {"none", "sent", "accepted", "declined"}

CaseStatus == {"none", "document_collection", "completed", "cancelled"}

\* One row per application.
CaseRow == [status : CaseStatus, employee : BOOLEAN,
            process : {"none", "active", "completed", "cancelled"}]

TaskStatus == {"none", "pending", "completed", "cancelled"}

ItemStatus == {"none", "missing", "validated"}

\* fresh: the application still has the revision read; pending: the tasks to be cancelled.
Transaction == [op : {"none", "apply", "complete", "cancel"}, candidate : Candidate,
                fresh : BOOLEAN, pending : SUBSET Task]

NoTransaction ==
  [op |-> "none", candidate |-> CHOOSE c \in Candidate : TRUE, fresh |-> TRUE, pending |-> {}]

RecruitmentTypeOK ==
  /\ request \in RequestRow
  /\ process \in Workflow!Process
  /\ vacancy \in VacancyRow
  /\ application \in [Candidate -> ApplicationStatus]
  /\ decision \in [Candidate -> [Commission -> Outcome \cup {"none"}]]
  /\ offer \in [Candidate -> OfferStatus]
  /\ hiring \in [Candidate -> CaseRow]
  /\ task \in [Candidate -> [Task -> TaskStatus]]
  /\ checklist \in [Candidate -> [Document -> ItemStatus]]
  /\ anonymized \subseteq Candidate
  /\ session \in [Handler -> Transaction]

---------------------------------------------------------------------------
(* The linked process of the request *)

\* The published route, as seeded: an approval leads to the next stage.
RequestRoute ==
  [first |-> "hr_review", required |-> [s \in ReviewStage |-> 1], mode |-> [s \in ReviewStage |-> "all"],
   parallel |-> {},
   allowed |-> [s \in ReviewStage |-> IF s = "vacancy_management" THEN {"approve", "return", "cancel"}
                                      ELSE {"approve", "return", "reject"}],
   goto |-> [k \in ReviewStage \X Workflow!Action |->
     CASE k = <<"hr_review", "approve">> -> "staffing_review"
       [] k = <<"staffing_review", "approve">> -> "vacancy_management"
       [] OTHER -> "none"]]

Reviewers == [s \in ReviewStage |-> {1}]

\* act_linked_task with the expected phase.
Advances(stage, action) ==
  /\ process.phase = stage
  /\ \E k \in Workflow!LinkedTasks(process, Reviewers, 1) :
       /\ Workflow!CanActLinked(process, RequestRoute, Reviewers, k[1], 1, action)
       /\ process' = Workflow!ActedLinked(process, RequestRoute, Reviewers, k[1], 1, action)

RecruitmentInit ==
  /\ request = [status |-> "hr_review", review |-> "none"]
  /\ process = Workflow!Started(RequestRoute, Reviewers)
  /\ vacancy = [status |-> "none", published |-> {}]
  /\ application = [c \in Candidate |-> "none"]
  /\ decision = [c \in Candidate |-> [k \in Commission |-> "none"]]
  /\ offer = [c \in Candidate |-> "none"]
  /\ hiring = [c \in Candidate |-> [status |-> "none", employee |-> FALSE, process |-> "none"]]
  /\ task = [c \in Candidate |-> [t \in Task |-> "none"]]
  /\ checklist = [c \in Candidate |-> [d \in Document |-> "none"]]
  /\ anonymized = {}
  /\ session = [s \in Handler |-> NoTransaction]

\* The variables of the candidates.
people == <<application, decision, offer, hiring, task, checklist, anonymized>>

---------------------------------------------------------------------------
(* Request and vacancy *)

\* review_request without staffing data.
ReviewByHR(action) ==
  /\ request.status \in {"hr_review", "returned"}
  /\ request' = [request EXCEPT !.status =
       CASE action = "approve" -> "staffing_review"
         [] action = "return" -> "returned" [] OTHER -> "rejected"]
  /\ Advances("hr_review", action)
  /\ UNCHANGED <<vacancy, session>> /\ UNCHANGED people

\* The slot's approved FTE is enough for one; _occupied counts who was hired into it.
Vacant == \A c \in Candidate : ~hiring[c].employee

\* review_request with staffing data.  The review is unique to the request; without both
\* confirmations the process is approved and the request rejected.
ReviewByStaffing(action, confirmed) ==
  LET outcome == IF action = "approve" /\ confirmed THEN "approved"
                 ELSE IF action = "return" THEN "returned" ELSE "rejected"
  IN
  /\ request.status = "staffing_review" /\ request.review = "none"
  /\ outcome = "approved" => Vacant
  /\ request' = [status |-> outcome, review |-> outcome]
  /\ Advances("staffing_review", action)
  /\ UNCHANGED <<vacancy, session>> /\ UNCHANGED people

\* act_task on the process of the request, which does not ask what stands behind it.
ActOnReview(stage, action) ==
  /\ process.task[<<stage, 1>>] = "active"
  /\ action \in RequestRoute.allowed[stage]
  /\ process' = Workflow!Acted(process, RequestRoute, Reviewers, stage, 1, action)
  /\ UNCHANGED <<request, vacancy, session>> /\ UNCHANGED people

\* correct_request always reopens the first review, resume_linked_task the returned one (or
\* takes one that is active: with one reviewer at each stage a returned request has none).
CorrectRequest ==
  /\ request.status = "returned"
  /\ request' = [request EXCEPT !.status = "hr_review"]
  /\ \E k \in ReviewStage \X {1} :
       /\ process.task[k] = "returned"
       /\ process' = Workflow!Resumed(process, k[1], k[2])
  /\ UNCHANGED <<vacancy, session>> /\ UNCHANGED people

CreateVacancy ==
  /\ request.status = "approved" /\ Vacant
  /\ vacancy' = [vacancy EXCEPT !.status = "draft"]
  /\ request' = [request EXCEPT !.status = "vacancy_created"]
  /\ UNCHANGED <<process, session>> /\ UNCHANGED people

\* Once per channel, in any status.
PublishVacancy(channel) ==
  /\ vacancy.status # "none" /\ channel \notin vacancy.published
  /\ vacancy' = [status |-> IF channel = "external" THEN "open_external" ELSE "open_internal",
                 published |-> vacancy.published \cup {channel}]
  /\ UNCHANGED <<request, process, session>> /\ UNCHANGED people

---------------------------------------------------------------------------
(* Applications *)

\* A transaction that has loaded the application will find its revision changed.
Outdated(c) ==
  [s \in Handler |-> IF session[s].candidate = c THEN [session[s] EXCEPT !.fresh = FALSE]
                     ELSE session[s]]

Becomes(c, status) ==
  /\ application[c] # "none"
  /\ application' = [application EXCEPT ![c] = status]

UnchangedCase == UNCHANGED <<request, process, vacancy, hiring, task, checklist>>

\* create_application reads the vacancy and the candidate without a lock.
BeginApply(s, c) ==
  /\ session[s].op = "none" /\ application[c] = "none"
  /\ vacancy.status \in Published /\ c \notin anonymized
  /\ session' = [session EXCEPT ![s] = [NoTransaction EXCEPT !.op = "apply", !.candidate = c]]
  /\ UNCHANGED <<request, process, vacancy>> /\ UNCHANGED people

CommitApply(s) ==
  LET c == session[s].candidate IN
  /\ session[s].op = "apply" /\ application[c] = "none"
  /\ application' = [application EXCEPT ![c] = "received"]
  /\ session' = [session EXCEPT ![s] = NoTransaction]
  /\ UnchangedCase /\ UNCHANGED <<decision, offer, anonymized>>

\* screen, in any status.
Screen(c) ==
  /\ \E status \in {"shortlisted", "rejected"} : Becomes(c, status)
  /\ session' = Outdated(c)
  /\ UnchangedCase /\ UNCHANGED <<decision, offer, anonymized>>

ScheduleInterview(c) ==
  /\ application[c] \in {"shortlisted", "interview"} /\ Becomes(c, "interview")
  /\ session' = Outdated(c)
  /\ UnchangedCase /\ UNCHANGED <<decision, offer, anonymized>>

\* require_commission_quorum.
Quorate(k) == k.members - k.conflicts >= k.quorum

\* record_commission_decision, in any status.
Decide(c, commission, outcome) ==
  /\ Quorate(commission)
  /\ decision[c][commission] = "none"
  /\ decision' = [decision EXCEPT ![c][commission] = outcome]
  /\ Becomes(c, IF outcome = "recommended" THEN "selected" ELSE outcome)
  /\ session' = Outdated(c)
  /\ UnchangedCase /\ UNCHANGED <<offer, anonymized>>

\* Slip: the status of the application is not looked at.
CreateOfferUnselected(c) ==
  /\ offer[c] = "none"
  /\ offer' = [offer EXCEPT ![c] = "sent"]
  /\ Becomes(c, "offer_pending")
  /\ session' = Outdated(c)
  /\ UnchangedCase /\ UNCHANGED <<decision, anonymized>>

CreateOffer(c) ==
  /\ application[c] = "selected" /\ offer[c] = "none"
  /\ offer' = [offer EXCEPT ![c] = "sent"]
  /\ Becomes(c, "offer_pending")
  /\ session' = Outdated(c)
  /\ UnchangedCase /\ UNCHANGED <<decision, anonymized>>

\* respond_offer does not look at what the application has become.
RespondOffer(c, accepted) ==
  /\ offer[c] = "sent"
  /\ offer' = [offer EXCEPT ![c] = IF accepted THEN "accepted" ELSE "declined"]
  /\ Becomes(c, IF accepted THEN "offer_accepted" ELSE "offer_declined")
  /\ session' = Outdated(c)
  /\ UnchangedCase /\ UNCHANGED <<decision, anonymized>>

\* anonymize_candidate, after the retention period.
Anonymize(c) ==
  /\ c \notin anonymized /\ application[c] \in {"none", "rejected"}
  /\ anonymized' = anonymized \cup {c}
  /\ UnchangedCase /\ UNCHANGED <<application, decision, offer, session>>

---------------------------------------------------------------------------
(* Hiring cases *)

\* The row of the case is not locked.
CaseFree(c) == \A s \in Handler : session[s].op \in {"complete", "cancel"} => session[s].candidate # c

StartHiring(c) ==
  /\ offer[c] = "accepted" /\ hiring[c].status = "none"
  /\ hiring' = [hiring EXCEPT ![c] =
       [status |-> "document_collection", employee |-> FALSE, process |-> "active"]]
  /\ UNCHANGED <<request, process, vacancy, application, decision, offer, task, checklist,
                 anonymized, session>>

\* create_checklist_item: nothing changes an item afterwards.
AskForDocument(c, d, status) ==
  /\ hiring[c].status # "none" /\ checklist[c][d] = "none"
  /\ checklist' = [checklist EXCEPT ![c][d] = status]
  /\ UNCHANGED <<request, process, vacancy, application, decision, offer, hiring, task,
                 anonymized, session>>

NewTask(c) ==
  /\ Cardinality({k \in Candidate \X Task : task[k[1]][k[2]] # "none"}) < MaxTasks
  /\ \E t \in Task : task[c][t] = "none" /\ task' = [task EXCEPT ![c][t] = "pending"]

\* Slip: the status is read without waiting for the row of the case.
CreateTaskUnlocked(c) ==
  /\ hiring[c].status \notin {"none", "completed", "cancelled"}
  /\ NewTask(c)
  /\ UNCHANGED <<request, process, vacancy, application, decision, offer, hiring, checklist,
                 anonymized, session>>

CreateTask(c) ==
  /\ hiring[c].status \notin {"none", "completed", "cancelled"} /\ CaseFree(c)
  /\ NewTask(c)
  /\ UNCHANGED <<request, process, vacancy, application, decision, offer, hiring, checklist,
                 anonymized, session>>

\* complete_onboarding_task locks the task and not the case.
CompleteTask(c, t) ==
  /\ task[c][t] = "pending"
  /\ task' = [task EXCEPT ![c][t] = "completed"]
  /\ UNCHANGED <<request, process, vacancy, application, decision, offer, hiring, checklist,
                 anonymized, session>>

\* act_task on the process of the case, which does not ask what stands behind it.
ActOnTask(c) ==
  /\ hiring[c].process = "active"
  /\ \E status \in {"completed", "cancelled"} : hiring' = [hiring EXCEPT ![c].process = status]
  /\ UNCHANGED <<request, process, vacancy, application, decision, offer, task, checklist,
                 anonymized, session>>

\* complete_linked_instance: whatever became of the process, it is completed now.
ProcessCompleted(case) == [case EXCEPT !.process = "completed"]

\* complete_hiring does not ask for the status of the case.
BeginComplete(s, c) ==
  /\ session[s].op = "none" /\ hiring[c].status # "none" /\ CaseFree(c)
  /\ \E d \in Document : checklist[c][d] = "validated"
  /\ \A d \in Document : checklist[c][d] # "missing"
  /\ \A t \in Task : task[c][t] \in {"none", "completed"}
  /\ ~hiring[c].employee /\ Vacant
  /\ session' = [session EXCEPT ![s] = [NoTransaction EXCEPT !.op = "complete", !.candidate = c]]
  /\ UNCHANGED <<request, process, vacancy>> /\ UNCHANGED people

\* The application is the one read before, the vacancy and the request are locked now.
CommitComplete(s) ==
  LET c == session[s].candidate IN
  /\ session[s].op = "complete" /\ session[s].fresh
  /\ hiring' = [hiring EXCEPT ![c] = ProcessCompleted([@ EXCEPT !.status = "completed", !.employee = TRUE])]
  /\ Becomes(c, "hired")
  /\ vacancy' = [vacancy EXCEPT !.status = "filled"]
  /\ request' = [request EXCEPT !.status = "completed"]
  /\ session' = [Outdated(c) EXCEPT ![s] = NoTransaction]
  /\ UNCHANGED <<process, decision, offer, task, checklist, anonymized>>

\* cancel_hiring, also of a cancelled case.
BeginCancel(s, c) ==
  /\ session[s].op = "none" /\ hiring[c].status \notin {"none", "completed"} /\ CaseFree(c)
  /\ session' = [session EXCEPT ![s] = [NoTransaction EXCEPT !.op = "cancel", !.candidate = c,
       !.pending = {t \in Task : task[c][t] \in {"pending", "cancelled"}}]]
  /\ UNCHANGED <<request, process, vacancy>> /\ UNCHANGED people

\* The tasks must be as they were read; the application, the vacancy and the request are
\* locked one after the other, and the vacancy reopens whoever has filled it.
CommitCancel(s) ==
  LET c == session[s].candidate IN
  /\ session[s].op = "cancel"
  /\ \A t \in session[s].pending : task[c][t] # "completed"
  /\ hiring' = [hiring EXCEPT ![c].status = "cancelled", ![c].process = "cancelled"]
  /\ task' = [task EXCEPT ![c] = [t \in Task |->
       IF t \in session[s].pending THEN "cancelled" ELSE @[t]]]
  /\ Becomes(c, "hiring_cancelled")
  /\ vacancy' = [vacancy EXCEPT !.status =
       IF "external" \in vacancy.published THEN "open_external" ELSE "open_internal"]
  /\ request' = [request EXCEPT !.status = "vacancy_created"]
  /\ session' = [Outdated(c) EXCEPT ![s] = NoTransaction]
  /\ UNCHANGED <<process, decision, offer, checklist, anonymized>>

\* A conflict, a refusal further on, a lost connection.
Rollback(s) ==
  /\ session[s].op # "none"
  /\ session' = [session EXCEPT ![s] = NoTransaction]
  /\ UNCHANGED <<request, process, vacancy>> /\ UNCHANGED people

RecruitmentNext ==
  \/ \E action \in {"approve", "return", "reject"} :
       \/ ReviewByHR(action)
       \/ \E confirmed \in BOOLEAN : ReviewByStaffing(action, confirmed)
  \/ \E stage \in ReviewStage, action \in Workflow!Action : ActOnReview(stage, action)
  \/ CorrectRequest \/ CreateVacancy
  \/ \E channel \in Channel : PublishVacancy(channel)
  \/ \E c \in Candidate :
       \/ Screen(c) \/ ScheduleInterview(c) \/ CreateOffer(c) \/ Anonymize(c)
       \/ \E commission \in Commission, outcome \in Outcome :
            Decide(c, commission, outcome)
       \/ \E accepted \in BOOLEAN : RespondOffer(c, accepted)
       \/ StartHiring(c) \/ CreateTask(c) \/ ActOnTask(c)
       \/ \E d \in Document, status \in {"missing", "validated"} : AskForDocument(c, d, status)
       \/ \E t \in Task : CompleteTask(c, t)
       \/ \E s \in Handler : BeginApply(s, c) \/ BeginComplete(s, c) \/ BeginCancel(s, c)
  \/ \E s \in Handler : CommitApply(s) \/ CommitComplete(s) \/ CommitCancel(s) \/ Rollback(s)

RecruitmentSpec == RecruitmentInit /\ [][RecruitmentNext]_recruitmentVars

---------------------------------------------------------------------------
(* Properties *)

\* Nobody becomes an employee but by the whole protocol, whatever happened to the request,
\* the vacancy, the application and the case in between: both reviews approved the request
\* in its process, a commission with its quorum recommended the candidate, an offer was
\* accepted and every onboarding task is done (review_request to complete_hiring).
HiredByProtocol ==
  \A c \in Candidate : hiring[c].employee =>
    /\ request.review = "approved"
    /\ \A s \in {"hr_review", "staffing_review"} : process.task[<<s, 1>>] = "completed"
    /\ \E k \in Commission : k.members - k.conflicts >= k.quorum /\ decision[c][k] = "recommended"
    /\ offer[c] = "accepted"
    /\ \A t \in Task : task[c][t] \in {"none", "completed"}

\* A case that is over leaves nothing to do: its process is over in the same way, although the
\* tasks of both are acted on without the lock of the case, and a cancelled case has no employee.
ClosedCaseIsSettled ==
  \A c \in Candidate :
    /\ hiring[c].status \in {"completed", "cancelled"} =>
         /\ hiring[c].process = hiring[c].status
         /\ \A t \in Task : task[c][t] # "pending"
    /\ hiring[c].employee <=> hiring[c].status = "completed"
===========================================================================
